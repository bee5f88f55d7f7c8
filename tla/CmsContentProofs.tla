-------------------------- MODULE CmsContentProofs --------------------------
(***************************************************************************)
(* What CmsStore keeps beside the documents: the media they show and the   *)
(* revisions of them, for any number of concurrent requests.               *)
(***************************************************************************)
EXTENDS CmsStoreProofs, FiniteSetTheorems

-----------------------------------------------------------------------------
(* Media: table media, the R2 bucket and the documents that show an item.  *)

Attached == /\ MediaOK
            /\ RowHasBytes
            /\ HeroResolves

LEMMA InitAttached == Init => Attached
<1> SUFFICES ASSUME Init PROVE Attached
  OBVIOUS
<1>1. PICK kindOf \in [SeedDoc -> Kinds], inputOf \in [SeedDoc -> SeedInput] :
        Seeded(kindOf, inputOf)
  BY DEF Init
<1>2. MediaOK
  BY DEF Init, MediaOK, Uploaded
<1>3. RowHasBytes
  BY DEF Init, RowHasBytes
<1>4. HeroResolves
  <2> SUFFICES ASSUME NEW d \in DocId, docs[d] # None PROVE HeroKnown(docs[d].doc)
    BY DEF HeroResolves
  <2>1. d \in SeedDoc /\ docs[d].doc = inputOf[d].doc
    BY <1>1 DEF Seeded
  <2> QED
    BY <2>1 DEF SeedInput, HeroKnown, Init
<1> QED
  BY <1>2, <1>3, <1>4 DEF Attached

\* A step that leaves documents, media and bytes alone, and does not take r
\* to a stage of createMedia or deleteMedia that relies on them.
Quiet(r) ==
  /\ UNCHANGED <<docs, media, objects, touched>>
  /\ \A q \in Request \ {r} : pc'[q] = pc[q] /\ job'[q] = job[q] /\ todo'[q] = todo[q]
  /\ pc'[r] \notin {"idle", "insertMedia", "usage", "deleteMediaRow", "deleteBytes"}
  /\ pc'[r] = "putBytes" => pc[r] = "idle"

LEMMA QuietAttached ==
  ASSUME StagedType, Attached, NEW r \in Request, Quiet(r)
  PROVE  Attached'
<1>1. \A m \in MediaId : Uploaded(m) => Uploaded(m)'
  BY DEF Quiet, Uploaded, MediaId
<1>2. \A k : \A m : Users(k, m)' = Users(k, m)
  BY DEF Quiet, Users, Uses
<1>3. MediaOK'
  <2>1. \A m \in media' : Uploaded(m)'
    BY <1>1 DEF Attached, MediaOK, Quiet, StagedType, TypeOK, TablesTypeOK
  <2>2. ASSUME NEW q \in Request
        PROVE  /\ pc'[q] = "insertMedia" => q \in objects'
               /\ \/ pc'[q] \in {"deleteMediaRow", "deleteBytes"}
                  \/ pc'[q] = "usage" /\ "row" \notin todo'[q]
                  => Uploaded(job[q].ref)'
               /\ pc'[q] = "deleteBytes" => job'[q].ref \notin media'
               /\ \A k \in Kind :
                    \/ pc'[q] = "deleteMediaRow"
                    \/ pc'[q] = "usage" /\ k \notin todo'[q]
                    => Users(k, job[q].ref)' \subseteq touched'[q]
    <3>1. CASE q = r
      BY <3>1 DEF Quiet
    <3>2. CASE q # r
      <4>1. pc[q] \in {"usage", "deleteMediaRow", "deleteBytes"} => job[q].ref \in MediaId
        BY DEF StagedType, StageOK
      <4> QED
        BY <1>1, <1>2, <3>2, <4>1 DEF Quiet, Attached, MediaOK
    <3> QED
      BY <3>1, <3>2
  <2> QED
    BY <2>1, <2>2 DEF MediaOK
<1> QED
  BY <1>3 DEF Attached, RowHasBytes, HeroResolves, HeroKnown, Quiet

\* The steps that are not quiet.
Loud(r) == \/ InsertRow(r) \/ UpdateRow(r) \/ DeleteRow(r)
           \/ PutBytes(r) \/ InsertMediaRow(r) \/ ReadUsage(r)
           \/ DeleteMediaRow(r) \/ DeleteBytes(r)
           \/ \E m \in MediaId : DeleteMedia(r, m)

LEMMA RefuseQuiet ==
  ASSUME StagedType, NEW r \in Request, Refuse(r)
  PROVE  Quiet(r)
BY DEF Refuse, Goto, Forget, tables, history, Quiet, StagedType, TypeOK

LEMMA OtherStepsQuiet ==
  ASSUME StagedType, NEW r \in Request, Arrivals(r) \/ Serve(r), ~Loud(r)
  PROVE  Quiet(r)
<1> USE DEF Step, Goto, tables, memory, history, Quiet, StagedType, TypeOK
<1>1. ASSUME NEW op, NEW to \in {"rejected", "checkSlug", "lookup", "restoreTarget", "findDoc",
                                  "checkCategory", "findCategory", "putBytes", "fileRow"},
             NEW j, Arrive(r, op, to, j)
      PROVE  Quiet(r)
  BY <1>1 DEF Arrive
<1>2. CASE Arrivals(r)
  BY <1>1, <1>2 DEF Arrivals, Loud, CreateDoc, UpdateDoc, UpdateEntry, RestoreRevision, DeleteDoc,
                    CreateCategory, DeleteCategory, CreateMedia, GetMediaFile
<1>3. CASE Refuse(r)
  BY <1>3, RefuseQuiet
<1>4. CASE DocSteps(r) /\ ~Refuse(r)
  <2>1. CASE CheckSlugFree(r) \/ ReadBack(r)
    BY <1>4, <2>1 DEF CheckSlugFree, ReadBack, Require
  <2>2. CASE FindRevisionTarget(r) \/ RequireDecodedRow(r) \/ FindDoc(r)
    BY <1>4, <2>2 DEF FindRevisionTarget, RequireDecodedRow, FindDoc, Find
  <2>3. CASE FindRevisionRow(r)
    BY <1>4, <2>3 DEF FindRevisionRow
  <2>4. CASE UnlinkCategories(r) \/ VerifyCategories(r) \/ LinkCategory(r)
    BY <1>4, <2>4 DEF UnlinkCategories, VerifyCategories, LinkCategory
  <2>5. CASE ReadClock(r) \/ RecordRevision(r) \/ PruneRevisions(r)
    BY <2>5 DEF ReadClock, RecordRevision, PruneRevisions
  <2> QED
    BY <1>4, <2>1, <2>2, <2>3, <2>4, <2>5 DEF DocSteps, Loud
<1>5. CASE CategorySteps(r) /\ ~Refuse(r)
  BY <1>5 DEF CategorySteps, CheckCategory, InsertCategoryRow, FindCategory, RemoveCategory, Require,
              Find, Finish, Forget
<1>6. CASE MediaSteps(r) /\ ~Refuse(r)
  BY <1>6 DEF MediaSteps, Loud, ReadMedia, RequireMediaRow, ReadBytes, Require
<1>7. CASE Fail(r)
  BY <1>7 DEF Fail, Forget
<1> QED
  BY <1>2, <1>3, <1>4, <1>5, <1>6, <1>7 DEF Serve


-----------------------------------------------------------------------------
(* A write of a document: requests that hold a usage answer are told.      *)

LEMMA WriteAttached ==
  ASSUME StagedType, Attached, NEW r \in Request, NEW d \in DocId, NEW to,
         pc' = [pc EXCEPT ![r] = to],
         {pc[r], to} \cap {"idle", "putBytes", "insertMedia", "usage", "deleteMediaRow",
                           "deleteBytes"} = {},
         \A e \in DocId \ {d} : docs'[e] = docs[e],
         docs'[d] # None => HeroKnown(docs'[d].doc),
         Touch(d),
         UNCHANGED <<media, objects, job, todo>>
  PROVE  Attached'
<1>1. \A m \in MediaId : Uploaded(m) => Uploaded(m)'
  BY DEF Uploaded, MediaId, StagedType, TypeOK
<1>2. \A q \in Request : /\ pc'[q] \in {"insertMedia", "usage", "deleteMediaRow", "deleteBytes"} =>
                              q # r /\ pc[q] = pc'[q]
                         /\ pc[q] \in {"usage", "deleteMediaRow"} => touched'[q] = touched[q] \cup {d}
  BY DEF Touch, StagedType, TypeOK
<1>3. \A k : \A m : Users(k, m)' \subseteq Users(k, m) \cup {d}
  BY DEF Users
<1>4. MediaOK'
  <2>1. \A m \in media' : Uploaded(m)'
    BY <1>1 DEF Attached, MediaOK, StagedType, TypeOK, TablesTypeOK
  <2>2. ASSUME NEW q \in Request
        PROVE  /\ pc'[q] = "insertMedia" => q \in objects'
               /\ \/ pc'[q] \in {"deleteMediaRow", "deleteBytes"}
                  \/ pc'[q] = "usage" /\ "row" \notin todo'[q]
                  => Uploaded(job[q].ref)'
               /\ pc'[q] = "deleteBytes" => job'[q].ref \notin media'
    <3>1. pc[q] \in {"usage", "deleteMediaRow", "deleteBytes"} => job[q].ref \in MediaId
      BY DEF StagedType, StageOK
    <3> QED
      BY <1>1, <1>2, <3>1 DEF Attached, MediaOK
  <2>3. ASSUME NEW q \in Request, NEW k \in Kind,
               \/ pc'[q] = "deleteMediaRow"
               \/ pc'[q] = "usage" /\ k \notin todo'[q]
        PROVE  Users(k, job[q].ref)' \subseteq touched'[q]
    <3>1. Users(k, job[q].ref) \subseteq touched[q]
      BY <1>2, <2>3 DEF Attached, MediaOK
    <3>2. touched'[q] = touched[q] \cup {d}
      BY <1>2, <2>3
    <3>3. Users(k, job[q].ref)' \subseteq Users(k, job[q].ref) \cup {d}
      BY <1>3
    <3> QED
      BY <3>1, <3>2, <3>3
  <2> QED
    BY <2>1, <2>2, <2>3 DEF MediaOK
<1>5. HeroResolves'
  BY DEF Attached, HeroResolves, HeroKnown
<1> QED
  BY <1>4, <1>5 DEF Attached, RowHasBytes

LEMMA InsertRowAttached ==
  ASSUME StagedType, Attached, NEW r \in Request, InsertRow(r)
  PROVE  Attached'
<1> DEFINE new == [kind |-> job[r].kind, doc |-> job[r].input.doc]
<1>1. r \in DocId /\ docs' = [docs EXCEPT ![r] = new] /\ new.doc = job[r].input.doc
  BY DEF InsertRow, InsertDocRow, DocId
<1> HIDE DEF new
<1>2. docs'[r] = new /\ \A e \in DocId \ {r} : docs'[e] = docs[e]
  BY <1>1 DEF StagedType, TypeOK, TablesTypeOK
<1>3. HeroKnown(docs'[r].doc)
  BY <1>1, <1>2 DEF InsertRow, DocAccepted
<1> QED
  BY <1>1, <1>2, <1>3, WriteAttached DEF InsertRow, Step, Goto, AfterRow

LEMMA UpdateRowAttached ==
  ASSUME StagedType, Attached, NEW r \in Request, UpdateRow(r)
  PROVE  Attached'
<1> DEFINE d == target[r]
<1>1. d \in DocId /\ job[r].input \in Inputs /\ TablesTypeOK
  BY DEF UpdateRow, Step, StagedType, StageOK, TypeOK, OnDocument, Writing
<1>2. \A e \in DocId \ {d} : docs'[e] = docs[e]
  BY <1>1 DEF UpdateRow, UpdateDocRow, TablesTypeOK
<1>3. docs'[d] # None => HeroKnown(docs'[d].doc)
  <2> SUFFICES ASSUME docs'[d] # None PROVE HeroKnown(docs'[d].doc)
    OBVIOUS
  <2> DEFINE doc == [job[r].input.doc EXCEPT !.slug = docs[d].doc.slug]
  <2>1. docs[d] # None /\ HeroKnown(job[r].input.doc)
    BY DEF UpdateRow, UpdateDocRow
  <2>2. job[r].input.doc \in Content /\ docs[d] \in Row
    BY <1>1, <2>1, InputParts DEF TablesTypeOK
  <2>3. doc.hero = job[r].input.doc.hero
    BY <2>2 DEF Content
  <2>4. docs' = [docs EXCEPT ![d].doc = doc]
    BY <2>1 DEF UpdateRow, UpdateDocRow
  <2> HIDE DEF doc
  <2>5. docs'[d].doc = doc
    BY <1>1, <2>2, <2>4 DEF TablesTypeOK, Row
  <2> QED
    BY <2>1, <2>3, <2>5 DEF HeroKnown
<1> QED
  BY <1>1, <1>2, <1>3, WriteAttached DEF UpdateRow, Step, Goto, AfterRow

LEMMA DeleteRowAttached ==
  ASSUME StagedType, Attached, NEW r \in Request, DeleteRow(r)
  PROVE  Attached'
<1>1. /\ target[r] \in DocId
      /\ pc' = [pc EXCEPT ![r] = "ok"]
      /\ docs' = [docs EXCEPT ![target[r]] = None]
      /\ UNCHANGED <<media, objects, touched>>
      /\ \A q \in Request \ {r} : job'[q] = job[q] /\ todo'[q] = todo[q]
  BY DEF DeleteRow, Finish, Step, Goto, Forget, DeleteDocRow, history, StagedType, StageOK, TypeOK,
         OnDocument
<1>2. \A d \in DocId : docs'[d] # None => docs'[d] = docs[d]
  BY <1>1 DEF StagedType, TypeOK, TablesTypeOK
<1>3. \A k : \A m : Users(k, m)' \subseteq Users(k, m)
  BY <1>2 DEF Users
<1>4. \A m \in MediaId : Uploaded(m) => Uploaded(m)'
  BY <1>1 DEF Uploaded, MediaId, StagedType, TypeOK
<1>5. MediaOK'
  <2>1. \A m \in media' : Uploaded(m)'
    BY <1>1, <1>4 DEF Attached, MediaOK, StagedType, TypeOK, TablesTypeOK
  <2>2. ASSUME NEW q \in Request
        PROVE  /\ pc'[q] = "insertMedia" => q \in objects'
               /\ \/ pc'[q] \in {"deleteMediaRow", "deleteBytes"}
                  \/ pc'[q] = "usage" /\ "row" \notin todo'[q]
                  => Uploaded(job[q].ref)'
               /\ pc'[q] = "deleteBytes" => job'[q].ref \notin media'
               /\ \A k \in Kind :
                    \/ pc'[q] = "deleteMediaRow"
                    \/ pc'[q] = "usage" /\ k \notin todo'[q]
                    => Users(k, job[q].ref)' \subseteq touched'[q]
    <3>1. CASE q = r
      BY <1>1, <3>1 DEF StagedType, TypeOK
    <3>2. CASE q # r
      <4>1. pc'[q] = pc[q] /\ job'[q] = job[q] /\ todo'[q] = todo[q]
        BY <1>1, <3>2 DEF StagedType, TypeOK
      <4>2. pc[q] \in {"usage", "deleteMediaRow", "deleteBytes"} => job[q].ref \in MediaId
        BY DEF StagedType, StageOK
      <4> QED
        BY <1>1, <1>3, <1>4, <4>1, <4>2 DEF Attached, MediaOK
    <3> QED
      BY <3>1, <3>2
  <2> QED
    BY <2>1, <2>2 DEF MediaOK
<1>6. HeroResolves'
  BY <1>1, <1>2 DEF Attached, HeroResolves, HeroKnown
<1> QED
  BY <1>1, <1>5, <1>6 DEF Attached, RowHasBytes

-----------------------------------------------------------------------------
(* The steps of createMedia and deleteMedia: bytes before the row on the   *)
(* way in, the row before the bytes on the way out.                        *)

\* What a step of r must show about r itself, the documents being unchanged.
MediaStage(r) ==
  /\ pc[r] = "insertMedia" => r \in objects
  /\ \/ pc[r] \in {"deleteMediaRow", "deleteBytes"}
     \/ pc[r] = "usage" /\ "row" \notin todo[r]
     => Uploaded(job[r].ref)
  /\ pc[r] = "deleteBytes" => job[r].ref \notin media
  /\ \A k \in Kind : \/ pc[r] = "deleteMediaRow"
                     \/ pc[r] = "usage" /\ k \notin todo[r]
                     => Users(k, job[r].ref) \subseteq touched[r]

LEMMA MediaAttached ==
  ASSUME StagedType, Attached, NEW r \in Request,
         pc[r] \in {"idle", "putBytes", "insertMedia", "usage", "deleteMediaRow", "deleteBytes"},
         pc'[r] \notin {"idle", "putBytes"}, pc'[r] = "insertMedia" => pc[r] = "putBytes",
         UNCHANGED docs,
         \A q \in Request \ {r} : /\ pc'[q] = pc[q] /\ job'[q] = job[q]
                                  /\ todo'[q] = todo[q] /\ touched'[q] = touched[q],
         \A m \in media' : m \in media \/ (m = r /\ pc[r] = "insertMedia"),
         \A m \in objects : m \in objects' \/ (pc[r] = "deleteBytes" /\ m = job[r].ref),
         MediaStage(r)'
  PROVE  MediaOK'
<1>1. \A m \in MediaId : Uploaded(m) => Uploaded(m)'
  BY DEF Uploaded, MediaId, StagedType, TypeOK
<1>2. \A k : \A m : Users(k, m)' = Users(k, m)
  BY DEF Users, Uses
<1>3. \A m \in media' : Uploaded(m)'
  BY <1>1 DEF Attached, MediaOK, StagedType, TypeOK, TablesTypeOK, Uploaded
<1>4. ASSUME NEW q \in Request, q # r PROVE MediaStage(q)'
  <2>1. pc'[q] = pc[q] /\ job'[q] = job[q] /\ todo'[q] = todo[q] /\ touched'[q] = touched[q]
    BY <1>4 DEF StagedType, TypeOK
  <2>2. pc[q] \in {"usage", "deleteMediaRow", "deleteBytes"} => job[q].ref \in MediaId
    BY DEF StagedType, StageOK
  <2>3. pc[q] = "insertMedia" => q \in objects'
    <3> SUFFICES ASSUME pc[q] = "insertMedia" PROVE q \in objects'
      OBVIOUS
    <3>1. q \in objects /\ ~Uploaded(q)
      BY TablesAssumption DEF Attached, MediaOK, Uploaded
    <3>2. pc[r] = "deleteBytes" => Uploaded(job[r].ref)
      BY DEF Attached, MediaOK
    <3> QED
      BY <3>1, <3>2
  <2>4. pc[q] = "deleteBytes" => job[q].ref \notin media'
    <3> SUFFICES ASSUME pc[q] = "deleteBytes", job[q].ref \in media' PROVE FALSE
      OBVIOUS
    <3>1. Uploaded(job[q].ref) /\ job[q].ref \notin media
      BY DEF Attached, MediaOK
    <3>2. job[q].ref = r /\ pc[r] = "insertMedia"
      BY <3>1
    <3> QED
      BY <3>1, <3>2, TablesAssumption DEF Uploaded
  <2> QED
    BY <1>1, <1>2, <2>1, <2>2, <2>3, <2>4 DEF Attached, MediaOK, MediaStage
<1> QED
  BY <1>3, <1>4 DEF MediaOK, MediaStage

LEMMA MediaStepAttached ==
  ASSUME StagedType, Attached, NEW r \in Request, Loud(r),
         ~InsertRow(r), ~UpdateRow(r), ~DeleteRow(r)
  PROVE  Attached'
<1> USE DEF Step, Goto, tables, memory, history, StagedType, TypeOK, TablesTypeOK
<1>1. CASE PutBytes(r)
  <2>1. MediaStage(r)'
    BY <1>1 DEF PutBytes, MediaStage
  <2>2. MediaOK'
    BY <1>1, <2>1, MediaAttached DEF PutBytes
  <2> QED
    BY <1>1, <2>2 DEF PutBytes, Attached, RowHasBytes, HeroResolves, HeroKnown
<1>2. CASE InsertMediaRow(r)
  <2>1. MediaStage(r)'
    BY <1>2 DEF InsertMediaRow, MediaStage
  <2>2. MediaOK'
    <3>1. /\ pc[r] = "insertMedia" /\ pc'[r] = "readMedia"
          /\ \A q \in Request \ {r} : pc'[q] = pc[q]
          /\ media' = media \cup {r}
          /\ UNCHANGED <<docs, objects, job, todo, touched>>
      BY <1>2 DEF InsertMediaRow
    <3> QED
      BY <2>1, <3>1, MediaAttached
  <2>3. r \in objects
    BY <1>2 DEF InsertMediaRow, Attached, MediaOK
  <2> QED
    BY <1>2, <2>2, <2>3 DEF InsertMediaRow, Attached, RowHasBytes, HeroResolves, HeroKnown
<1>3. CASE ReadUsage(r)
  <2>1. CASE Refuse(r)
    <3>1. Quiet(r)
      BY <2>1, RefuseQuiet
    <3> QED
      BY <3>1, QuietAttached
  <2>2. CASE ~Refuse(r)
    <3>1. PICK check \in todo[r] :
            /\ IF check = "row" THEN job[r].ref \in media ELSE Users(check, job[r].ref) = {}
            /\ pc[r] = "usage"
            /\ pc' = [pc EXCEPT ![r] = IF todo[r] = {check} THEN "deleteMediaRow" ELSE "usage"]
            /\ todo' = [todo EXCEPT ![r] = @ \ {check}]
            /\ UNCHANGED <<tables, job, target, stamp, clock, history>>
      BY <1>3, <2>2 DEF ReadUsage
    <3>2. /\ UNCHANGED <<docs, media, objects, job, touched>>
          /\ todo'[r] = todo[r] \ {check}
          /\ pc'[r] = IF todo[r] = {check} THEN "deleteMediaRow" ELSE "usage"
          /\ \A q \in Request \ {r} : todo'[q] = todo[q]
      BY <3>1
    <3>3. pc'[r] = "deleteMediaRow" \/ "row" \notin todo'[r] => Uploaded(job[r].ref)'
      <4>1. CASE check = "row"
        <5>1. Uploaded(job[r].ref)
          BY <3>1, <4>1 DEF Attached, MediaOK
        <5>2. job[r].ref \in MediaId
          BY <3>1 DEF StageOK
        <5> QED
          BY <3>1, <3>2, <5>1, <5>2 DEF Uploaded, MediaId
      <4>2. CASE check # "row"
        <5>1. "row" \notin todo[r] => Uploaded(job[r].ref)
          BY <3>1 DEF Attached, MediaOK
        <5>2. job[r].ref \in MediaId
          BY <3>1 DEF StageOK
        <5> QED
          BY <3>1, <3>2, <4>2, <5>1, <5>2 DEF Uploaded, MediaId
      <4> QED
        BY <4>1, <4>2
    <3>4. ASSUME NEW k \in Kind, pc'[r] = "deleteMediaRow" \/ k \notin todo'[r]
          PROVE  Users(k, job[r].ref)' \subseteq touched'[r]
      <4>1. Users(k, job[r].ref)' = Users(k, job[r].ref)
        BY <3>2 DEF Users, Uses
      <4>2. CASE check = k
        <5>1. k # "row"
          BY DEF Kind
        <5> QED
          BY <3>1, <4>1, <4>2, <5>1
      <4>3. CASE check # k
        BY <3>1, <3>2, <3>4, <4>1, <4>3 DEF Attached, MediaOK
      <4> QED
        BY <4>2, <4>3
    <3>5. MediaStage(r)'
      BY <3>2, <3>3, <3>4 DEF MediaStage
    <3>6. MediaOK'
      BY <3>1, <3>2, <3>5, MediaAttached
    <3> QED
      BY <3>2, <3>6 DEF Attached, RowHasBytes, HeroResolves, HeroKnown
  <2> QED
    BY <2>1, <2>2
<1>4. CASE DeleteMediaRow(r)
  <2>1. Uploaded(job[r].ref)'
    <3>1. Uploaded(job[r].ref) /\ job[r].ref \in MediaId
      BY <1>4 DEF DeleteMediaRow, Attached, MediaOK, StageOK
    <3> QED
      BY <1>4, <3>1 DEF DeleteMediaRow, Uploaded, MediaId
  <2>2. MediaStage(r)'
    BY <1>4, <2>1 DEF DeleteMediaRow, MediaStage
  <2>3. MediaOK'
    BY <1>4, <2>2, MediaAttached DEF DeleteMediaRow
  <2>4. HeroResolves'
    BY <1>4 DEF DeleteMediaRow, MediaRowFree, Attached, HeroResolves, HeroKnown
  <2> QED
    BY <1>4, <2>3, <2>4 DEF DeleteMediaRow, Attached, RowHasBytes
<1>5. CASE DeleteBytes(r)
  <2>1. /\ pc[r] = "deleteBytes" /\ pc' = [pc EXCEPT ![r] = "ok"]
        /\ UNCHANGED <<docs, media, touched>>
        /\ objects' = objects \ {job[r].ref}
        /\ \A q \in Request \ {r} : job'[q] = job[q] /\ todo'[q] = todo[q]
    BY <1>5 DEF DeleteBytes, Finish, Forget
  <2>2. MediaStage(r)'
    BY <2>1 DEF MediaStage
  <2>3. \A m \in objects : m \in objects' \/ m = job[r].ref
    BY <2>1
  <2>4. job[r].ref \notin media
    BY <2>1 DEF Attached, MediaOK
  <2>5. MediaOK'
    BY <2>1, <2>2, <2>3, MediaAttached
  <2> QED
    BY <2>1, <2>4, <2>5 DEF Attached, RowHasBytes, HeroResolves, HeroKnown
<1>6. ASSUME NEW m \in MediaId, DeleteMedia(r, m) PROVE Attached'
  <2>1. todo'[r] = Checks /\ pc'[r] = "usage"
    BY <1>6 DEF DeleteMedia
  <2>2. MediaStage(r)'
    BY <2>1 DEF MediaStage, Checks, Kind
  <2>3. MediaOK'
    BY <1>6, <2>2, MediaAttached DEF DeleteMedia
  <2> QED
    BY <1>6, <2>3 DEF DeleteMedia, Attached, RowHasBytes, HeroResolves, HeroKnown
<1> QED
  BY <1>1, <1>2, <1>3, <1>4, <1>5, <1>6 DEF Loud

LEMMA NextAttached == StagedType /\ Attached /\ [Next]_vars => Attached'
<1> SUFFICES ASSUME StagedType, Attached, [Next]_vars PROVE Attached'
  OBVIOUS
<1>1. ASSUME NEW r \in Request, Arrivals(r) \/ Serve(r), ~Loud(r) PROVE Attached'
  BY <1>1, OtherStepsQuiet, QuietAttached
<1>2. ASSUME NEW r \in Request, Loud(r) PROVE Attached'
  BY <1>2, InsertRowAttached, UpdateRowAttached, DeleteRowAttached, MediaStepAttached
<1>3. CASE UNCHANGED vars
  BY <1>3 DEF vars, tables, locals, history, Attached, MediaOK, RowHasBytes, HeroResolves, HeroKnown,
              Uploaded, Users, Uses
<1> QED
  BY <1>1, <1>2, <1>3 DEF Next, Over

LEMMA AttachedInvariant == Spec => [](StagedType /\ Attached)
BY InitStaged, NextStaged, InitAttached, NextAttached, PTL DEF Spec

(***************************************************************************)
(* A media row never lacks its bytes: a failure between the two stores     *)
(* leaves bytes without a row, never a row without bytes.                  *)
(***************************************************************************)
THEOREM MediaRowsHaveBytes == Spec => []RowHasBytes
<1>1. Attached => RowHasBytes
  BY DEF Attached
<1> QED
  BY <1>1, AttachedInvariant, PTL

(***************************************************************************)
(* A hero image never loses its media row, whatever deletes race with it.  *)
(***************************************************************************)
THEOREM HeroesResolve == Spec => []HeroResolves
<1>1. Attached => HeroResolves
  BY DEF Attached
<1> QED
  BY <1>1, AttachedInvariant, PTL

(***************************************************************************)
(* The documents deleteMedia can orphan are those written after it began   *)
(* to look for uses.                                                       *)
(***************************************************************************)
THEOREM OrphansWereWrittenMeanwhile == Spec => OnlyRacingUseIsOrphaned
<1> DEFINE Safe == \A r \in Request : pc[r] = "deleteMediaRow" /\ pc'[r] = "deleteBytes" =>
                      \A k \in Kind : Users(k, job[r].ref) \subseteq touched[r]
<1>1. StagedType /\ Attached => Safe
  BY DEF Attached, MediaOK
<1>2. StagedType /\ Attached /\ [Next]_vars => [Safe]_vars
  BY <1>1
<1> QED
  BY <1>2, AttachedInvariant, PTL DEF Spec, OnlyRacingUseIsOrphaned

-----------------------------------------------------------------------------
(* Revisions: recordRevision inserts a snapshot and prunes in a second     *)
(* statement, so the inserts and prunes of concurrent writes to one        *)
(* document interleave.  For any MAX_REVISIONS.                            *)

(* Newest: ORDER BY created_at DESC, rowid DESC LIMIT n.                   *)

\* created_at and rowid together order the snapshots of a document.
Ordered(vs) ==
  /\ \A v \in vs : v.at \in Nat /\ v.rowid \in Nat
  /\ \A v, w \in vs : v.rowid = w.rowid => v = w

\* The query returns at most n rows, and when it leaves one out it returns
\* exactly n, all newer than the one left out.  The number of newer rows is
\* an injection, which counts the rows without an induction over them.
LEMMA NewestCounts ==
  ASSUME NEW vs, IsFiniteSet(vs), Ordered(vs), NEW n \in Nat
  PROVE  /\ IsFiniteSet(Newest(n, vs))
         /\ Cardinality(Newest(n, vs)) <= n
         /\ \A w \in vs \ Newest(n, vs) :
              /\ Cardinality(Newest(n, vs)) = n
              /\ \A v \in Newest(n, vs) : Newer(v, w)
<1> DEFINE Above(w) == {v \in vs : Newer(v, w)}
           rank     == [w \in vs |-> Cardinality(Above(w))]
           kept     == Newest(n, vs)
           place    == [w \in kept |-> rank[w]]
<1>1. ASSUME NEW w \in vs PROVE IsFiniteSet(Above(w)) /\ Cardinality(Above(w)) \in Nat
  BY FS_Subset, FS_CardinalityType
<1>2. ASSUME NEW v \in vs, NEW w \in vs, Newer(v, w)
      PROVE  rank[v] < rank[w]
  <2>1. Above(v) \subseteq Above(w)
    BY <1>2 DEF Newer, Ordered
  <2>2. v \in Above(w) /\ v \notin Above(v)
    BY <1>2 DEF Newer, Ordered
  <2>3. Cardinality(Above(v)) <= Cardinality(Above(w)) /\ Cardinality(Above(v)) # Cardinality(Above(w))
    BY <1>1, <2>1, <2>2, FS_Subset
  <2>4. Cardinality(Above(v)) \in Nat /\ Cardinality(Above(w)) \in Nat
    BY <1>1
  <2>5. rank[v] = Cardinality(Above(v)) /\ rank[w] = Cardinality(Above(w))
    OBVIOUS
  <2> HIDE DEF rank, Above
  <2> QED
    BY <2>3, <2>4, <2>5
<1>3. ASSUME NEW v \in vs, NEW w \in vs, v # w PROVE Newer(v, w) \/ Newer(w, v)
  BY <1>3 DEF Newer, Ordered
<1>4. Cardinality(vs) \in Nat
  BY FS_CardinalityType
<1>5. ASSUME NEW w \in vs PROVE rank[w] \in Nat /\ rank[w] < Cardinality(vs)
  <2>1. w \notin Above(w)
    BY DEF Newer, Ordered
  <2>2. Cardinality(Above(w)) <= Cardinality(vs) /\ Cardinality(Above(w)) # Cardinality(vs)
    BY <2>1, FS_Subset
  <2> QED
    BY <1>1, <1>4, <2>2
<1>6. \A w \in vs : rank[w] \in 0 .. Cardinality(vs) - 1
  BY <1>4, <1>5
<1>7. \A v, w \in vs : rank[v] = rank[w] => v = w
  <2> SUFFICES ASSUME NEW v \in vs, NEW w \in vs, v # w PROVE rank[v] # rank[w]
    OBVIOUS
  <2>1. rank[v] \in Nat /\ rank[w] \in Nat
    BY <1>5
  <2> HIDE DEF rank, Above
  <2> QED
    BY <1>2, <1>3, <2>1
<1>8. rank \in Injection(vs, 0 .. Cardinality(vs) - 1)
  <2>1. rank \in [vs -> 0 .. Cardinality(vs) - 1]
    BY <1>6
  <2> HIDE DEF rank
  <2> QED
    BY <2>1, <1>7 DEF Injection, IsInjective
<1>9. rank \in Surjection(vs, 0 .. Cardinality(vs) - 1)
  <2> HIDE DEF rank
  <2>1. IsFiniteSet(0 .. Cardinality(vs) - 1) /\ Cardinality(0 .. Cardinality(vs) - 1) = Cardinality(vs)
    BY <1>4, FS_Interval
  <2> QED
    BY <1>8, <2>1, FS_Injection
<1>10. kept = {w \in vs : rank[w] < n}
  BY DEF Newest
<1>11. place \in Injection(kept, 0 .. n - 1)
  <2> HIDE DEF rank, kept
  <2>1. place \in [kept -> 0 .. n - 1]
    BY <1>5, <1>10
  <2>2. \A v, w \in kept : place[v] = place[w] => v = w
    BY <1>7, <1>10
  <2> QED
    BY <2>1, <2>2 DEF Injection, IsInjective
<1>12. IsFiniteSet(0 .. n - 1) /\ Cardinality(0 .. n - 1) = n
  BY FS_Interval
<1>13. IsFiniteSet(kept) /\ Cardinality(kept) <= n /\ (Cardinality(kept) = n <=> place \in Surjection(kept, 0 .. n - 1))
  <2> HIDE DEF rank, kept, place
  <2> QED
    BY <1>11, <1>12, FS_Injection
<1>14. ASSUME NEW w \in vs \ kept
       PROVE  Cardinality(kept) = n /\ \A v \in kept : Newer(v, w)
  <2> HIDE DEF rank, kept
  <2>1. rank[w] >= n /\ rank[w] \in Nat
    BY <1>5, <1>10
  <2>2. \A v \in kept : Newer(v, w)
    BY <2>1, <1>2, <1>3, <1>5, <1>10
  <2>3. ASSUME NEW i \in 0 .. n - 1 PROVE \E v \in kept : place[v] = i
    <3>1. i \in 0 .. Cardinality(vs) - 1
      BY <1>4, <1>5, <2>1
    <3>2. PICK v \in vs : rank[v] = i
      BY <1>9, <3>1 DEF Surjection
    <3> QED
      BY <1>10, <3>2
  <2>4. place \in Surjection(kept, 0 .. n - 1)
    BY <1>11, <2>3 DEF Injection, IsInjective, Surjection
  <2> QED
    BY <1>13, <2>2, <2>4
<1> QED
  BY <1>13, <1>14
-----------------------------------------------------------------------------
(* The invariant.                                                          *)

\* A request that has inserted its snapshot, and still knows what it wrote.
Recorded(r) == pc[r] \in {"prune", "readBack"} \/ Acknowledged(r)

\* Its snapshot is there, or MAX_REVISIONS that are no older.
Kept(r) ==
  \/ \E v \in RevisionsOf(job[r].kind, target[r]) :
       v.id = r /\ v.input = job[r].input /\ v.at = stamp[r]
  \/ Cardinality({v \in RevisionsOf(job[r].kind, target[r]) : v.at >= stamp[r]}) >= MaxRevisions

\* The snapshots of a document that count: their writes pruned, or never will again.
Counted(k, d) ==
  {v \in RevisionsOf(k, d) : v.id \in Request => pc[v.id] \notin {"prune", "failed"}}

\* Nothing of these stages carries an input.
MediaStages == {"putBytes", "insertMedia", "readMedia", "fileRow", "fileBytes"}

\* The table revisions: the snapshots of a document are finitely many and
\* told apart by rowid, and each belongs to a write that got that far.
RowsOK ==
  /\ \A k \in Kind, d \in DocId : IsFiniteSet(RevisionsOf(k, d))
  /\ \A v \in revisions : v.rowid <= rowids
  /\ \A v, w \in revisions : v.entity = w.entity /\ v.rowid = w.rowid => v = w
  /\ \A v \in revisions : v.id \in Request =>
       /\ pc[v.id] \in {"prune", "readBack"} \cup Ended
       /\ pc[v.id] \in {"prune", "readBack"} => v.kind = job[v.id].kind /\ v.entity = target[v.id]

History == /\ RowsOK
           /\ \A r \in Request : pc[r] \in MediaStages => job[r].input = None
           /\ \A r \in Request : Recorded(r) => Kept(r)
           /\ HistoryCapped

LEMMA InitHistory == Init => History
<1> SUFFICES ASSUME Init PROVE History
  OBVIOUS
<1>1. PICK kindOf \in [SeedDoc -> Kinds], inputOf \in [SeedDoc -> SeedInput] :
        Seeded(kindOf, inputOf)
  BY DEF Init
<1> DEFINE first(d) == [id |-> d, kind |-> kindOf[d], entity |-> d, input |-> inputOf[d],
                        at |-> 0, rowid |-> 0]
<1>2. revisions = {first(d) : d \in SeedDoc} /\ rowids = 0
  BY <1>1 DEF Seeded, Init
<1>3. \A v \in revisions : v.id = v.entity /\ v.id \notin Request /\ v.rowid = 0 /\ v = first(v.entity)
  BY <1>2, TablesAssumption
<1>4. ASSUME NEW k \in Kind, NEW d \in DocId
      PROVE  /\ IsFiniteSet(RevisionsOf(k, d))
             /\ Cardinality(Counted(k, d)) <= MaxRevisions
  <2>1. IsFiniteSet({first(d)}) /\ Cardinality({first(d)}) = 1
    BY FS_Singleton
  <2>2. RevisionsOf(k, d) \subseteq {first(d)} /\ Counted(k, d) \subseteq {first(d)}
    BY <1>3 DEF RevisionsOf, Counted
  <2>3. IsFiniteSet(RevisionsOf(k, d)) /\ Cardinality(Counted(k, d)) <= 1 /\ IsFiniteSet(Counted(k, d))
    BY <2>1, <2>2, FS_Subset
  <2>4. Cardinality(Counted(k, d)) \in Nat
    BY <2>3, FS_CardinalityType
  <2> QED
    BY <2>3, <2>4, TablesAssumption
<1>5. RowsOK
  BY <1>2, <1>3, <1>4 DEF RowsOK
<1>6. \A r \in Request : pc[r] = "idle"
  BY DEF Init
<1> QED
  BY <1>4, <1>5, <1>6 DEF History, HistoryCapped, Counted, Recorded, Acknowledged, MediaStages

-----------------------------------------------------------------------------
(* Steps that leave the revisions alone.                                   *)

\* A step of r that writes no revision and does not bring r to its prune.
Moves(r) ==
  /\ UNCHANGED <<revisions, rowids>>
  /\ \A q \in Request \ {r} : pc'[q] = pc[q] /\ job'[q] = job[q] /\ target'[q] = target[q] /\ stamp'[q] = stamp[q]
  /\ pc[r] \notin Ended
  /\ pc'[r] \notin {"prune", "readBack"}
  /\ pc[r] = "prune" => pc'[r] = "failed"
  /\ pc[r] = "readBack" => pc'[r] \in Ended
  /\ pc'[r] = "ok" => \/ job'[r].input = None
                      \/ /\ pc[r] = "readBack"
                         /\ job'[r] = job[r] /\ target'[r] = target[r] /\ stamp'[r] = stamp[r]
  /\ pc'[r] \in MediaStages => job'[r].input = None

LEMMA MovesHistory ==
  ASSUME StagedType, History, NEW r \in Request, Moves(r)
  PROVE  History'
<1>1. \A k, d : RevisionsOf(k, d)' = RevisionsOf(k, d)
  BY DEF Moves, RevisionsOf
<1>2. \A v \in revisions : v.id \in Request =>
        \/ v.id # r
        \/ pc[v.id] = "prune" /\ pc'[v.id] = "failed"
        \/ pc[v.id] = "readBack" /\ pc'[v.id] \in Ended
  BY DEF Moves, History, RowsOK
<1>3. RowsOK'
  <2>1. \A k \in Kind, d \in DocId : IsFiniteSet(RevisionsOf(k, d)')
    BY <1>1 DEF History, RowsOK
  <2>2. \A v \in revisions : v.id \in Request =>
          /\ pc'[v.id] \in {"prune", "readBack"} \cup Ended
          /\ pc'[v.id] \in {"prune", "readBack"} => v.kind = job'[v.id].kind /\ v.entity = target'[v.id]
    BY <1>2 DEF Moves, History, RowsOK, Ended
  <2> QED
    BY <2>1, <2>2 DEF Moves, History, RowsOK
<1>4. \A q \in Request : pc'[q] \in MediaStages => job'[q].input = None
  BY DEF Moves, History
<1>5. ASSUME NEW q \in Request, Recorded(q)' PROVE Kept(q)'
  <2>1. Recorded(q) /\ job'[q] = job[q] /\ target'[q] = target[q] /\ stamp'[q] = stamp[q]
    BY <1>5 DEF Moves, Recorded, Acknowledged
  <2>2. Kept(q)
    BY <2>1 DEF History
  <2> QED
    BY <1>1, <2>1, <2>2 DEF Kept
<1>6. ASSUME NEW k \in Kind, NEW d \in DocId
      PROVE  Cardinality(Counted(k, d)') <= MaxRevisions
  <2>1. Counted(k, d)' \subseteq Counted(k, d)
    BY <1>1, <1>2 DEF Moves, Counted, RevisionsOf
  <2>2. IsFiniteSet(RevisionsOf(k, d)) /\ Counted(k, d) \subseteq RevisionsOf(k, d)
    BY DEF History, RowsOK, Counted
  <2>3. /\ IsFiniteSet(Counted(k, d))
        /\ IsFiniteSet(Counted(k, d)')
        /\ Cardinality(Counted(k, d)') <= Cardinality(Counted(k, d))
    BY <2>1, <2>2, FS_Subset
  <2>4. Cardinality(Counted(k, d)) <= MaxRevisions
    BY DEF History, HistoryCapped, Counted
  <2>5. Cardinality(Counted(k, d)) \in Nat /\ Cardinality(Counted(k, d)') \in Nat
    BY <2>3, FS_CardinalityType
  <2> QED
    BY <2>3, <2>4, <2>5, TablesAssumption
<1>7. HistoryCapped'
  BY <1>6 DEF HistoryCapped, Counted
<1> QED
  BY <1>3, <1>4, <1>5, <1>7 DEF History
-----------------------------------------------------------------------------
(* recordRevision.                                                         *)

LEMMA RecordHistory ==
  ASSUME StagedType, History, NEW r \in Request, RecordRevision(r)
  PROVE  History'
<1> DEFINE new == [id |-> r, kind |-> job[r].kind, entity |-> target[r],
                   input |-> job[r].input, at |-> stamp[r], rowid |-> rowids + 1]
<1>1. /\ pc[r] = "revise"
      /\ pc' = [pc EXCEPT ![r] = "prune"]
      /\ revisions' = revisions \cup {new}
      /\ rowids' = rowids + 1
      /\ job' = job /\ target' = target /\ stamp' = stamp
  BY DEF RecordRevision, Step, Goto, InsertRevision, memory
<1>2. pc'[r] = "prune" /\ \A q \in Request \ {r} : pc'[q] = pc[q]
  BY <1>1 DEF StagedType, TypeOK
<1>3. new \in Revision /\ rowids \in Nat
  <2>1. job[r] \in Job /\ stamp[r] \in Nat /\ rowids \in Nat
    BY DEF StagedType, TypeOK, TablesTypeOK
  <2>2. job[r].input \in Input
    BY <1>1, StoreAssumption DEF StagedType, StageOK, Writing, RowWritten
  <2>3. target[r] \in DocId /\ r \in DocId
    BY <1>1 DEF StagedType, StageOK, OnDocument, RowWritten, DocId
  <2> QED
    BY <2>1, <2>2, <2>3 DEF Job, Revision
<1>4. \A v \in revisions : v.id # r /\ v.rowid \in Nat
  BY <1>1 DEF History, RowsOK, Ended, StagedType, TypeOK, TablesTypeOK, Revision
<1>5. ASSUME NEW k \in Kind, NEW d \in DocId
      PROVE  /\ RevisionsOf(k, d) \subseteq RevisionsOf(k, d)'
             /\ IsFiniteSet(RevisionsOf(k, d)')
             /\ Counted(k, d)' \subseteq Counted(k, d)
  <2>1. RevisionsOf(k, d) \subseteq RevisionsOf(k, d)'
    BY <1>1 DEF RevisionsOf
  <2>2. RevisionsOf(k, d)' \subseteq RevisionsOf(k, d) \cup {new}
    BY <1>1 DEF RevisionsOf
  <2>3. IsFiniteSet(RevisionsOf(k, d) \cup {new})
    BY FS_AddElement DEF History, RowsOK
  <2>4. Counted(k, d)' \subseteq Counted(k, d)
    BY <1>2, <1>4, <2>2 DEF Counted
  <2> QED
    BY <2>1, <2>2, <2>3, <2>4, FS_Subset
<1>6. RowsOK'
  <2>1. \A v \in revisions' : v.rowid <= rowids'
    BY <1>1, <1>3, <1>4 DEF History, RowsOK
  <2>2. \A v \in revisions : v.rowid # new.rowid
    BY <1>3, <1>4 DEF History, RowsOK
  <2>3. \A v, w \in revisions' : v.entity = w.entity /\ v.rowid = w.rowid => v = w
    BY <1>1, <2>2 DEF History, RowsOK
  <2>4. ASSUME NEW v \in revisions', v.id \in Request
        PROVE  /\ pc'[v.id] \in {"prune", "readBack"} \cup Ended
               /\ pc'[v.id] \in {"prune", "readBack"} => v.kind = job'[v.id].kind /\ v.entity = target'[v.id]
    <3>1. CASE v = new
      BY <1>1, <1>2, <3>1
    <3>2. CASE v \in revisions
      BY <1>1, <1>2, <1>4, <2>4, <3>2 DEF History, RowsOK
    <3> QED
      BY <1>1, <3>1, <3>2
  <2> QED
    BY <1>5, <2>1, <2>3, <2>4 DEF RowsOK
<1>7. \A q \in Request : pc'[q] \in MediaStages => job'[q].input = None
  BY <1>1, <1>2 DEF History, MediaStages
<1>8. ASSUME NEW q \in Request, Recorded(q)' PROVE Kept(q)'
  <2>1. CASE q = r
    <3>1. new \in RevisionsOf(job[q].kind, target[q])'
      BY <1>1, <2>1 DEF RevisionsOf
    <3> QED
      BY <1>1, <2>1, <3>1 DEF Kept
  <2>2. CASE q # r
    <3>1. Kept(q)
      BY <1>1, <1>2, <1>8, <2>2 DEF History, Recorded, Acknowledged
    <3> PICK k, d, t : k = job[q].kind /\ d = target[q] /\ t = stamp[q]
      OBVIOUS
    <3> DEFINE S == {v \in RevisionsOf(k, d) : v.at >= t}
    <3>2. k \in Kind
      BY DEF StagedType, TypeOK, Job
    <3>3. RevisionsOf(k, d) \subseteq RevisionsOf(k, d)' /\ S \subseteq S'
      BY <1>1 DEF RevisionsOf
    <3>4. CASE d \notin DocId
      <4>1. RevisionsOf(k, d)' = RevisionsOf(k, d)
        BY <1>1, <1>3, <3>4 DEF RevisionsOf, Revision
      <4> QED
        BY <1>1, <3>1, <4>1 DEF Kept
    <3>5. CASE d \in DocId
      <4>1. IsFiniteSet(RevisionsOf(k, d)')
        BY <1>5, <3>2, <3>5
      <4>2. IsFiniteSet(S') /\ IsFiniteSet(S)
        BY <4>1, <3>3, FS_Subset
      <4>3. Cardinality(S) <= Cardinality(S')
        BY <3>3, <4>2, FS_Subset
      <4>4. Cardinality(S) \in Nat /\ Cardinality(S') \in Nat
        BY <4>2, FS_CardinalityType
      <4>5. Cardinality(S) >= MaxRevisions => Cardinality(S') >= MaxRevisions
        BY <4>3, <4>4, TablesAssumption
      <4> QED
        BY <1>1, <3>1, <3>3, <4>5 DEF Kept
    <3> QED
      BY <3>4, <3>5
  <2> QED
    BY <2>1, <2>2
<1>9. ASSUME NEW k \in Kind, NEW d \in DocId
      PROVE  Cardinality(Counted(k, d)') <= MaxRevisions
  <2>1. IsFiniteSet(Counted(k, d)) /\ IsFiniteSet(Counted(k, d)')
    BY <1>5, FS_Subset DEF Counted, History, RowsOK
  <2>2. Cardinality(Counted(k, d)') <= Cardinality(Counted(k, d))
    BY <1>5, <2>1, FS_Subset
  <2>3. Cardinality(Counted(k, d)) <= MaxRevisions
    BY DEF History, HistoryCapped, Counted
  <2>4. Cardinality(Counted(k, d)) \in Nat /\ Cardinality(Counted(k, d)') \in Nat
    BY <2>1, FS_CardinalityType
  <2> QED
    BY <2>2, <2>3, <2>4, TablesAssumption
<1>10. HistoryCapped'
  BY <1>9 DEF HistoryCapped, Counted
<1> QED
  BY <1>6, <1>7, <1>8, <1>10 DEF History

\* The prune of one document, seen from any of its snapshots.
LEMMA PruneHistory ==
  ASSUME StagedType, History, NEW r \in Request, PruneRevisions(r)
  PROVE  History'
<1> PICK k0, d0 : k0 = job[r].kind /\ d0 = target[r]
  OBVIOUS
<1> DEFINE all  == RevisionsOf(k0, d0)
           kept == Newest(MaxRevisions, all)
<1>1. /\ pc[r] = "prune"
      /\ pc' = [pc EXCEPT ![r] = "readBack"]
      /\ revisions' = (revisions \ all) \cup kept
      /\ rowids' = rowids
      /\ job' = job /\ target' = target /\ stamp' = stamp
  BY DEF PruneRevisions, Step, Goto, Prune, memory
<1>2. pc'[r] = "readBack" /\ \A q \in Request \ {r} : pc'[q] = pc[q]
  BY <1>1 DEF StagedType, TypeOK
<1>3. k0 \in Kind /\ d0 \in DocId
  BY <1>1 DEF StagedType, StageOK, TypeOK, OnDocument, RowWritten, Job
<1>4. MaxRevisions \in Nat /\ kept \subseteq all /\ all \subseteq revisions
  BY TablesAssumption DEF Newest, RevisionsOf
<1>5. revisions' \subseteq revisions
  BY <1>1, <1>4
<1>6. all' = kept /\ \A k, d : <<k, d>> # <<k0, d0>> => RevisionsOf(k, d)' = RevisionsOf(k, d)
  BY <1>1, <1>4 DEF RevisionsOf, Newest
<1>7. IsFiniteSet(all) /\ Ordered(all)
  BY <1>3 DEF History, RowsOK, Ordered, RevisionsOf, StagedType, TypeOK, TablesTypeOK, Revision
<1> HIDE DEF all, kept
<1>8. /\ IsFiniteSet(kept)
      /\ Cardinality(kept) <= MaxRevisions
      /\ \A w \in all \ kept : /\ Cardinality(kept) = MaxRevisions
                               /\ \A v \in kept : Newer(v, w)
  BY <1>4, <1>7, NewestCounts DEF kept
<1>9. \A v \in revisions : v.id = r => v.kind = k0 /\ v.entity = d0
  BY <1>1 DEF History, RowsOK
<1>10. RowsOK'
  <2>1. \A k \in Kind, d \in DocId : IsFiniteSet(RevisionsOf(k, d)')
    BY <1>6, <1>8 DEF History, RowsOK, all
  <2>2. ASSUME NEW v \in revisions', v.id \in Request
        PROVE  /\ pc'[v.id] \in {"prune", "readBack"} \cup Ended
               /\ pc'[v.id] \in {"prune", "readBack"} => v.kind = job'[v.id].kind /\ v.entity = target'[v.id]
    BY <1>1, <1>2, <1>5, <2>2 DEF History, RowsOK
  <2> QED
    BY <1>1, <1>5, <2>1, <2>2 DEF History, RowsOK
<1>11. \A q \in Request : pc'[q] \in MediaStages => job'[q].input = None
  BY <1>1, <1>2 DEF History, MediaStages
<1>12. ASSUME NEW q \in Request, Recorded(q)' PROVE Kept(q)'
  <2>1. Kept(q)
    BY <1>1, <1>2, <1>12 DEF History, Recorded, Acknowledged
  <2>2. CASE <<job[q].kind, target[q]>> # <<k0, d0>>
    BY <1>1, <1>6, <2>1, <2>2 DEF Kept
  <2>3. CASE job[q].kind = k0 /\ target[q] = d0
    <3> DEFINE S(vs) == {v \in vs : v.at >= stamp[q]}
    <3>1. stamp[q] \in Nat /\ \A v \in all : v.at \in Nat
      BY <1>7 DEF Ordered, StagedType, TypeOK
    <3>2. ASSUME NEW w \in all \ kept, w.at >= stamp[q] PROVE Cardinality(S(kept)) >= MaxRevisions
      <4>1. Cardinality(kept) = MaxRevisions /\ \A v \in kept : Newer(v, w)
        BY <1>8, <3>2
      <4>2. S(kept) = kept
        BY <1>4, <3>1, <3>2, <4>1 DEF Newer
      <4> QED
        BY <1>4, <4>1, <4>2
    <3>3. CASE \E v \in all : v.id = q /\ v.input = job[q].input /\ v.at = stamp[q]
      <4> PICK v \in all : v.id = q /\ v.input = job[q].input /\ v.at = stamp[q]
        BY <3>3
      <4>1. CASE v \in kept
        BY <1>1, <1>6, <2>3, <4>1 DEF Kept, all
      <4>2. CASE v \notin kept
        <5>1. v.at >= stamp[q]
          BY <3>1
        <5>2. Cardinality(S(kept)) >= MaxRevisions
          BY <3>2, <4>2, <5>1
        <5> QED
          BY <1>1, <1>6, <2>3, <5>2 DEF Kept, all
      <4> QED
        BY <4>1, <4>2
    <3>4. CASE Cardinality(S(all)) >= MaxRevisions
      <4>1. CASE S(all) \subseteq kept
        <5>1. S(kept) = S(all)
          BY <1>4, <4>1
        <5> QED
          BY <1>1, <1>6, <2>3, <3>4, <5>1 DEF Kept, all
      <4>2. CASE ~(S(all) \subseteq kept)
        BY <1>1, <1>6, <2>3, <3>2, <4>2 DEF Kept, all
      <4> QED
        BY <4>1, <4>2
    <3> QED
      BY <2>1, <2>3, <3>3, <3>4 DEF Kept, all
  <2> QED
    BY <2>2, <2>3
<1>13. ASSUME NEW k \in Kind, NEW d \in DocId
       PROVE  Cardinality(Counted(k, d)') <= MaxRevisions
  <2>1. CASE <<k, d>> # <<k0, d0>>
    <3>1. Counted(k, d)' = Counted(k, d)
      BY <1>2, <1>6, <1>9, <2>1 DEF Counted, RevisionsOf
    <3> QED
      BY <3>1 DEF History, HistoryCapped, Counted
  <2>2. CASE k = k0 /\ d = d0
    <3>1. Counted(k, d)' \subseteq kept
      BY <1>6, <2>2 DEF Counted, all
    <3>2. IsFiniteSet(Counted(k, d)') /\ Cardinality(Counted(k, d)') <= Cardinality(kept)
      BY <1>8, <3>1, FS_Subset
    <3>3. Cardinality(kept) \in Nat /\ Cardinality(Counted(k, d)') \in Nat
      BY <1>8, <3>2, FS_CardinalityType
    <3> QED
      BY <1>4, <1>8, <3>2, <3>3
  <2> QED
    BY <2>1, <2>2
<1>14. HistoryCapped'
  BY <1>13 DEF HistoryCapped, Counted
<1> QED
  BY <1>10, <1>11, <1>12, <1>14 DEF History
-----------------------------------------------------------------------------
(* Every other step.                                                       *)

\* The shapes that most actions have.
LEMMA RefuseMoves ==
  ASSUME StagedType, NEW r \in Request, pc[r] \notin Ended \cup {"prune"}, Refuse(r)
  PROVE  Moves(r)
BY DEF StagedType, TypeOK, Refuse, Goto, Forget, tables, Moves, Ended, MediaStages

LEMMA RequireMoves ==
  ASSUME StagedType, NEW r \in Request, NEW from \in Stages \ {"prune", "readBack"}, NEW condition,
         NEW to \in Stages \ {"prune", "readBack"}, to \in MediaStages => from \in MediaStages,
         History, Require(r, from, condition, to)
  PROVE  Moves(r)
<1>1. CASE Refuse(r)
  BY <1>1, RefuseMoves DEF Require, Stages, Ended
<1>2. CASE ~Refuse(r)
  BY <1>2 DEF StagedType, TypeOK, Require, Goto, memory, tables, Moves, Stages, Ended, History
<1> QED
  BY <1>1, <1>2

LEMMA FindMoves ==
  ASSUME StagedType, NEW r \in Request, NEW from \in Stages \ {"prune", "readBack"}, NEW found,
         NEW to \in Stages \ ({"prune", "readBack"} \cup MediaStages), Find(r, from, found, to)
  PROVE  Moves(r)
<1>1. CASE Refuse(r)
  BY <1>1, RefuseMoves DEF Find, Stages, Ended
<1>2. CASE ~Refuse(r)
  BY <1>2 DEF StagedType, TypeOK, Find, Goto, tables, Moves, Stages, Ended
<1> QED
  BY <1>1, <1>2

LEMMA ArriveMoves ==
  ASSUME StagedType, NEW r \in Request, NEW op, NEW stage, NEW j,
         stage \in {"rejected"} \cup (Stages \ {"prune", "readBack"}),
         stage \in MediaStages => j.input = None, Arrive(r, op, stage, j)
  PROVE  Moves(r)
BY DEF StagedType, TypeOK, Arrive, Step, Goto, tables, Moves, Stages, Ended, MediaStages, NoJob

LEMMA FinishMoves ==
  ASSUME StagedType, NEW r \in Request, NEW from \in Stages \ {"prune", "readBack"},
         UNCHANGED <<revisions, rowids>>, Finish(r, from)
  PROVE  Moves(r)
BY DEF StagedType, TypeOK, Finish, Step, Goto, Forget, Moves, Stages, Ended, NoJob, MediaStages

\* A request that moves on to a statement of its own.
LEMMA AdvanceMoves ==
  ASSUME StagedType, NEW r \in Request, UNCHANGED <<revisions, rowids>>,
         NEW to \in Stages \ {"prune", "readBack"}, Goto(r, to),
         pc[r] \in Stages \ {"prune", "readBack"},
         \A q \in Request \ {r} : job'[q] = job[q] /\ target'[q] = target[q] /\ stamp'[q] = stamp[q],
         to \in MediaStages => job'[r].input = None
  PROVE  Moves(r)
BY DEF StagedType, TypeOK, Goto, Moves, Stages, Ended

LEMMA ArrivalsMoves == ASSUME StagedType, NEW r \in Request, Arrivals(r) PROVE Moves(r)
<1> USE DEF Stages, MediaStages
<1>1. ASSUME NEW k \in Kinds, NEW i \in Inputs, CreateDoc(r, k, i) PROVE Moves(r)
  BY <1>1, ArriveMoves DEF CreateDoc
<1>2. ASSUME NEW k \in Kinds, NEW s \in Slug, NEW i \in Inputs, UpdateDoc(r, k, s, i)
      PROVE  Moves(r)
  BY <1>2, ArriveMoves DEF UpdateDoc, UpdateEntry
<1>3. ASSUME NEW k \in Kinds, NEW s \in Slug, NEW id \in DocId, RestoreRevision(r, k, s, id)
      PROVE  Moves(r)
  BY <1>3, ArriveMoves DEF RestoreRevision
<1>4. ASSUME NEW k \in Kinds, NEW s \in Slug, DeleteDoc(r, k, s) PROVE Moves(r)
  BY <1>4, ArriveMoves DEF DeleteDoc
<1>5. ASSUME NEW s \in CategorySlug, CreateCategory(r, s) PROVE Moves(r)
  BY <1>5, ArriveMoves DEF CreateCategory
<1>6. ASSUME NEW s \in CategorySlug, DeleteCategory(r, s) PROVE Moves(r)
  BY <1>6, ArriveMoves DEF DeleteCategory
<1>7. CASE CreateMedia(r)
  BY <1>7, ArriveMoves DEF CreateMedia, MediaJob
<1>8. ASSUME NEW m \in MediaId, DeleteMedia(r, m) PROVE Moves(r)
  BY <1>8 DEF DeleteMedia, Step, Goto, tables, StagedType, TypeOK, Moves, Ended
<1>9. ASSUME NEW m \in MediaId, GetMediaFile(r, m) PROVE Moves(r)
  BY <1>9, ArriveMoves DEF GetMediaFile, MediaJob
<1> QED
  BY <1>1, <1>2, <1>3, <1>4, <1>5, <1>6, <1>7, <1>8, <1>9 DEF Arrivals

LEMMA FailMoves == ASSUME StagedType, NEW r \in Request, Fail(r) PROVE Moves(r)
BY DEF StagedType, TypeOK, Fail, InFlight, Stages, Goto, Forget, tables, Moves, Ended, MediaStages

\* The answer of a write keeps what the request knew, for the statement of
\* AcknowledgedIsKept.
LEMMA ReadBackMoves == ASSUME StagedType, NEW r \in Request, ReadBack(r) PROVE Moves(r)
<1>1. pc[r] = "readBack"
  BY DEF ReadBack, Require
<1>2. CASE Refuse(r)
  BY <1>1, <1>2, RefuseMoves DEF Ended
<1>3. CASE ~Refuse(r)
  BY <1>1, <1>3 DEF StagedType, TypeOK, ReadBack, Require, Goto, memory, tables, Moves, Ended, MediaStages
<1> QED
  BY <1>2, <1>3

LEMMA DocStepsHistory == ASSUME StagedType, History, NEW r \in Request, DocSteps(r) PROVE History'
<1> USE DEF Stages, MediaStages
<1>1. CASE CheckSlugFree(r)
  BY <1>1, RequireMoves, MovesHistory DEF CheckSlugFree
<1>2. CASE InsertRow(r)
  <2>1. Moves(r)
    BY <1>2, AdvanceMoves DEF InsertRow, Step, AfterRow, StagedType, TypeOK
  <2> QED
    BY <2>1, MovesHistory
<1>3. CASE FindRevisionTarget(r)
  BY <1>3, FindMoves, MovesHistory DEF FindRevisionTarget
<1>4. CASE FindRevisionRow(r)
  <2>1. CASE Refuse(r)
    BY <1>4, <2>1, RefuseMoves, MovesHistory DEF FindRevisionRow, Ended
  <2>2. CASE ~Refuse(r)
    <3>1. Moves(r)
      BY <1>4, <2>2, AdvanceMoves DEF FindRevisionRow, tables, StagedType, TypeOK
    <3> QED
      BY <3>1, MovesHistory
  <2> QED
    BY <2>1, <2>2
<1>5. CASE RequireDecodedRow(r)
  BY <1>5, FindMoves, MovesHistory DEF RequireDecodedRow
<1>6. CASE UpdateRow(r)
  <2>1. Moves(r)
    BY <1>6, AdvanceMoves DEF UpdateRow, Step, AfterRow
  <2> QED
    BY <2>1, MovesHistory
<1>7. CASE UnlinkCategories(r)
  <2>1. Moves(r)
    BY <1>7, AdvanceMoves DEF UnlinkCategories, Step, memory
  <2> QED
    BY <2>1, MovesHistory
<1>8. CASE VerifyCategories(r)
  <2>1. CASE Refuse(r)
    BY <1>8, <2>1, RefuseMoves, MovesHistory DEF VerifyCategories, Ended
  <2>2. CASE ~Refuse(r)
    <3>1. Moves(r)
      BY <1>8, <2>2, AdvanceMoves DEF VerifyCategories, tables
    <3> QED
      BY <3>1, MovesHistory
  <2> QED
    BY <2>1, <2>2
<1>9. CASE LinkCategory(r)
  <2>1. Moves(r)
    BY <1>9, AdvanceMoves DEF LinkCategory, Step
  <2> QED
    BY <2>1, MovesHistory
<1>10. CASE ReadClock(r)
  <2>1. Moves(r)
    BY <1>10, AdvanceMoves DEF ReadClock, Step, tables, StagedType, TypeOK
  <2> QED
    BY <2>1, MovesHistory
<1>11. CASE RecordRevision(r)
  BY <1>11, RecordHistory
<1>12. CASE PruneRevisions(r)
  BY <1>12, PruneHistory
<1>13. CASE ReadBack(r)
  BY <1>13, ReadBackMoves, MovesHistory
<1>14. CASE FindDoc(r)
  BY <1>14, FindMoves, MovesHistory DEF FindDoc
<1>15. CASE DeleteRow(r)
  BY <1>15, FinishMoves, MovesHistory DEF DeleteRow
<1> QED
  BY <1>1, <1>2, <1>3, <1>4, <1>5, <1>6, <1>7, <1>8, <1>9, <1>10, <1>11, <1>12, <1>13, <1>14, <1>15
  DEF DocSteps

LEMMA CategoryStepsHistory ==
  ASSUME StagedType, History, NEW r \in Request, CategorySteps(r) PROVE History'
<1> USE DEF Stages, MediaStages
<1>1. CASE CheckCategory(r)
  BY <1>1, RequireMoves, MovesHistory DEF CheckCategory
<1>2. CASE InsertCategoryRow(r)
  BY <1>2, FinishMoves, MovesHistory DEF InsertCategoryRow
<1>3. CASE FindCategory(r)
  BY <1>3, FindMoves, MovesHistory DEF FindCategory
<1>4. CASE RemoveCategory(r)
  BY <1>4, FinishMoves, MovesHistory DEF RemoveCategory
<1> QED
  BY <1>1, <1>2, <1>3, <1>4 DEF CategorySteps

\* A media request that is answered carries no input, so nothing is
\* promised about its history.
LEMMA MediaStepsHistory ==
  ASSUME StagedType, History, NEW r \in Request, MediaSteps(r) PROVE History'
<1>1. ASSUME pc[r] \in MediaStages, Goto(r, "ok"), UNCHANGED <<tables, memory>>
      PROVE  Moves(r)
  BY <1>1 DEF StagedType, TypeOK, Goto, tables, memory, Moves, History, MediaStages, Ended
<1>2. CASE PutBytes(r)
  <2>1. Moves(r)
    BY <1>2, AdvanceMoves DEF PutBytes, Step, memory, History, Stages, MediaStages
  <2> QED
    BY <2>1, MovesHistory
<1>3. CASE InsertMediaRow(r)
  <2>1. Moves(r)
    BY <1>3, AdvanceMoves DEF InsertMediaRow, Step, memory, History, Stages, MediaStages
  <2> QED
    BY <2>1, MovesHistory
<1>4. CASE ReadMedia(r) \/ ReadBytes(r)
  <2>1. Moves(r)
    BY <1>1, <1>4, RefuseMoves DEF ReadMedia, ReadBytes, Require, MediaStages, Ended
  <2> QED
    BY <2>1, MovesHistory
<1>5. CASE ReadUsage(r)
  <2>1. CASE Refuse(r)
    BY <1>5, <2>1, RefuseMoves, MovesHistory DEF ReadUsage, Ended
  <2>2. CASE ~Refuse(r)
    <3>1. Moves(r)
      BY <1>5, <2>2, AdvanceMoves DEF ReadUsage, tables, Stages, MediaStages
    <3> QED
      BY <3>1, MovesHistory
  <2> QED
    BY <2>1, <2>2
<1>6. CASE DeleteMediaRow(r)
  <2>1. Moves(r)
    BY <1>6, AdvanceMoves DEF DeleteMediaRow, Step, memory, Stages, MediaStages
  <2> QED
    BY <2>1, MovesHistory
<1>7. CASE DeleteBytes(r)
  BY <1>7, FinishMoves, MovesHistory DEF DeleteBytes, Stages
<1>8. CASE RequireMediaRow(r)
  BY <1>8, RequireMoves, MovesHistory DEF RequireMediaRow, Stages, MediaStages
<1> QED
  BY <1>2, <1>3, <1>4, <1>5, <1>6, <1>7, <1>8 DEF MediaSteps

LEMMA NextHistory == StagedType /\ History /\ [Next]_vars => History'
<1> SUFFICES ASSUME StagedType, History, [Next]_vars PROVE History'
  OBVIOUS
<1>1. ASSUME NEW r \in Request, Arrivals(r) PROVE History'
  BY <1>1, ArrivalsMoves, MovesHistory
<1>2. ASSUME NEW r \in Request, Serve(r) PROVE History'
  BY <1>2, DocStepsHistory, CategoryStepsHistory, MediaStepsHistory, FailMoves, MovesHistory DEF Serve
<1>3. CASE UNCHANGED vars
  BY <1>3 DEF vars, tables, locals, History, RowsOK, RevisionsOf, Recorded, Acknowledged, Kept,
              HistoryCapped
<1> QED
  BY <1>1, <1>2, <1>3 DEF Next, Over

-----------------------------------------------------------------------------
LEMMA HistoryInvariant == Spec => [](StagedType /\ History)
BY InitStaged, NextStaged, InitHistory, NextHistory, PTL DEF Spec

(***************************************************************************)
(* A write that was answered with success is in the history of its         *)
(* document unless MAX_REVISIONS snapshots that are no older are, however  *)
(* many writes insert and prune between its own insert and prune.          *)
(***************************************************************************)
THEOREM AcknowledgedWritesAreKept == Spec => []AcknowledgedIsKept
<1>1. History => AcknowledgedIsKept
  BY DEF History, Recorded, Kept, AcknowledgedIsKept
<1> QED
  BY <1>1, HistoryInvariant, PTL

(***************************************************************************)
(* Whatever overtakes a prune, the history of a document goes above        *)
(* MAX_REVISIONS only by the snapshots of writes that did not prune.       *)
(***************************************************************************)
THEOREM HistoriesAreCapped == Spec => []HistoryCapped
<1>1. History => HistoryCapped
  BY DEF History
<1> QED
  BY <1>1, HistoryInvariant, PTL

=============================================================================
