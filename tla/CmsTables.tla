----------------------------- MODULE CmsTables -----------------------------
(***************************************************************************)
(* The storage of the CMS: the D1 tables of                                *)
(* infra/cms/migrations/0001_content.sql and 0003_revisions.sql, the R2    *)
(* bucket of media bytes, and what one SQL statement or one bucket call of *)
(* apps/api/src/cms/operations.ts does to them.  A statement is atomic and *)
(* nothing larger is: the code opens no transaction.  D1 enforces the      *)
(* UNIQUE, PRIMARY KEY and REFERENCES clauses, so each statement has a     *)
(* condition under which it succeeds; when it does not hold, D1 refuses    *)
(* the statement and changes nothing.                                      *)
(*                                                                         *)
(* Abstractions.  crypto.randomUUID() never repeats, so the row, category, *)
(* media item and revision a request creates bear the name of the request. *)
(* A document keeps the columns the properties tell apart: its table, its  *)
(* slug, its hero image, the media its content_json embeds, and one value  *)
(* (text) for all the others, status and timestamps included.              *)
(***************************************************************************)
EXTENDS Naturals, FiniteSets

CONSTANTS
  Request,       \* HTTP requests, each serving one operation once
  SeedDoc,       \* documents that exist before the first request
  SeedCategory,  \* categories that exist before the first request
  SeedMedia,     \* media items that exist before the first request
  Slug,          \* slugs of posts and works
  Reserved,      \* RESERVED_SLUGS
  CategorySlug,  \* slugs of categories
  Text,          \* the other authored columns of a document
  MaxRevisions,  \* MAX_REVISIONS
  None           \* SQL NULL, and the absence of a row

Kind       == {"post", "work"}
DocId      == Request \cup SeedDoc
CategoryId == Request \cup SeedCategory
MediaId    == Request \cup SeedMedia

\* What the authoring schema accepts: CmsPostInput, CmsWorkInput (cats = {}).
Content == [slug : Slug, text : Text, hero : MediaId \cup {None},
            embeds : SUBSET MediaId]
Input   == [doc : Content, cats : SUBSET CategoryId]
Row     == [kind : Kind, doc : Content]

Revision == [id : DocId, kind : Kind, entity : DocId, input : Input,
             at : Nat, rowid : Nat]

ASSUME TablesAssumption ==
  /\ Reserved \subseteq Slug
  /\ Request \cap (SeedDoc \cup SeedCategory \cup SeedMedia) = {}
  /\ MaxRevisions \in Nat \ {0}
  /\ None \notin Row \cup MediaId \cup CategorySlug \cup Input \cup DocId

VARIABLES
  docs,        \* tables posts and works: DocId -> row or None
  links,       \* table post_categories
  categories,  \* table categories: CategoryId -> slug or None
  media,       \* table media: the ids that have a row
  objects,     \* the R2 bucket: the media ids whose bytes are stored
  revisions,   \* table revisions
  rowids       \* the last rowid given in it

tables == <<docs, links, categories, media, objects, revisions, rowids>>

TablesTypeOK ==
  /\ docs \in [DocId -> Row \cup {None}]
  /\ links \subseteq DocId \X CategoryId
  /\ categories \in [CategoryId -> CategorySlug \cup {None}]
  /\ media \subseteq MediaId
  /\ objects \subseteq MediaId
  /\ revisions \subseteq Revision
  /\ rowids \in Nat

-----------------------------------------------------------------------------
(* Queries.                                                                *)

\* SELECT ... WHERE slug = ? in one of the two document tables.
BySlug(k, s) == {d \in DocId : docs[d] # None /\ docs[d].kind = k /\ docs[d].doc.slug = s}

CategoryBySlug(s) == {c \in CategoryId : categories[c] = s}

\* SELECT id FROM categories WHERE id IN (...)
KnownCategories(cs) == {c \in cs : categories[c] # None}

\* usageRefs: hero_media_id = ? OR instr(content_json, ?) > 0
Uses(doc, m) == doc.hero = m \/ m \in doc.embeds
Users(k, m)  == {d \in DocId : docs[d] # None /\ docs[d].kind = k /\ Uses(docs[d].doc, m)}

RevisionsOf(k, d) == {v \in revisions : v.kind = k /\ v.entity = d}

\* Faulty variant: the snapshots sorted the other way round.
NewerAscending(v, w) == v.at < w.at \/ (v.at = w.at /\ v.rowid < w.rowid)

\* ORDER BY created_at DESC, rowid DESC
Newer(v, w) == v.at > w.at \/ (v.at = w.at /\ v.rowid > w.rowid)

\* Faulty variant: one snapshot too many.
NewestAndOne(n, vs) == {w \in vs : Cardinality({v \in vs : Newer(v, w)}) <= n}
Newest(n, vs) == {w \in vs : Cardinality({v \in vs : Newer(v, w)}) < n}

-----------------------------------------------------------------------------
(* Statements: when D1 accepts them, and their effect.                     *)

\* REFERENCES media (id), and the UNIQUE slug of an INSERT.
HeroKnown(doc) == doc.hero = None \/ doc.hero \in media

\* Faulty variant: a slug column without UNIQUE.
DocAcceptedTwice(k, doc) == k \in Kind /\ HeroKnown(doc)
DocAccepted(k, doc) == BySlug(k, doc.slug) = {} /\ HeroKnown(doc)

InsertDocRow(d, k, doc) == docs' = [docs EXCEPT ![d] = [kind |-> k, doc |-> doc]]

\* Faulty variant: INSERT OR REPLACE in the place of UPDATE.
ReplaceDocRow(d, doc) == docs' = [docs EXCEPT ![d] = [kind |-> "post", doc |-> doc]]

\* UPDATE ... WHERE id = ? sets every column but id, slug and created_at, and
\* silently touches no row when the id is gone.
UpdateDocRow(d, doc) ==
  docs' = IF docs[d] = None THEN docs
          ELSE [docs EXCEPT ![d].doc = [doc EXCEPT !.slug = docs[d].doc.slug]]

\* Faulty variant: post_categories without ON DELETE CASCADE.
DeleteDocRowAlone(d) == docs' = [docs EXCEPT ![d] = None] /\ UNCHANGED links

\* DELETE FROM posts or works, with ON DELETE CASCADE on post_categories.
DeleteDocRow(d) ==
  /\ docs' = [docs EXCEPT ![d] = None]
  /\ links' = {l \in links : l[1] # d}

DeleteLinks(d) == links' = {l \in links : l[1] # d}

\* REFERENCES posts, REFERENCES categories, PRIMARY KEY (post_id, category_id)
LinkAccepted(d, c) == docs[d] # None /\ categories[c] # None /\ <<d, c>> \notin links
InsertLink(d, c) == links' = links \cup {<<d, c>>}

InsertCategory(c, s) == categories' = [categories EXCEPT ![c] = s]

DeleteCategoryRow(c) ==
  /\ categories' = [categories EXCEPT ![c] = None]
  /\ links' = {l \in links : l[2] # c}

\* A later INSERT gets a larger rowid than the rows of the table.  Only the
\* order matters, so SQLite's reuse of the numbers of deleted rows does not.
InsertRevision(v) == revisions' = revisions \cup {v} /\ rowids' = v.rowid

\* DELETE ... WHERE id NOT IN (SELECT id ... LIMIT MAX_REVISIONS)
Prune(k, d) ==
  /\ revisions' = (revisions \ RevisionsOf(k, d)) \cup Newest(MaxRevisions, RevisionsOf(k, d))
  /\ UNCHANGED rowids

\* hero_media_id REFERENCES media (id): a media row in use as a hero stays.
MediaRowFree(m) == \A d \in DocId : docs[d] # None => docs[d].doc.hero # m

=============================================================================
