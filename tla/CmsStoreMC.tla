----------------------------- MODULE CmsStoreMC -----------------------------
(***************************************************************************)
(* Instances of CmsStore for TLC: which operations the requests ask for,   *)
(* and the few inputs they carry.                                          *)
(***************************************************************************)
EXTENDS CmsStore, TLC

CONSTANTS s1, summary, t1, t2, c1, m1

RequestSymmetry == Permutations(Request)

Plain(s, t)     == [doc |-> [slug |-> s, text |-> t, hero |-> None, embeds |-> {}], cats |-> {}]
Filed(s, t, cs) == [Plain(s, t) EXCEPT !.cats = cs]
Hero(s, t, m)   == [Plain(s, t) EXCEPT !.doc.hero = m]
Embed(s, t, ms) == [Plain(s, t) EXCEPT !.doc.embeds = ms]

\* Documents, their categories and their history.
DocOperations == {"create", "update", "delete", "restore",
                  "createCategory", "deleteCategory"}
DocInputs == {Plain(s1, t1), Filed(s1, t2, {c1}), Plain(summary, t1)}

\* Documents and the media they show.
MediaOperations == {"create", "update", "createMedia", "deleteMedia", "getFile"}
MediaInputs == {Plain(s1, t1), Hero(s1, t1, m1), Embed(s1, t1, {m1})}

\* One run checks both, and a behaviour of it is of one kind: its requests
\* are about a post that is in a category, or about a work that shows nothing
\* yet, as its first document is.
StoreOperations == DocOperations \cup MediaOperations
StoreInputs     == DocInputs \cup MediaInputs

PostSeeds == {Filed(s1, t2, {c1})}
PostJobs  == DocInputs \cup {None}
WorkSeeds == {Plain(s1, t1)}
WorkJobs  == MediaInputs \cup {None}

OfMedia == {"putBytes", "insertMedia", "readMedia", "usage", "deleteMediaRow",
            "deleteBytes", "fileRow", "fileBytes"}
OfPosts == {"checkSlug", "insertRow", "restoreTarget", "restoreRow", "findDoc",
            "deleteRow", "checkCategory", "insertCategory", "findCategory", "deleteCategory"}

\* Bounds: the latest time, which gives three snapshots every order and every
\* tie among them; and how many snapshots of works are taken, for what media
\* rely on is their rows.
MaxTime          == 2
MaxWorkSnapshots == 1

AboutPosts(r) == pc[r] \notin OfMedia /\ job[r].kind = "post" /\ job[r].input \in PostJobs
AboutWorks(r) == /\ pc[r] \notin OfPosts
                 /\ job[r].input = None \/ job[r].kind = "work"
                 /\ job[r].input \in WorkJobs

OneFamily ==
  IF \E v \in revisions : v.entity \in SeedDoc /\ v.kind = "post"
  THEN /\ clock <= MaxTime
       /\ \A r \in Request : AboutPosts(r)
       /\ \A v \in revisions : v.id \in SeedDoc => v.input \in PostSeeds
  ELSE /\ rowids <= MaxWorkSnapshots
       /\ \A r \in Request : AboutWorks(r)
       /\ \A v \in revisions : v.id \in SeedDoc => v.input \in WorkSeeds

=============================================================================
