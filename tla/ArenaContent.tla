---------------------------- MODULE ArenaContent ----------------------------
(***************************************************************************)
(* Tom's posts and works are channels on are.na; a master channel, the     *)
(* index, lists the published ones.  getEntry of packages/arena/src/       *)
(* content.ts serves one request for one of them: it looks the title's     *)
(* slug up in the pages of the index, a batch of pages at a time, and then *)
(* reads every page of the channel it found.  Pages are read in parallel,  *)
(* each through a cache that may answer as of any time of the last day, so *)
(* no two pages need show the same state of a list, while the owner edits  *)
(* the lists on are.na.  The adapter repeats a request that are.na failed. *)
(***************************************************************************)
EXTENDS Naturals, SequencesExt

CONSTANTS
  Channel,      \* channels the index may list
  Wanted,       \* those whose title has the slug asked for
  Block,        \* what a channel may hold
  Stray,        \* items that do not decode: not a channel, not a block
  Per,          \* MAX_PER_PAGE
  Concurrency,  \* ARENA_PAGE_CONCURRENCY
  Retries,      \* retryPolicy
  Start,        \* what the lists may hold at first
  MaxLength,    \* bound: items in a list
  MaxEdits,     \* bound: edits the owner makes
  None

List == Wanted \cup {"index"}
Listable(l) == IF l = "index" THEN Channel ELSE Block

\* are.na connects an item to a channel once.
ASSUME ArenaAssumption ==
  /\ Wanted \subseteq Channel \ Stray
  /\ None \notin Wanted /\ "index" \notin Wanted
  /\ Per \in Nat \ {0} /\ Concurrency \in Nat \ {0}
  /\ Retries \in Nat /\ MaxLength \in Nat \ {0} /\ MaxEdits \in Nat
  /\ \A lists \in Start, l \in List :
       /\ lists[l] \in Seq(Listable(l)) /\ Len(lists[l]) <= MaxLength
       /\ Cardinality(ToSet(lists[l])) = Len(lists[l])

PageCount(items) == (Len(items) + Per - 1) \div Per
PageNo == 1 .. (MaxLength + Per - 1) \div Per
Page(items, n) ==
  SubSeq(items, (n - 1) * Per + 1, Min({n * Per, Len(items)}))

VARIABLES
  states,  \* the states each list has had in the last day, the last one now
  edits,   \* how many edits the owner has made
  pc,      \* where getEntry is, then its outcome
  tries,   \* times the adapter repeated it
  read,    \* for each list and page, the state it was read in; 0: not read
  from,    \* the first index page of the batch being read
  entry,   \* the channel found
  blocks   \* the blocks answered

requestVars == <<pc, tries, read, from, entry, blocks>>
vars == <<states, edits, requestVars>>

Ended == {"found", "missing", "failed"}

TypeOK ==
  /\ edits \in 0 .. MaxEdits
  /\ \A l \in List : /\ Len(states[l]) \in 1 .. edits + 1
                     /\ \A v \in 1 .. Len(states[l]) :
                          states[l][v] \in Seq(Listable(l)) /\ Len(states[l][v]) <= MaxLength
  /\ pc \in {"first", "batch", "blocks", "rest"} \cup Ended
  /\ tries \in 0 .. Retries
  /\ \A l \in List, p \in PageNo : read[l][p] \in 0 .. Len(states[l])
  /\ from \in PageNo
  /\ entry \in Wanted \cup {None}
  /\ (entry = None) = (pc \in {"first", "batch", "missing"}) \/ pc = "failed"
  /\ ToSet(blocks) \subseteq Block \ Stray

Unread == [l \in List |-> [p \in PageNo |-> 0]]

Init ==
  /\ states \in {[l \in List |-> <<lists[l]>>] : lists \in Start}
  /\ edits = 0
  /\ pc = "first" /\ tries = 0 /\ read = Unread
  /\ from = 1 /\ entry = None /\ blocks = <<>>

(* ----------------------------- The owner ------------------------------ *)

Becomes(l, items) ==
  /\ edits < MaxEdits /\ edits' = edits + 1
  /\ states' = [states EXCEPT ![l] = Append(@, items)]
  /\ UNCHANGED requestVars

Connect(l, item, i) ==
  LET now == Last(states[l]) IN
  /\ item \in Listable(l) \ ToSet(now) /\ Len(now) < MaxLength /\ i \in 1 .. Len(now) + 1
  /\ Becomes(l, InsertAt(now, i, item))

Disconnect(l, i) ==
  /\ i \in DOMAIN Last(states[l])
  /\ Becomes(l, RemoveAt(Last(states[l]), i))

Owner ==
  /\ pc \notin Ended
  /\ \E l \in List, i \in 1 .. MaxLength :
       Disconnect(l, i) \/ \E item \in Listable(l) : Connect(l, item, i)

(* ------------------------- Reading the pages -------------------------- *)

\* Faulty variant of Decoded: items are passed on as they come.
Undecoded(items) == items

\* decodeEach: an item that does not decode is skipped.
Decoded(items) ==
  FlattenSeq([i \in 1 .. Len(items) |-> IF items[i] \in Stray THEN <<>> ELSE <<items[i]>>])

\* One page as it was read, decoded.
Items(l, n, seen) == Decoded(Page(states[l][seen[l][n]], n))

\* The items of a run of pages, in page order whatever order they came in.
InPageOrder(l, first, last, seen) ==
  FlattenSeq([i \in 1 .. last + 1 - first |-> Items(l, first + i - 1, seen)])

\* meta.total_pages as the first page of a list reported it.
TotalPages(l, seen) == PageCount(states[l][seen[l][1]])

\* A read is answered by are.na or by a copy that readWorkerCache or the edge
\* kept of it, of any state of the last day.
Reads(l, n) == \E v \in DOMAIN states[l] : read' = [read EXCEPT ![l][n] = v]

(* --------------------------- findIndexEntry --------------------------- *)

FirstWanted(items) ==
  LET hits == {i \in 1 .. Len(items) : items[i] \in Wanted}
  IN  IF hits = {} THEN None ELSE items[Min(hits)]

Matched(c) == entry' = c /\ pc' = "blocks" /\ UNCHANGED from
Missed == pc' = "missing" /\ UNCHANGED <<entry, from>>
\* Faulty variant of SearchOn: the next batch starts a page late.
SkipAPage(n) == pc' = "batch" /\ from' = Min({n + 1, TotalPages("index", read')}) /\ UNCHANGED entry
SearchOn(n) == pc' = "batch" /\ from' = n /\ UNCHANGED entry

FirstIndexPage ==
  /\ pc = "first"
  /\ Reads("index", 1)
  /\ LET hit == FirstWanted(Items("index", 1, read')) IN
     \/ hit # None /\ Matched(hit)
     \/ hit = None /\ TotalPages("index", read') > 1 /\ SearchOn(2)
     \/ hit = None /\ TotalPages("index", read') <= 1 /\ Missed
  /\ UNCHANGED <<states, edits, tries, blocks>>

\* Faulty variant of LastOfBatch: every page left is read at once.
AllTheRest == TotalPages("index", read)
LastOfBatch == Min({from + Concurrency - 1, TotalPages("index", read)})

\* The pages of a batch arrive in any order; the last to arrive ends it.
IndexPage(n) ==
  /\ pc = "batch"
  /\ n \in from .. LastOfBatch /\ read["index"][n] = 0
  /\ Reads("index", n)
  /\ LET last == LastOfBatch
         hit  == FirstWanted(InPageOrder("index", from, last, read'))
     IN  IF \E m \in from .. last : read'["index"][m] = 0
         THEN UNCHANGED <<pc, from, entry>>
         ELSE \/ hit # None /\ Matched(hit)
              \/ hit = None /\ last < TotalPages("index", read) /\ SearchOn(last + 1)
              \/ hit = None /\ last = TotalPages("index", read) /\ Missed
  /\ UNCHANGED <<states, edits, tries, blocks>>

(* ----------------------------- allBlocks ------------------------------ *)

\* Faulty variant of Answer: the first page, read alone, is left out.
AnswerRest(last) ==
  /\ pc' = "found"
  /\ blocks' = IF last = 1 THEN InPageOrder(entry, 1, 1, read')
               ELSE InPageOrder(entry, 2, last, read')

Answer(last) ==
  /\ pc' = "found"
  /\ blocks' = InPageOrder(entry, 1, last, read')

FirstBlockPage ==
  /\ pc = "blocks"
  /\ Reads(entry, 1)
  /\ IF TotalPages(entry, read') <= 1
     THEN Answer(1)
     ELSE pc' = "rest" /\ UNCHANGED blocks
  /\ UNCHANGED <<states, edits, tries, from, entry>>

\* Effect.forEach has the first few unread pages in flight.
BlockPage(n) ==
  LET unread == {m \in 2 .. TotalPages(entry, read) : read[entry][m] = 0} IN
  /\ pc = "rest"
  /\ n \in unread /\ Cardinality({m \in unread : m < n}) < Concurrency
  /\ Reads(entry, n)
  /\ IF unread = {n} THEN Answer(TotalPages(entry, read))
                     ELSE UNCHANGED <<pc, blocks>>
  /\ UNCHANGED <<states, edits, tries, from, entry>>

(* ------------------------ Failures and retries ------------------------ *)

RetryWith(n) ==
  /\ tries' = n
  /\ pc' = "first" /\ read' = Unread /\ from' = 1 /\ entry' = None

\* Faulty variant of ReadFails: retries are not counted.
RetriesForever ==
  /\ pc \notin Ended
  /\ RetryWith(tries) \/ (pc' = "failed" /\ UNCHANGED <<tries, read, from, entry>>)
  /\ UNCHANGED <<states, edits, blocks>>

\* A read that fails, or whose body does not decode, ends the whole request.
\* arenaOperation starts it over if the status is 500 or more.
ReadFails ==
  /\ pc \notin Ended
  /\ \/ tries < Retries /\ RetryWith(tries + 1)
     \/ pc' = "failed" /\ UNCHANGED <<tries, read, from, entry>>
  /\ UNCHANGED <<states, edits, blocks>>

GetEntry == \/ FirstIndexPage \/ FirstBlockPage \/ ReadFails
            \/ \E n \in PageNo : IndexPage(n) \/ BlockPage(n)

Next == Owner \/ GetEntry

\* are.na answers every read or fails it.
Spec == Init /\ [][Next]_vars /\ WF_vars(GetEntry)

(* ----------------------------- Properties ----------------------------- *)

SeenPages(l) == {p \in PageNo : read[l][p] # 0}
Versions(l) == {read[l][p] : p \in SeenPages(l)}
Batch(n) == IF n = 1 THEN 0 ELSE 1 + ((n - 2) \div Concurrency)

\* When every page of the index that a lookup read shows one and the same
\* state of it, the answer is that state's: the first channel listed whose
\* title has the slug, or none when there is none.  Batches, the order pages
\* arrive in, items that do not decode and an earlier failed try change
\* nothing.  (findIndexEntry, findIndexBatches)
FoundIsFirst ==
  pc \in {"blocks", "rest", "found", "missing"} =>
    \A v \in Versions("index") :
      Versions("index") = {v} => entry = FirstWanted(Decoded(states["index"][v]))

\* When the pages of the channel found all show one state of it, the answer
\* holds its blocks, all of them, once, in their order, strays left out; when
\* they do not, it still holds only blocks that were in it.  (allBlocks)
BlocksWhole ==
  pc = "found" =>
    /\ \A v \in Versions(entry) :
         Versions(entry) = {v} => blocks = Decoded(states[entry][v])
    /\ ToSet(blocks) \subseteq UNION {ToSet(states[entry][v]) : v \in Versions(entry)}

\* A page of the index is only read when every page of the batches before its
\* own has arrived and shows no match: a failure on a page behind the batch of
\* the match cannot sink a lookup that has found its entry, and reads of two
\* batches are never under way at once, match or not.  Behind the match, but
\* in its batch, a page still can (the comment on findIndexBatches).
ReadsStopAtMatch ==
  \A q \in SeenPages("index"), p \in PageNo :
    Batch(p) < Batch(q) =>
      read["index"][p] # 0 /\ FirstWanted(Items("index", p, read)) = None

\* A request ends, whatever the owner does to the lists while it pages through
\* them, if are.na answers or fails each read.  (findIndexBatches recurses on
\* the pages left, arenaOperation retries a bounded number of times)
RequestEnds == <>(pc \in Ended)

=============================================================================
