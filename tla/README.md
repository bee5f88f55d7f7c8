# A verification project for wwwtom

TLA+ modules of the stateful parts of this repository, TLC configurations that
model-check them on small instances, and proofs that TLAPS checks for every
value of the constants. Paths below are relative to the repository's root, the
directory `src/`.

    tlc -workers 2 -config CmsStore.cfg CmsStoreMC    # a run
    tlapm CmsStoreProofs.tla                          # the proofs of a module

`PROJECT.json` lists, for tools, what this file explains: components, runs, the
source lines behind each definition, hazards, findings, theorems, and for each
property a plausible bug (a "Faulty variant" in the modules) that breaks it.

## 1. The system

wwwtom is a personal site on Cloudflare Workers. A web front end and the Camus
editor talk to the *adapter* (a backend for front ends), which forwards to the
*api* worker. The api keeps the CMS in D1 (SQL) and R2 (bytes), and drains the
work queue. The adapter keeps a guestbook in Postgres and the state of a
small LCD picture frame in KV; the posts and works of the front end are channels
on are.na, which it reads through caches. Most workers hold no state between requests;
state lives in the stores, and what is hard is what concurrent requests, failed
calls and retried messages do to it.

| component | code | state | operations | hard |
|---|---|---|---|---|
| CMS store | `apps/api/src/cms/operations.ts`, `infra/cms/migrations` | tables posts, works, categories, post_categories, media, revisions; bucket of media bytes | create, update, delete, restore, categories, upload and delete of media | no transactions: every statement is a point where another request runs or this one dies; D1 and R2 are written one after the other |
| work queue | `apps/api/src/queue/consumer.ts`, `packages/utils/src/queue.ts`, `telegram.ts`, settings in `infra/apps/api.run.ts` | messages waiting, in a batch, acknowledged, dead | send, batch, handle, acknowledge, retry | at-least-once delivery, one failure retries the batch, lost answers |
| guestbook | `apps/adapter/src/guestbook`, `packages/db` | tables oauth_sessions, guestbook_entries; two cookies per browser | initiate, callback, sign, logout | check-then-insert, several tabs on one cookie, a job that may not be queued |
| editor | `apps/editor/src` | the document being edited, its dirty flag, save state, history panel | save, restore, delete, leave | answers that arrive after the document changed; aborted calls that took effect |
| frame | `firmware/arena-frame/src/main.cpp`, `apps/adapter/src/frame` | page, cursor, mode, picture; one KV key | poll, fetch, draw, advance, retreat | a page it can never leave, stale decks after a mode change |
| are.na content | `packages/arena/src/content.ts`, `client.ts`, `apps/adapter/src/arena` | the pages read so far; caches of pages up to a day old | find an entry in the index, read its blocks | pages in parallel, each of its own age, of lists that change; retries of the whole |
| secret caches | `packages/utils/src/config.ts` | promises memoised per isolate | read, share, evict on failure | a failed read that is awaited, or replayed, by other requests |
| runner | `infra/runner/src/index.ts`, `image/run-actions-runner.sh` | sandboxes, each with a script | start, wait, clean up, call back | a start that fails half-way; a Worker, a request or a callback that is lost |
| the rest | web, sophie, ui, icons, schemas, og, oauth, weather, turbo cache, proxies, workflows | none, or a single put and get | | nothing interleaves |

How they interact: editor → adapter → api → D1/R2; adapter guestbook → queue →
api consumer → Telegram; web and firmware → adapter → KV; adapter → are.na; GitHub's runner →
runner worker → sandbox, and the sandbox back to the worker. The CMS and the queue
share no state. The guestbook and the queue do, and are composed; so are the
runner and the secrets its requests await.

What makes each correct: identities, links and histories of documents agree
whatever races; media rows, bytes and uses agree; every queued message settles
and none is lost; an answer to a signature tells the truth about the table; the
editor never calls a document saved that the server does not have; the frame
gets past every page; an entry found on are.na is the one the index lists and is
answered whole; a sandbox is given back when its runner is done.

## 2. The modules

    CmsTables      the tables and the bucket; one operator per statement
    CmsStore       EXTENDS CmsTables: the operations, one action per statement
    CmsStoreMC     instances of it for TLC
    CmsStoreProofs the theorems about documents
    CmsContentProofs the theorems about media and about revisions
    WorkQueue      the queue and queueHandler
    Courier        what the queue promises a producer; WorkQueue refines it
    WorkQueueMC    instances of WorkQueue for TLC
    WorkQueueProofs the theorems about it, the refinement among them
    Guestbook      the guestbook; its queue is an INSTANCE of WorkQueue
    GuestbookMC    instances of it for TLC
    GuestbookProofs the theorems about it
    EditorSession  the editor, its calls in flight, and the server as it sees it
    EditorSessionProofs the theorems about it
    FrameBoard     the picture frame, its state document and the channels
    FrameBoardMC   instances of it for TLC
    FrameBoardProofs the theorems about it
    ArenaContent   one request for an entry on are.na
    ArenaContentMC instances of it for TLC
    ArenaContentProofs the theorems about it, and the lemmas about runs of pages
    SecretMemo     the secrets an isolate remembers
    RunnerService  the ephemeral runners; their secrets are an INSTANCE of SecretMemo
    RunnerServiceProofs the theorems about it and about the secrets

### CmsTables, CmsStore

The state is the tables, plus for each request the statement it awaits (`pc`)
and its local variables: `job` (route parameters and decoded body), `target`
(the id it found or made), `todo` (what is left of a `forEach` or `Effect.all`)
and `stamp` (the `created_at` of its revision). A request is one invocation:
it arrives, takes its statements one at a time, and ends `ok`, `rejected` (a
400, 404 or 409 of the code) or `failed`. Any statement may fail, and
an invocation may die after one took effect; both are `Fail`. A UNIQUE or
REFERENCES clause that does not hold disables the action, and `Fail` is then what
happens: D1 changes nothing. `clock` gives two requests the same millisecond or
a later one, in any order with their inserts. It is one clock that never goes
back, an assumption on the isolates' `Date.now()`.

| operation | actions in order |
|---|---|
| createPost, createWork | CreateDoc, CheckSlugFree, InsertRow, then *write tail* |
| updatePost, updateWork | UpdateDoc, RequireDecodedRow, UpdateRow, then *write tail* |
| restoreRevision | RestoreRevision, FindRevisionTarget, FindRevisionRow, then as update from RequireDecodedRow |
| *write tail* | posts: UnlinkCategories, VerifyCategories, LinkCategory…; all: ReadClock, RecordRevision, PruneRevisions, ReadBack |
| deletePost, deleteWork | DeleteDoc, FindDoc, DeleteRow |
| createCategory | CreateCategory, CheckCategory, InsertCategoryRow |
| deleteCategory | DeleteCategory, FindCategory, RemoveCategory |
| createMedia | CreateMedia, PutBytes, InsertMediaRow, ReadMedia |
| deleteMedia | DeleteMedia, ReadUsage ×3 in any order, DeleteMediaRow, DeleteBytes |
| getMediaFile | GetMediaFile, RequireMediaRow, ReadBytes |

Abstractions: a new row bears the name of the request that made it (random
UUIDs do not repeat); a document keeps table, slug, hero, embedded media and
one value for all its other columns; the reserved slugs are a set. `touched` and
`missed` are history variables, read by properties only.

### WorkQueue

A message is `waiting`, in the `batch` of an invocation, `acked` or `dead`.
`queueHandler` walks its batch (`Handle`), throws at the first failure
(`HandlerFails`), is killed (`Crash`), or resolves (`Acknowledge`). Either way
of failing hands the whole batch back (`RetryBatch`). Cloudflare's side (`Send`'s store, `Deliver`,
`Settle`, `RetryBatch`) follows the settings of `api.run.ts`: `batchSize`,
`maxRetries`, a dead letter queue. A queue promises no order, so a batch is a
set. `Refused` messages never go through (they do not decode, or Telegram does
not parse them); for the others a failure may come before or after the alert is
out. Not modelled: an api without Telegram secrets, whose alerts are no-ops.

`Courier` is the abstract specification: a job a producer sends is carried until
it is delivered or given up, alerts the owner before it is delivered (unless it
is of a kind that only logs), and never more often than a job may be delivered.
Batches, invocations and attempts do not occur in it. `CarriesOut` is the refinement:
`alerts` maps to itself, and `Fate` says where a producer would see each
message; handing out a batch is a stutter, a failed batch is `GiveUp` (of none, or of
those out of retries).

### Guestbook

Per request: the browser it came from, the cookies it carried (read at arrival),
the code, the account it works for. `sessions` and `entries` are tables. The
visitor's browser and the instance are environment actions: `Authorize`,
`Expire`, `ExpireCookie`. The instance honours a code once and only for the
client it issued it to, which is all that ties a callback to a session: the
route compares no state parameter. `hasUserSigned` reads the table as it is:
assumed is that Hyperdrive does not answer that SELECT from its query cache,
for no line of the repository says so. `registerApp` is part of `OpenSession`, its
failure is `Fail`. `Enqueue` is the composition: it takes `Queue!Send`, and
`Drain` lets the consumer run.

### EditorSession

One author, one tab. What the page holds is `view`, `mount` (how many documents
have been opened: a component instance), `draft`, `dirty`, `savedSlug`,
`saveState`. The wire holds for each call sent its `job`, where the client is
with it (`fetch`), whether the server has dealt with it (`status`) and the
`reply`. The server holds `stored` documents and their `past`.

| code | actions |
|---|---|
| App, the list and its tabs | OpenNew, Open, Leave |
| Tiptap's onUpdate, setField, onSlug, toggleCategory | Type, SetField, SetSlug, ToggleCategory |
| onSave | Save, and at the answer MarkSaved |
| onDelete | Delete, then Exit |
| the load, and HistoryPanel's restore | Open or Restore, then Show |
| every catch | HandlerFails |
| requestJson | Abort (its timer), Headers, ReadBody |

A handler is cut at its `await`: it sends its call and returns, and what
follows runs at the answer, for the document that is open by then. Nothing
cancels a call. `requestJson` clears its timer once `fetch` resolves, which is
when the headers are in, so reading the body is a step without a limit. The
server is one atomic step per call; it may take effect and answer an error (as
CmsStore shows it does), and may be taken after the client gave up. HistoryPanel's
`restoring` flag is left out since hiding and showing the panel clears it.
`toggleCategory` does not reset the "Saved" badge, so `SavedMeansStored` speaks
of the other fields. `latest`, `certain` and `shown` are history variables, read
by properties only. `latest` is, per document, the last call the server carried
out. `certain` is true of an author who waits: it becomes false when the author
acts while a fetch is out, when the server carries a call out behind a later one
to its document, and when a restore or a delete is carried out without its
answer coming in. So the badges are right after saves that were refused, aborted or lost,
and after an aborted save that is carried out late, until one of the last two
things happens. They do happen to an author who waits: a PUT aborted at 15
seconds, a second one answered "Saved", and the first one carried out after it
leave the older text on the server under that badge, and nothing in the
editor can tell. Left out: the category and media views, uploads, the load of
the category list, the preview of a revision, sign-in.

`TypedTextStays` says what becomes of the text an author typed: only the answer
of a restore asked for in the same document, or that of a delete, takes it away,
besides the author's own typing and leaving. In particular the
answer of a save never does, although it touches the form.

### FrameBoard

The board is one thread, so its state is where `loop()` is (`pc`) and its
globals under their own names. What is outside is a state document in KV, whose reads
may lag behind a save (`visible`), and `arena`, the decks of the channels, which
change at any time.

| code | actions |
|---|---|
| setup, the watchdog | Reboot |
| connectWifi; waitMs after a failure | Connect, ConnectFails; Retry |
| pollState and fetchState | Poll, in loop and in both waits |
| the mode switch of loop | Dispatch |
| drawCurrent | FetchDeck, DeckFails, FetchImage, ImageFails |
| waitForNext | EndCycle (also a held "next"), HoldPrevious, Tap, LoseWifi |
| waitForModeChange | Tap in clock mode, LoseWifi |

`framePixels` is None when a short read has left it in pieces. Documents too
long for the board's buffers have `fits` false. Time, the faces, the clock and
the weather are left out. `due` is a history variable: the place in the deck,
page and block, whose turn it is. The end of a cycle and a tapped "next" make it the place
after, over the page's end and from the last page to the first; a held
"previous" makes it the place before; a failure leaves it alone; a
change of channel, mode or board makes it the top. It is None, and
`WalkInOrder` says nothing, in two cases, both until the deck is
fetched again: after the owner changed the very channel (the cursor may then point past the
new deck, `drawCurrent` wraps it, and which block comes next is nothing the code
promises), and after "previous" at the first block of a page of a deck of several
pages, where the code goes to the last block of the same page and not to the
place before it (section 3, under the violations).

A page of a deck that is not smaller than 8192 bytes makes `fetchDeck` fail every time
(`main.cpp:359`). The lengths of lists are not modelled, so the fairness of
`FetchDeck` takes its failures to pass: `EveryPictureIsShown` holds of decks whose
page lists fit.

### ArenaContent

One request for one entry, next to the owner of the channels. `states` keeps every state
a list (the index, and each channel that can be the answer) has had in the last
day, `edits` how often the owner changed one (its bound is `MaxEdits`); `read` says which of them each page was read in.

| code | actions |
|---|---|
| findIndexEntry, first page | FirstIndexPage |
| findIndexBatches | IndexPage, the last of a batch deciding |
| allBlocks | FirstBlockPage, BlockPage |
| any failing read; arenaOperation's retryPolicy | ReadFails |
| the owner, on are.na | Connect, Disconnect |

The worker's cache and the edge's (`readWorkerCache`, `writeWorkerCache`, and the
`cacheTtl` of `fetch`) are what `Reads` abstracts: a page may be answered as of
any state of the last day, whatever age the page next to it has. That makes the
model's cache worse than any particular cache, and what is said of answers is
conditional on the pages agreeing: when they do not, an entry can be missed (a
404 of a published post) or found after it was taken off, for up to a day, which
are consequences the code accepts. are.na connects an item to a channel once, so lists have
no repetitions. `Stray` stands for what `decodeEach` drops, and in the index for
an item that is not a channel. A request ends at its answer, so the owner acts
only before it.

### SecretMemo, RunnerService

`SecretMemo` is one isolate's map of promises: `reads` are the reads of each
binding with their outcomes, `memo` the one the map holds, `joined` those a
request awaits. `Join` is `readCloudflareEnv` up to its await, `ReadFails` the rejection with
the eviction that runs before any waiter, `Forget` the end of the isolate.

`RunnerService` has per POST the handler (`pc`), the sandbox (`box`), and the
script's callbacks (`clean`, `tries`).

| code | actions |
|---|---|
| POST /runners, startRunner | Arrive, Authorized, Registered, Started, Ready; StartFails, StartUndone |
| DELETE /runners/:id, destroyRunner | CleanupAuthorized, CleanupDone, CleanupFails |
| run-actions-runner.sh and its EXIT trap | Exits, CallsBack, GivesUp |
| the sandbox service and GitHub (external) | InstanceStarts, ProcessStarts, Listens, TakesJob, Quits |
| the platform | HangUp, IsolateDies |

Abstractions: a token check, and the call that mints a registration token, have two outcomes; one isolate
serves every request; a sandbox is empty, booting, listening, at a job, exited,
silent (its script has given up calling), or gone. The instance that a request
asked for comes up also when that request is over, unless it was destroyed
before: assumed is that `destroy` cancels a start still being asked for. `kept` is a history variable:
the sandboxes whose destruction failed. Left out: a request that is cancelled
while it is the one whose `get` others await; the reset of a listening runner
by hand.

## 3. The runs

| run | instance | shows |
|---|---|---|
| CmsStore | 3 requests, 1 document, 1 category, 1 media item, 2 slugs (one reserved), 2 texts, MaxRevisions 2; posts with their categories, or works with media | identities, links, histories; rows, bytes and uses; passes |
| CmsSnapshots | 2 requests | a written document without a snapshot; violated |
| WorkQueue | 3 messages (good, poisonous, logged), 2 consumers, batches of 2, 3 retries | bounds, settling, and the refinement of Courier; passes |
| Guestbook | 3 requests, 1 visitor with 2 accounts, 1 consumer, 1 retry | answers, rows, sessions, alerts; passes |
| GuestbookTwice | 2 requests | two entries of one account; violated |
| EditorSession | 2 slugs, one stored; 3 calls, 1 edit, 2 mounts | the badges, documents and typed text left alone, saves that end or stall; passes |
| EditorClean | 1 slug, 2 calls, 2 edits, 1 mount | a body called clean that the server lacks; violated |
| EditorHangs | 1 slug, 2 calls, 1 edit, 1 mount | a save that never ends; violated |
| FrameBoard | 2 channels, 3 decks (one with a hole and a dead block), 4 blocks, 6 documents, 2 events | pictures, modes, the walk; passes |
| FrameBoardHole | 1 channel with a page without images | a deck that is not traversed; violated |
| ArenaContent | every index of up to 4 channels (2 with the slug, 1 stray), channels of 0, 1 and 4 blocks, pages of 1, batches of 2, 1 retry, 1 edit | the entry found, the blocks answered, the pages read, an end; passes |
| RunnerService | 2 POSTs, 2 secrets of 2 reads, 1 instance, 2 tries, 1 dying isolate | instances left behind or given back, reads shared; passes |

Why the bounds are enough. In the CMS every race the properties speak of is
between two requests; the third is the one that observes the outcome, or
deletes. Two snapshots allowed and up to four written make prunes drop some, at three
times (`MaxTime`), so that any two of them may tie or differ. The
constraint `OneFamily` keeps a behaviour of the run to one of two kinds, by the
document it begins with: a post, filed in the category, with requests that create, update,
delete and restore posts and make and delete categories; or a work, with requests
that update works and upload, delete and download media, where the usage
check asks both tables. Posts do all that works do and have categories besides; works are
shorter, so that three requests fit beside media, and one snapshot of them is enough
(`MaxWorkSnapshots`), since media are used by rows and not by snapshots. What no behaviour of the run has is
categories and media together, which no operation relates except a post's own hero and
embeds. The theorems have no such bounds. In the queue, two consumers and
three messages give every way of sharing and splitting batches with a poisonous
one, and retries are at the value of `api.run.ts`. In the guestbook, three
requests are enough for a sign-in and its callback with a tab that interferes,
and for two signatures with a third after them.
In the editor, three calls are a save, one that fails or
overtakes it, and one that follows (or a load and two of them); two mounts let an answer
reach a document opened after the one that asked. One edit besides the
slug's is enough to tell a body from its predecessor. On the board, the events
that are bounded are saves, changes of a deck, held "previous" buttons and
reboots; two of them put any one in the midst of another's effects, and
failures, polls, taps and lost connections are not bounded.
For are.na, pages of one item make every boundary between pages and batches fall within four
items: a first page, a full batch and a last page alone; the four items are two
rivals for the slug, one stray and one other, in every order and number. One edit
gives each page two states to be read in. A retry forgets all that was read, so
one tells as much as the three of the code.
For runners, one instance and two POSTs make one wait for the other's; two tries
are a lost callback and one more; each secret can fail once and be read again,
and the isolate can die at any point.
Requests are symmetric (the specification never tells them apart), and the runs
with a temporal property that is a liveness property use no symmetry.

Deadlock is checked except for the guestbook and the runners, whose requests are
finite in number and which really stop when they are answered, for the one request of
ArenaContent, and for the editor, whose author may leave and do nothing more; in `CmsStore` and
`WorkQueue` the ends are `Over` and `AllSettled`, so any other halt is reported.

**Fairness.** `WorkQueue` states weak fairness of delivery
(`maxWaitTimeMs` obliges Cloudflare to start a batch) and of each
invocation's next step (a Worker invocation ends, by its limits if not by
itself). Nothing is assumed about which step, so failures may recur. Producers
owe nothing. `EveryMessageSettles` then follows from the bounded retries alone.
`EditorSession` states weak fairness of each call's `Abort`, for `requestJson`
starts a timer with every call, and of nothing else: no response body need
arrive. The timer is cleared when the headers are in, so it sees to no more than
`SavesSettleOrStall`: the Save button comes back, or the response of the save has begun and its body
is still to come.
`FrameBoard` states weak fairness of `Loop` (each wait of `loop()` has a limit,
and the watchdog behind it) and of KV's convergence, and strong fairness of
what needs the network or a quiet ten minutes: connecting, polling, the two fetches and the
end of a cycle may fail any number of times, not always. Its token is taken to be set.
`ArenaContent` states weak fairness of `GetEntry` as a whole: are.na answers or fails each
read, in any order and with any outcome; the client sets no time limit of its own, so this is
an assumption on the platform's `fetch`. The owner owes nothing.
`RunnerService` states weak fairness of the reads of secrets, and per POST of its handler,
of the script in its sandbox and of the handler of its callbacks: calls between services answer or
fail, a runner that has booted or has a job comes to an end, and a shell runs its
EXIT trap. A job need never come, an instance need never start, and every one of these steps may fail.
Nothing obliges a client of the CMS or the guestbook to go on, and they state
safety only.

### What the violations say

- **CmsSnapshots** — `0003_revisions.sql` says "snapshots of post/work inputs on
  every write". `updatePost` writes the row first; when the categories are then
  refused with 400, or a later statement fails, the new content stays and no
  revision has it. The next write makes it unrecoverable.
- **GuestbookTwice** — "You have already signed the guestbook" is not
  enforced for signatures in flight together. `LaterSignsRefused` says what is.
- **EditorClean** — leaving a document asks "Discard unsaved changes?" only when
  its body is dirty. `onSave` marks it clean when the answer comes, also if the
  author typed after the save was sent: that text is lost without a question.
  `CleanMeansStored` says what an author who waits for the answers can rely on.
- **EditorHangs** — `data/api.ts` says "Session requests never hang: abort slow
  fetches so the shell always settles". The timer is cleared in the `finally` of
  the fetch, which is done at the headers; `response.json()` comes after, without a
  limit. A response that stalls in its body leaves the page "saving" with its
  button disabled. `SavesSettleOrStall` is what the timer gives.
- **FrameBoardHole** — the frame's README says it "asks for the next page and
  wraps to page 1 after the last one". On a page without images `drawCurrent`
  fails before `advanceFrame`, and each retry asks for the same page. A block
  that does not render, and a page that a shrunken channel no longer has, stop
  the walk the same way; `EveryPictureIsShown` has the premise that excludes all three
  (`Walkable`) and says what is left.

Other comments and documents that promise more than the code does; for each, the
property of a passing run that says what does hold:

- `deleteMedia` (`cms/operations.ts:1364`) says "Never orphan published content …
  the service enforces it". It asks and then deletes, and a write between the two
  that embeds the item is orphaned, since `content_json` has no foreign key (heroes
  have one, and are safe). `OnlyRacingUseIsOrphaned`, also a theorem, says exactly which
  documents can be hit.
- `infra/runner/src/index.ts:214-216` says of a start "On any
  failure the sandbox is destroyed so a half-started runner can't keep an instance alive". The destruction may fail, and is not tried again; the request
  may die before it, or be hung up. `NothingLeftBehind` speaks of the starts that were
  answered and whose destruction went through, and `InstancesEnd` names the ways an instance
  stays (`Stuck`).
- `firmware/arena-frame/README.md:53-54` says "hold GPIO35 the previous one". At the first
  block of a page the board goes to the last block of that page (`main.cpp:566-569`),
  which in a deck of several pages is not the previous one but one yet to come, and
  the pages before are out of reach of the button. `WalkInOrder` holds everywhere else.
- The comment on `findIndexBatches` (`content.ts:285-289`) says that reading every page up
  front would "let an unrelated page failure sink an already-found lookup". Pages of
  the match's own batch still do: all are read, and all must succeed, before the
  batch is searched (`content.ts:298-303`). `ReadsStopAtMatch` is about the batches:
  none is begun before every page of those before it has come in and shown no match.

## 4. The proofs

Every safety property that a passing run checks, and every action property, is a
theorem for all values of the constants.

Assumed is what the constants are, in one named assumption per module, which TLC
evaluates in the runs: `TablesAssumption` and `StoreAssumption` (requests are new
names, reserved slugs are slugs, at least one revision is kept),
`QueueAssumption` and `GuestbookAssumption` (the bounds are numbers, a batch has
room for a message), `SessionAssumption` (what is stored has slugs),
`BoardAssumption` (decks are lists of lists of blocks, the home channel is one),
`ArenaAssumption` (pages and batches have room for one, a list holds what it may list,
each item once, and who has the slug decodes)
and `RunnerAssumption` (at least one instance and one try); and in each that None
is no value. The sets of requests, documents, slugs, inputs, messages, channels
and blocks are otherwise arbitrary, infinite ones included.

**CmsStoreProofs, CmsContentProofs.** Four layers, each inductive
relative to the first:

1. `StagedType == TypeOK /\ StageOK`. `TypeOK` alone is not inductive: that
   `RecordRevision` adds a well-typed revision needs that a request at that stage has
   an input and a target, which `StageOK` records per stage. Gives `TypeCorrect`.
2. `Identity == IdentityOK /\ OneRowPerSlug /\ NoReservedDoc /\
   HistoryKeepsSlug /\ LinksResolve`. The argument: an id is born once
   (`Settled`), at its own InsertRow, so a request that holds an id as
   its target either finds it under its own slug and table or finds nothing;
   UPDATE keeps the slug; a revision is filed under the id whose slug it carries. Gives
   `SlugsStayUnique`, `ReservedStaysFree`, `LinksAlwaysResolve`,
   `SnapshotsFitTheirDocument`, `LostUpdatesAreReported` and the action property
   `IdentityNeverChanges`. `LostUpdatesAreReported` rests on it because a request that missed
   its row can only be reported as a success if the id comes back.
3. `Attached == MediaOK /\ RowHasBytes /\ HeroResolves`: bytes come before
   the row and leave after it, an item whose row is gone is never uploaded
   again, and a usage answer is out of date only for documents in `touched`. Gives `MediaRowsHaveBytes`,
   `HeroesResolve` and `OrphansWereWrittenMeanwhile`.
4. `History == RowsOK /\ … /\ HistoryCapped`. The two properties say something of requests that are answered;
   `Recorded` and `Kept` say it from the insert on, which is what another's
   prune may disturb. They rest on `NewestCounts`: the query that prunes keeps at most
   MAX_REVISIONS rows, and when it drops one it keeps exactly that many, each newer.
   Counting them needs no induction: the number of rows newer than a row is an
   injection into 0 .. n-1, because `(created_at, rowid)` orders the snapshots of a document
   totally. That no two share a rowid is the part of `RowsOK` this rests on; that
   a snapshot belongs to a write that got to its prune, the other part, is why a
   write that pruned is counted at most with those its own prune kept. Gives
   `AcknowledgedWritesAreKept` and `HistoriesAreCapped`.

**WorkQueueProofs**, for any messages, consumers, batch size and retries:

1. `Placed == TypeOK /\ NothingDropped /\ DeadUsedRetries /\ HandledOK`. None of
   its parts is inductive alone: that `Deliver` keeps `attempts` in its type
   needs that a waiting message has retries left, which is `DeadUsedRetries`
   with the disjointness in `NothingDropped`. Gives `QueueTypeCorrect`,
   `QueueDropsNothing`, `DeadWereRetried` and the action property `SettledForGood`.
2. `Alerted == AckedWasAlerted /\ HandledWasAlerted /\ AlertsBounded`. An
   alert is sent at most once per invocation, since a handled message is not
   handled again, and a failed batch pays for it with the attempt it counts.
   Gives `AcknowledgedWereAlerted` and `AlertsStayBounded`.
3. `QueueIsACourier == Spec => CarriesOut`: from both invariants, every step is one of
   `Courier` or leaves every fate and alert as it is. A lemma per action says which. That a message's fate is one and
   only one needs the disjointness in `NothingDropped`; that an alert is allowed,
   the count in `Alerted`; that a delivery is, `HandledWasAlerted`.

**GuestbookProofs**, for any visitors, accounts, requests and consumers:
`GuestInv == TypeOK /\ (\A r : RequestOK(r)) /\ BrowsersOK /\ JobsOK /\
AlertedIsSigned`. `RequestOK` is what a request may rely on at the call it
awaits. Three of its conjuncts carry the theorems: a request that holds a session
to drop holds one whose initiate was answered, so nobody opens it again
(`SignInsSpendSessions`); the entries that were acknowledged when a request asked
`hasUserSigned` are still of other accounts when it inserts, although entries in flight
may not be (`LaterSignsAreRefused`); a row is only there for a request past its insert
(`AnswersMatchRows`). `AlertedIsSigned` must speak of all jobs the queue holds,
not only of alerts sent, and of `JobsOK`, the queue's own type. Actions of the guestbook and of
the queue touch different variables (`StepKeeps`, `OthersKeep`), which is why the proof
has one lemma per action and not one per pair. The facts about the queue are proved
again here, for the guestbook's `Queue` is an INSTANCE whose theorems the prover cannot cite.

**EditorSessionProofs**, for any slugs, calls, edits and documents opened:
`EditorInv == TypeOK /\ (\A c : CallOK(c)) /\ ServerOK /\ PageOK /\ LoadsOK /\
CertainOK`. `CallOK` says a call asks for what the author had been shown when it
was sent, which with the server's own check gives `OthersStayUntouched`. `LoadsOK`
says that while a load is under way its document is not shown and nothing else was asked
for it: without it a load could replace typed text, which `TypedTextIsKept`
excludes. `CertainOK` is about an author who waits: one fetch at most is out, and its
`FlightOK` says, per operation, what the form, the server and the answer will
have in common when it comes, so that markClean and "Saved" are true
(`CleanIsStored`, `SavedIsStored`). Saves that were given up may be carried out at any
time after; `LateOK` says why those that can still be the last on the open document do no
harm: a form that is clean has the body they carry, and the badge is not
"Saved". What `certain` excludes is in section 2.

**FrameBoardProofs**, for any channels, decks, documents and number of events:
`BoardInv == BoardTypeOK /\ WholePicture /\ PictureIsCurrent /\ PictureOK /\ WalkOK`.
`PictureOK` says what is in the buffer while a picture is fetched or held, since
`WholePicture` is disturbed by a tap that redisplays it. `WalkOK` says that the
board is at the place that is due, also while it is elsewhere, and that the place is in the
deck, so that fetching the deck again does not move it. `Before` and `After` are
defined on the deck, the board's moves on what it remembers of one page; the
lemma `StepsInTurn` is that they agree, save for "previous" at a page's first block.
`BoardTypeCorrect` shares the invariant
because the cursor's type needs `cursor < blockCount` when "previous" is held. The run
has pages of one and two blocks; that the walk keeps its turn through decks of any length
(`WalkStaysInOrder`) is what only the theorem says.

**ArenaContentProofs**, for any lists and edits, page sizes, batches and retries:
`IInv == TypeOK /\ Shape /\ FirstOK /\ BatchOK /\ RestOK /\ FoundIsFirst /\
BlocksWhole /\ ReadsStopAtMatch`. `Shape` makes the record functions; the next three
say, for where `getEntry` is, which pages have been read: a batch starts on a batch
boundary (page 2 + k · Concurrency), every page before it was read and searched
in vain, none behind it was read. That is `SearchesStopAtMatch`, by the arithmetic of
which batch a page is in. From that `LookupsFindTheFirst` is: the pages searched in vain and the batch with
the match are, when they show one state, the beginning of that state; and
`AnswersAreWhole`: pages 1 to the last, each as long as the page size but the last, are the list.
That a concatenation of pages is a piece of the list, and what decoding and searching
make of a concatenation, takes an induction over its length. The library's induction
theorems take an operator, so the first lemmas derive one for sets
of numbers (`Least`, `CountUp`) from `WFMin` and the well-foundedness of the
finite subsets of Nat. `FlattenSeq` is expanded to the function it recurses by
(`JoinExists`, `JoinUnique`, `RunIsJoin`).

**RunnerServiceProofs**, two independent layers, for any POSTs, secrets, instances and tries:

1. `MemoInv`: of each secret, the map's read is one of its reads, has not
   failed, and is the only one that may be pending; a caller awaits reads that exist. Inductive because
   `Join` starts a read only where the map holds none, hence none is pending.
   Gives `SecretsAreShared`.
2. `BoxInv == Typed /\ WithinLimit /\ \A r : Accounted(r)`. `NothingLeftBehind` needs
   two more facts about each sandbox: it is untouched until its request asks for it (so
   a start refused before that left nothing), and its runner has logged only
   once its start was over (so an accepted start's sandbox is not empty). Gives
   `StartsAreUndone` and, with `MemoInv`, `RunnerTypeCorrect`, of which the number of
   instances up is the part that is not a type.

TLC has checked each of these invariants on the instance of its run before it was
proved. Each layer has one lemma per action that disturbs it, and the theorems
combine them with the invariance rule. `NoReservedDoc`, `HeroResolves`,
`NothingDropped`, `DeadUsedRetries`, `AckedWasAlerted` and `SettledStays` are
proved for all instances and no run repeats them; `CarriesOut` implies the last
two in the run WorkQueue.

Only model-checked are `EveryMessageSettles`, `SavesSettleOrStall`, `ModeReachesPanel`,
`EveryPictureIsShown`, `InstancesEnd` and `RequestEnds`: liveness under fairness is out
of the prover's reach.

## 5. Hazards

Each hazard with its line and the properties that watch it is in
`PROJECT.json`. Those not watched yet:

- Two updates of one post interleave `DELETE FROM post_categories` with their
  inserts: the result mixes both, or one fails on the primary key. The model
  has these behaviours; the code promises nothing against them.
- The file cache serves deleted bytes for a while: deliberate.
- `cleanupExpiredSessions` is never called, so abandoned sign-ins leave their rows.
- Two callbacks of one session that both find it before either drops it both sign
  their visitor in. `SessionsAreSpent` says that none is left to find after that.
- What the editor does without a promise against it, all behaviours of the
  model: a second create of a document whose first is in flight; a create that
  was aborted but stored, after which every save answers 409; an aborted save carried
  out after a later one was answered, so that "Saved" is not true; a
  restore or a delete carried out though its answer was an error or never came.
  (That a restore replaces what was typed meanwhile, and that the answer of a
  delete closes the document open by then, is what `TypedTextStays` allows, and all that it allows.)
- Of the frame: a block that does not render, and a page that a shrunken channel
  no longer has, keep the board where it is, as a page list of 8192 bytes does (the run
  FrameBoardHole shows the page without images only, and `Walkable` excludes all);
  a slug of 64 characters is saved and makes the board
  ignore the document; a tab that only switches modes saves the channel it once loaded.
- Pages of different ages, while channels are connected and disconnected: an entry
  may be missed or found too late, and blocks be answered twice or left out.
- A failing page behind the match in its own batch fails the lookup.
- A batch-mate of a poisonous message is retried, and dead-lettered, with it:
  the price of failing whole batches, which `AlertsBounded` prices exactly.
- A read of a secret whose request is cancelled while others await its promise.
- An instance that stays taken for good: `InstancesEnd` names the cases (`Stuck`), and
  a runner that waits for a job that never comes is not one of them.

## 6. The plan

Done: CmsTables, CmsStore; WorkQueue and the Courier it refines; Guestbook
composed with the queue; EditorSession; FrameBoard; ArenaContent; RunnerService
composed with SecretMemo; the theorems of all of them.

1. A registry of slugs that `CmsStore` refines, if it says more than the
   theorems of layer 2 do.

## 7. Not modelled

Pure reads (listings, feeds, summaries, usage reports), HTTP routing and headers,
rendering, the stateless proxies, the OAuth and OG code, weather, the
turbo cache (a put and a get), generated workflow files and the simulator: they
keep no state that two actors share. Of the Are.na client, the endpoints that
only forward a request, and its second try without a token, which no content route
uses. Most of the repository's lines are the components of
`packages/ui`, their stories and icons, and pages: presentation whose state is
one component's and whose steps are one visitor's, so they are not modelled
and the map covers a small share of all lines. Libraries
(better-auth, Tiptap, Effect) and services (D1, R2, Queues, Telegram, Fediverse
instances) appear only as the code uses them.
