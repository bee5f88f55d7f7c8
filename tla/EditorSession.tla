--------------------------- MODULE EditorSession ---------------------------
(***************************************************************************)
(* Camus, the editor of apps/editor/src: one author with one tab, and the  *)
(* calls it has under way.  A handler sends its call and returns; the      *)
(* author goes on, and the rest of the handler runs when the answer comes, *)
(* be it for a document that has been left (nothing cancels a call).  A    *)
(* fetch is aborted after REQUEST_TIMEOUT_MS, but only until the headers   *)
(* of the response are in: its body is then read without a limit.          *)
(*                                                                         *)
(* Abstractions.  The server is one atomic step per call, which may take   *)
(* effect and answer an error (as module CmsStore shows), or be taken      *)
(* after the fetch was aborted.  A document is its slug, and its fields,   *)
(* its categories and its body, each as the number of the edit that made   *)
(* it.  HistoryPanel's restoring flag binds nobody, for hiding and showing *)
(* the panel clears it.                                                    *)
(***************************************************************************)
EXTENDS Naturals, FiniteSets

CONSTANTS
  Slug,       \* slugs the author uses
  Stored,     \* those of the documents that exist at first
  MaxCalls,   \* bound: calls sent
  MaxEdits,   \* bound: edits other than of the slug
  MaxMounts,  \* bound: documents opened
  None        \* no slug, no document, no call

Call    == 1 .. MaxCalls
Version == 0 .. MaxEdits
Draft   == [slug : Slug \cup {None}, fields : Version, cats : Version, body : Version]
Content == {d \in Draft : d.slug # None}
Blank   == [slug |-> None, fields |-> 0, cats |-> 0, body |-> 0]

ASSUME SessionAssumption ==
  /\ Stored \subseteq Slug
  /\ MaxCalls \in Nat /\ MaxEdits \in Nat /\ MaxMounts \in Nat
  /\ None \notin Slug \cup Draft

VARIABLES
  view,       \* what the app shows: the list, a load, its failure, an editor
  mount,      \* how many documents have been opened
  draft,      \* fields(), selectedCategories() and the Tiptap document
  dirty,      \* handle.dirty(): the body changed
  savedSlug,  \* savedSlug(): None until the document exists
  saveState,  \* saveState().status
  edits,      \* the last number given to an edit
  sent,       \* the calls sent are 1 .. sent
  job,        \* what each call asks, and the mount that sent it
  fetch,      \* where the client is with it
  status,     \* whether the server has dealt with it, and how
  reply,      \* the document its answer carries
  stored,     \* the documents on the server, by slug
  past,       \* and their revisions
  latest,     \* history: the last call carried out on each document
  certain,    \* history: the author waited for every call, none took effect
              \* behind a later one to its document, and no restore or
              \* delete took effect without its answer
  shown       \* history: the documents the author was shown

page   == <<view, mount, draft, dirty, savedSlug, saveState>>
wire   == <<sent, job, fetch, status, reply>>
server == <<stored, past, latest>>
vars   == <<page, edits, wire, server, certain, shown>>

Op  == {"load", "create", "update", "delete", "restore"}
Job == [op : Op, mount : 1 .. MaxMounts, slug : Slug, input : Draft]

TypeOK ==
  /\ view \in {"list", "loading", "failed", "editing"}
  /\ mount \in 0 .. MaxMounts
  /\ draft \in Draft
  /\ dirty \in BOOLEAN
  /\ savedSlug \in Slug \cup {None}
  /\ saveState \in {"idle", "saving", "saved", "error"}
  /\ edits \in Version
  /\ sent \in 0 .. MaxCalls
  /\ job \in [Call -> Job \cup {None}]
  /\ fetch \in [Call -> {"unsent", "waiting", "reading", "done"}]
  /\ status \in [Call -> {"unsent", "pending", "ok", "error", "over"}]
  /\ reply \in [Call -> Content \cup {None}]
  /\ stored \in [Slug -> Content \cup {None}]
  /\ past \in [Slug -> SUBSET Content]
  /\ latest \in [Slug -> 0 .. sent]
  /\ certain \in BOOLEAN
  /\ shown \subseteq Slug

Seed(s) == [Blank EXCEPT !.slug = s]

Init ==
  /\ view = "list" /\ mount = 0
  /\ draft = Blank /\ dirty = FALSE /\ savedSlug = None /\ saveState = "idle"
  /\ edits = 0 /\ sent = 0
  /\ job = [c \in Call |-> None]
  /\ fetch = [c \in Call |-> "unsent"]
  /\ status = [c \in Call |-> "unsent"]
  /\ reply = [c \in Call |-> None]
  /\ stored = [s \in Slug |-> IF s \in Stored THEN Seed(s) ELSE None]
  /\ past = [s \in Slug |-> IF s \in Stored THEN {Seed(s)} ELSE {}]
  /\ latest = [s \in Slug |-> 0]
  /\ certain = TRUE
  /\ shown = {}

\* Every call sent has been answered or given up.  One given up may be on
\* its way to the server still.
Answered == \A c \in 1 .. sent : fetch[c] = "done"

\* The author does something.
Author == certain' = (certain /\ Answered) /\ UNCHANGED shown

Send(o, m, s, i) ==
  /\ sent < MaxCalls
  /\ sent' = sent + 1
  /\ job' = [job EXCEPT ![sent + 1] = [op |-> o, mount |-> m, slug |-> s, input |-> i]]
  /\ fetch' = [fetch EXCEPT ![sent + 1] = "waiting"]
  /\ status' = [status EXCEPT ![sent + 1] = "pending"]
  /\ UNCHANGED reply

\* An EditorBody that is mounted, or unmounted, starts from this.
Mounted(d, s) == draft' = d /\ dirty' = FALSE /\ savedSlug' = s /\ saveState' = "idle"

-----------------------------------------------------------------------------
(* The author: App, EditorView, HistoryPanel.                              *)

OpenNew ==
  /\ view = "list" /\ mount < MaxMounts
  /\ view' = "editing" /\ mount' = mount + 1
  /\ Mounted(Blank, None) /\ Author
  /\ UNCHANGED <<edits, wire, server>>

Open(s) ==
  /\ view = "list" /\ mount < MaxMounts
  /\ view' = "loading" /\ mount' = mount + 1
  /\ Send("load", mount + 1, s, Blank) /\ Author
  /\ UNCHANGED <<draft, dirty, savedSlug, saveState, edits, server>>

\* Back, confirmed if need be, or another tab of the app.
Leave ==
  /\ view # "list"
  /\ view' = "list" /\ Mounted(Blank, None) /\ Author
  /\ UNCHANGED <<mount, edits, wire, server>>

Edit(d) ==
  /\ view = "editing"
  /\ draft' = d /\ Author
  /\ UNCHANGED <<view, mount, savedSlug, wire, server>>

Type ==
  /\ edits < MaxEdits /\ edits' = edits + 1
  /\ Edit([draft EXCEPT !.body = edits + 1])
  /\ dirty' = TRUE
  /\ UNCHANGED saveState

\* Faulty variant: setField without setSaveState.
SetFieldQuietly ==
  /\ edits < MaxEdits /\ edits' = edits + 1
  /\ Edit([draft EXCEPT !.fields = edits + 1])
  /\ UNCHANGED <<dirty, saveState>>

SetField ==
  /\ edits < MaxEdits /\ edits' = edits + 1
  /\ Edit([draft EXCEPT !.fields = edits + 1])
  /\ saveState' = "idle"
  /\ UNCHANGED dirty

SetSlug(s) ==
  /\ draft.slug # s
  /\ Edit([draft EXCEPT !.slug = s])
  /\ saveState' = "idle"
  /\ UNCHANGED <<dirty, edits>>

ToggleCategory ==
  /\ edits < MaxEdits /\ edits' = edits + 1
  /\ Edit([draft EXCEPT !.cats = edits + 1])
  /\ UNCHANGED <<dirty, saveState>>

\* Faulty variant: the body counts as saved once it is sent.
SaveMarksClean ==
  /\ view = "editing" /\ saveState # "saving"
  /\ draft.slug # None
  /\ IF savedSlug = None THEN Send("create", mount, draft.slug, draft)
                         ELSE Send("update", mount, savedSlug, draft)
  /\ saveState' = "saving" /\ dirty' = FALSE /\ Author
  /\ UNCHANGED <<view, mount, draft, savedSlug, edits, server>>

\* Faulty variant: the update goes to the slug in the form.
SaveByField ==
  /\ view = "editing" /\ saveState # "saving"
  /\ draft.slug # None
  /\ Send(IF savedSlug = None THEN "create" ELSE "update", mount, draft.slug, draft)
  /\ saveState' = "saving" /\ Author
  /\ UNCHANGED <<view, mount, draft, dirty, savedSlug, edits, server>>

\* onSave.  The button is disabled while saveState is "saving".
Save ==
  /\ view = "editing" /\ saveState # "saving" /\ Author
  /\ UNCHANGED <<view, mount, draft, dirty, savedSlug, edits, server>>
  /\ \/ /\ draft.slug = None
        /\ saveState' = "error"
        /\ UNCHANGED wire
     \/ /\ draft.slug # None
        /\ saveState' = "saving"
        /\ IF savedSlug = None THEN Send("create", mount, draft.slug, draft)
                               ELSE Send("update", mount, savedSlug, draft)

Delete ==
  /\ view = "editing" /\ savedSlug # None
  /\ Send("delete", mount, savedSlug, Blank) /\ Author
  /\ UNCHANGED <<page, edits, server>>

Restore(v) ==
  /\ view = "editing" /\ savedSlug # None
  /\ Send("restore", mount, savedSlug, v) /\ Author
  /\ UNCHANGED <<page, edits, server>>

-----------------------------------------------------------------------------
(* The server.                                                             *)

\* Whether the api accepts the call, by slug: 404, and 409 or 400 for a slug.
Accepts(j) ==
  CASE j.op = "create"  -> stored[j.slug] = None
    [] j.op = "update"  -> stored[j.slug] # None /\ j.input.slug = j.slug
    [] j.op = "restore" -> stored[j.slug] # None /\ j.input \in past[j.slug]
    [] OTHER            -> stored[j.slug] # None

Write(j) ==
  CASE j.op = "load"   -> UNCHANGED <<stored, past>>
    [] j.op = "delete" -> /\ stored' = [stored EXCEPT ![j.slug] = None]
                          /\ past' = [past EXCEPT ![j.slug] = {}]
    [] OTHER           -> /\ stored' = [stored EXCEPT ![j.slug] = j.input]
                          /\ past' = [past EXCEPT ![j.slug] = @ \cup {j.input}]

\* What the answer carries: the document as it was read or written.
Reply(j) == IF j.op \in {"load", "delete"} THEN stored[j.slug] ELSE j.input

\* The call is over on both sides.
Forget(c) == status' = [status EXCEPT ![c] = "over"] /\ job' = [job EXCEPT ![c] = None]

\* Its answer is an error, or nobody waits for it.
Unanswered(c) ==
  /\ \/ fetch[c] = "done" /\ Forget(c)
     \/ fetch[c] # "done" /\ status' = [status EXCEPT ![c] = "error"] /\ UNCHANGED job
  /\ UNCHANGED reply

\* The author may read a restore or a delete that fails as one not done.
Replaces(c) == job[c].op \in {"delete", "restore"}

InOrder(c) == c >= latest[job[c].slug]

\* The call is served; or it is served and the answer is an error.
Serve(c) ==
  /\ status[c] = "pending"
  /\ Accepts(job[c]) /\ Write(job[c])
  /\ latest' = [latest EXCEPT ![job[c].slug] = IF InOrder(c) THEN c ELSE @]
  /\ \/ /\ status' = [status EXCEPT ![c] = "ok"]
        /\ reply' = [reply EXCEPT ![c] = Reply(job[c])]
        /\ fetch[c] = "waiting" /\ UNCHANGED job
        /\ certain' = (certain /\ InOrder(c))
     \/ /\ Unanswered(c)
        /\ certain' = (certain /\ InOrder(c) /\ ~Replaces(c))
  /\ UNCHANGED <<page, edits, sent, fetch, shown>>

\* It is refused, fails, or never reaches the server.
Decline(c) ==
  /\ status[c] = "pending"
  /\ Unanswered(c)
  /\ UNCHANGED <<page, edits, sent, fetch, server, certain, shown>>

-----------------------------------------------------------------------------
(* The client: requestJson, and the rest of the handlers.                  *)

\* The call is over on this side.
Settle(c) ==
  /\ fetch' = [fetch EXCEPT ![c] = "done"]
  /\ reply' = [reply EXCEPT ![c] = None]
  /\ \/ status[c] = "pending" /\ UNCHANGED <<status, job>>
     \/ status[c] # "pending" /\ Forget(c)

Current(c) == job[c].mount = mount /\ view \in {"loading", "editing"}

\* Faulty variant: the body is mounted with whatever the load answered.
MountAnyway(c) ==
  /\ Settle(c)
  /\ certain' = (certain /\ ~(Replaces(c) /\ status[c] = "ok"))
  /\ view' = IF Current(c) /\ job[c].op = "load" THEN "editing" ELSE view
  /\ draft' = IF Current(c) /\ job[c].op = "load" THEN reply[c] ELSE draft
  /\ UNCHANGED <<mount, dirty, savedSlug, saveState, edits, sent, server, shown>>

\* The catch of each handler.  A restore shows its error in the panel only.
HandlerFails(c) ==
  /\ Settle(c)
  /\ certain' = (certain /\ ~(Replaces(c) /\ status[c] = "ok"))
  /\ view' = IF Current(c) /\ job[c].op = "load" THEN "failed" ELSE view
  /\ saveState' = IF Current(c) /\ job[c].op \in {"create", "update", "delete"}
                  THEN "error" ELSE saveState
  /\ UNCHANGED <<mount, draft, dirty, savedSlug, edits, sent, server, shown>>

\* Faulty variant: only loads are aborted.
AbortLoad(c) == fetch[c] = "waiting" /\ job[c].op = "load" /\ HandlerFails(c)

\* The timer aborts the fetch, or the network fails it.
Abort(c) == fetch[c] = "waiting" /\ HandlerFails(c)

\* fetch resolves, which clears the timer: on an error status the handler
\* fails, else it reads the body.
Headers(c) ==
  /\ fetch[c] = "waiting"
  /\ \/ status[c] = "error" /\ HandlerFails(c)
     \/ /\ status[c] = "ok"
        /\ fetch' = [fetch EXCEPT ![c] = "reading"]
        /\ UNCHANGED <<page, edits, sent, job, status, reply, server, certain, shown>>

\* onRestored, and the load in EditorView.
Show(c) ==
  /\ Current(c) /\ view' = "editing"
  /\ draft' = reply[c] /\ dirty' = FALSE /\ savedSlug' = reply[c].slug
  /\ saveState' = IF job[c].op = "load" THEN "idle" ELSE "saved"
  /\ UNCHANGED mount

\* Faulty variant: a save puts the document it was answered into the form.
TakeReply(c) ==
  /\ Current(c) /\ dirty' = FALSE /\ savedSlug' = reply[c].slug /\ saveState' = "saved"
  /\ draft' = reply[c]
  /\ UNCHANGED <<view, mount>>

\* onSave.
MarkSaved(c) ==
  /\ Current(c) /\ dirty' = FALSE /\ savedSlug' = reply[c].slug /\ saveState' = "saved"
  /\ UNCHANGED <<view, mount, draft>>

\* onExit of the delete, whatever the app shows by now.
Exit == view' = "list" /\ Mounted(Blank, None) /\ UNCHANGED mount

HandlerGoesOn(c) ==
  /\ Settle(c)
  /\ \/ job[c].op = "delete" /\ Exit
     \/ job[c].op \in {"load", "restore"} /\ Show(c)
     \/ job[c].op \in {"create", "update"} /\ MarkSaved(c)
     \/ job[c].op # "delete" /\ ~Current(c) /\ UNCHANGED page
  /\ shown' = shown \cup {reply[c].slug}
  /\ UNCHANGED <<edits, sent, server, certain>>

\* The body is in, or its transfer breaks.
ReadBody(c) == fetch[c] = "reading" /\ (HandlerGoesOn(c) \/ HandlerFails(c))

-----------------------------------------------------------------------------
AuthorActs ==
  \/ OpenNew \/ Leave \/ Type \/ SetField \/ ToggleCategory \/ Save \/ Delete
  \/ \E s \in Slug : SetSlug(s) \/ (stored[s] # None /\ Open(s))
  \/ savedSlug # None /\ \E v \in past[savedSlug] : Restore(v)

CallGoesOn(c) == Serve(c) \/ Decline(c) \/ Abort(c) \/ Headers(c) \/ ReadBody(c)

Next == AuthorActs \/ \E c \in 1 .. sent : CallGoesOn(c)

\* Timers fire.  Nothing else is certain to happen: neither a network nor an
\* author owes the editor a step.
Spec == Init /\ [][Next]_vars /\ \A c \in Call : WF_vars(c <= sent /\ Abort(c))

-----------------------------------------------------------------------------
Editing == view = "editing" /\ savedSlug # None

\* An author who waits for each call to be answered or given up can trust
\* the missing "Unsaved changes" badge: a clean body is the one on the server
\* (markClean), whatever was refused, aborted or lost before, a save given up
\* and done late included.  Two cases are left out, which the editor cannot
\* see: a call done behind a later one to its document, and a restore or a
\* delete that is done though its answer was an error or never came.
CleanMeansStored ==
  certain /\ Answered /\ Editing /\ ~dirty =>
    stored[savedSlug] # None /\ stored[savedSlug].body = draft.body

\* And, but for the same two cases, the "Saved" badge: the fields, categories
\* aside, are on the server.
SavedMeansStored ==
  certain /\ Answered /\ Editing /\ saveState = "saved" =>
    /\ stored[savedSlug] # None
    /\ stored[savedSlug].fields = draft.fields
    /\ savedSlug = draft.slug

\* The editor only overwrites or deletes a document it has been shown: a
\* slug typed into the form never reaches another one (onSave, persist).
OthersUntouched ==
  [][\A s \in Slug : stored[s] # None /\ stored'[s] # stored[s] =>
       s \in shown]_vars

\* Text that no save has taken leaves the form only when the author leaves
\* it, or with the answer to a restore or a delete: no save, and no answer
\* that comes late to another document, takes it (onSave, onRestored).
TextStays ==
  dirty /\ draft'.body # draft.body =>
    \/ edits' > edits
    \/ view' = "list" /\ wire' = wire
    \/ \E c \in 1 .. sent : /\ fetch[c] = "reading" /\ fetch'[c] = "done"
                            /\ \/ job[c].op = "delete"
                               \/ job[c].op = "restore" /\ Current(c)
TypedTextStays == [][TextStays]_vars

\* data/api.ts: "Session requests never hang: abort slow fetches so the
\* shell always settles."
SavesSettle == saveState = "saving" ~> saveState # "saving"

\* What the timer does see to: the Save button comes back, or the headers of
\* the save's response are in and its body is still to come.
Stalled == \E c \in 1 .. sent : /\ fetch[c] = "reading" /\ job[c].mount = mount
                                /\ job[c].op \in {"create", "update"}
SavesSettleOrStall == saveState = "saving" ~> saveState # "saving" \/ Stalled

\* onBack asks "Discard unsaved changes?" unless the body is clean, which is
\* to say saved.  No call of this session is left on its way.
CleanBodyIsStored ==
  /\ Answered /\ \A c \in 1 .. sent : status[c] # "pending"
  /\ Editing /\ ~dirty /\ stored[savedSlug] # None
  => stored[savedSlug].body = draft.body

=============================================================================
