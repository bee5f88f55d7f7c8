------------------------ MODULE EditorSessionProofs ------------------------
(***************************************************************************)
(* What module EditorSession promises, for any slugs and any number of     *)
(* calls, edits and documents opened.  EditorInv is inductive.  CallOK     *)
(* and LoadsOK say what a call under way may rely on, and CertainOK why an *)
(* author who waits can trust the badges: while such an author waits one   *)
(* fetch is out, and FlightOK is what is known of it; LateOK says why the  *)
(* saves given up before it do no harm when they are done after all.       *)
(***************************************************************************)
EXTENDS EditorSession, TLAPS

Live(c) == status[c] \in {"pending", "ok", "error"}

\* A call asks for what the author saw when it was sent.
JobOK(j) ==
  /\ j \in Job
  /\ j.mount <= mount
  /\ j.op \in {"create", "update", "restore"} => j.input \in Content
  /\ j.op = "create" => j.input.slug = j.slug
  /\ j.op \in {"update", "delete", "restore"} => j.slug \in shown

CallOK(c) ==
  /\ c <= sent <=> status[c] # "unsent"
  /\ fetch[c] = "unsent" <=> status[c] = "unsent"
  /\ fetch[c] = "waiting" => Live(c)
  /\ fetch[c] = "reading" => status[c] = "ok"
  /\ fetch[c] = "done" => status[c] \in {"pending", "over"}
  /\ Live(c) => JobOK(job[c])
  /\ status[c] = "ok" => reply[c] \in Content /\ reply[c].slug = job[c].slug

ServerOK == \A s \in Slug : /\ stored[s] # None => stored[s].slug = s
                            /\ \A v \in past[s] : v.slug = s

PageOK ==
  /\ view # "list" => mount > 0
  /\ dirty => view = "editing"
  /\ savedSlug # None => savedSlug \in shown

Going(c) == Live(c) /\ fetch[c] # "done"

\* A load under way is for a document that is not shown yet, and nothing
\* else was asked for it.
LoadsOK ==
  \A c \in Call : Going(c) /\ job[c].op = "load" =>
    /\ job[c].mount = mount => view # "editing"
    /\ \A d \in Call \ {c} : Going(d) => job[d].mount # job[c].mount

BadgesOK ==
  Editing =>
    /\ ~dirty => stored[savedSlug] # None /\ stored[savedSlug].body = draft.body
    /\ saveState = "saved" => /\ stored[savedSlug] # None
                              /\ stored[savedSlug].fields = draft.fields
                              /\ savedSlug = draft.slug

\* A save that was given up and may still be done in order.
Late(c) ==
  /\ fetch[c] = "done" /\ status[c] = "pending"
  /\ job[c].op \in {"create", "update"} /\ job[c].slug = savedSlug
  /\ InOrder(c)

\* It carries the body of the form, unless the form says it is dirty.
LateOK ==
  Editing => \A c \in 1 .. sent : Late(c) => /\ ~dirty => job[c].input.body = draft.body
                                             /\ saveState # "saved"

\* The call is done, its answer is on its way, and the form is out of date.
Replaced(c) == fetch[c] # "done" /\ status[c] = "ok" /\ Replaces(c)

\* What a patient author's call finds when it is answered.
FlightOK(c) ==
  LET j == job[c]
  IN /\ status[c] = "ok" => /\ stored[j.slug] = (IF j.op = "delete" THEN None ELSE reply[c])
                            /\ latest[j.slug] = c
                            /\ j.op \in {"create", "update"} => reply[c] = j.input
     /\ j.op = "load" => view # "editing"
     /\ j.op # "load" => view = "editing" /\ j.mount = mount
     /\ j.op = "create" => savedSlug = None
     /\ j.op = "update" => savedSlug = j.slug /\ saveState # "saved"
     /\ j.op \in {"create", "update"} => j.input = draft

CertainOK ==
  certain =>
    /\ \A c \in 1 .. sent : c < sent => fetch[c] = "done"
    /\ LateOK
    /\ BadgesOK \/ (sent > 0 /\ Replaced(sent))
    /\ sent > 0 /\ fetch[sent] # "done" => FlightOK(sent)

EditorInv ==
  /\ TypeOK
  /\ \A c \in Call : CallOK(c)
  /\ ServerOK
  /\ PageOK
  /\ LoadsOK
  /\ CertainOK

-----------------------------------------------------------------------------
(* The author.                                                             *)

LEMMA InitEditor == Init => EditorInv
<1> SUFFICES ASSUME Init PROVE EditorInv OBVIOUS
<1> USE DEF Init
<1>1. \A s \in Slug : Seed(s) \in Content /\ Seed(s).slug = s
  BY SessionAssumption DEF Seed, Blank, Content, Draft, Version
<1>2. TypeOK
  <2>1. draft \in Draft BY SessionAssumption DEF Blank, Draft, Version
  <2>2. stored \in [Slug -> Content \cup {None}] /\ past \in [Slug -> SUBSET Content] BY <1>1
  <2>3. /\ job \in [Call -> Job \cup {None}] /\ reply \in [Call -> Content \cup {None}]
        /\ fetch \in [Call -> {"unsent", "waiting", "reading", "done"}]
        /\ status \in [Call -> {"unsent", "pending", "ok", "error", "over"}]
    OBVIOUS
  <2>4. mount \in 0 .. MaxMounts /\ sent \in 0 .. MaxCalls /\ edits \in Version
    BY SessionAssumption DEF Version
  <2>5. latest \in [Slug -> 0 .. sent] OBVIOUS
  <2> QED BY <2>1, <2>2, <2>3, <2>4, <2>5 DEF TypeOK
<1>3. \A c \in Call : CallOK(c) BY SessionAssumption DEF CallOK, Live, Call
<1>4. ServerOK BY <1>1 DEF ServerOK
<1>5. PageOK BY DEF PageOK
<1>6. LoadsOK BY DEF LoadsOK, Going, Live
<1>7. CertainOK BY DEF CertainOK, BadgesOK, LateOK, Editing
<1> QED BY <1>2, <1>3, <1>4, <1>5, <1>6, <1>7 DEF EditorInv

\* Who waits has no fetch out.
LEMMA PatientWait ==
  ASSUME EditorInv, certain, Answered
  PROVE  BadgesOK /\ LateOK
<1>1. sent > 0 => fetch[sent] = "done" BY DEF Answered, EditorInv, TypeOK
<1> QED BY <1>1 DEF EditorInv, CertainOK, Replaced

\* An action of the author that sends nothing.
LEMMA PageKeeps ==
  ASSUME EditorInv, Author, UNCHANGED wire, UNCHANGED server,
         TypeOK', PageOK',
         \/ mount' = mount /\ (view' = "editing" => view = "editing")
         \/ mount' = mount + 1,
         certain /\ Answered => BadgesOK' /\ LateOK'
  PROVE  EditorInv'
<1>1. /\ sent' = sent /\ job' = job /\ fetch' = fetch /\ status' = status /\ reply' = reply
      /\ stored' = stored /\ past' = past /\ latest' = latest /\ shown' = shown
      /\ certain' = (certain /\ Answered)
  BY DEF Author, wire, server
<1>2. mount \in Nat /\ mount <= mount' BY DEF EditorInv, TypeOK
<1>3. ASSUME NEW c \in Call PROVE CallOK(c)'
  <2>1. CallOK(c) BY DEF EditorInv
  <2>2. Live(c)' <=> Live(c) BY <1>1 DEF Live
  <2>3. Live(c) => JobOK(job[c])'
    <3>1. Live(c) => job[c].mount <= mount /\ job[c].mount \in Nat BY <2>1 DEF CallOK, JobOK, Job
    <3>2. Live(c) => job[c].mount <= mount' BY <3>1, <1>2 DEF EditorInv, TypeOK
    <3> QED BY <1>1, <2>1, <3>2 DEF CallOK, JobOK
  <2> QED BY <1>1, <2>1, <2>2, <2>3 DEF CallOK
<1>4. ServerOK' BY <1>1 DEF EditorInv, ServerOK
<1>5. LoadsOK'
  <2>1. \A c \in Call : Going(c)' <=> Going(c) BY <1>1 DEF Going, Live
  <2>2. \A c \in Call : Going(c) => job[c].mount <= mount /\ job[c].mount \in Nat
    BY DEF EditorInv, CallOK, Going, JobOK, Job
  <2>3. \A c \in Call : Going(c) /\ mount' = mount + 1 => job[c].mount # mount'
    BY <2>2, <1>2
  <2> QED BY <1>1, <2>1, <2>3 DEF LoadsOK, EditorInv
<1>6. CertainOK'
  <2>1. Answered => \A c \in 1 .. sent : fetch'[c] = "done" BY <1>1 DEF Answered
  <2>2. sent \in Nat BY DEF EditorInv, TypeOK
  <2>3. Answered /\ sent > 0 => fetch'[sent] = "done" BY <2>1, <2>2
  <2> QED BY <1>1, <2>1, <2>2, <2>3 DEF CertainOK
<1> QED BY <1>3, <1>4, <1>5, <1>6 DEF EditorInv

\* An action of the author that sends call k.
LEMMA SendKeeps ==
  ASSUME EditorInv, NEW k, k = sent + 1, NEW o \in Op, NEW m \in 1 .. MaxMounts,
         NEW s \in Slug, NEW i \in Draft, Send(o, m, s, i), Author, UNCHANGED server,
         \/ o = "load" /\ m = mount + 1 /\ mount' = mount + 1 /\ view' # "editing"
         \/ o # "load" /\ m = mount /\ mount' = mount /\ view = "editing",
         o \in {"create", "update", "restore"} => i \in Content,
         o = "create" => i.slug = s,
         o \in {"update", "delete", "restore"} => s \in shown,
         view' \in {"loading", "editing"}, draft' \in Draft, dirty' \in BOOLEAN,
         savedSlug' \in Slug \cup {None}, saveState' \in {"idle", "saving", "saved", "error"},
         edits' \in Version, PageOK',
         \/ view' # "editing"
         \/ /\ draft' = draft /\ dirty' = dirty /\ savedSlug' = savedSlug
            /\ view' = view /\ saveState' \in {saveState, "saving"},
         FlightOK(k)'
  PROVE  EditorInv'
<1> DEFINE j == [op |-> o, mount |-> m, slug |-> s, input |-> i]
<1>1. /\ sent < MaxCalls /\ sent' = k /\ reply' = reply
      /\ job' = [job EXCEPT ![k] = j]
      /\ fetch' = [fetch EXCEPT ![k] = "waiting"]
      /\ status' = [status EXCEPT ![k] = "pending"]
      /\ stored' = stored /\ past' = past /\ latest' = latest /\ shown' = shown
      /\ certain' = (certain /\ Answered)
  BY DEF Send, Author, server
<1>2. /\ j \in Job /\ j.op = o /\ j.mount = m /\ j.slug = s /\ j.input = i BY DEF Job
<1> HIDE DEF j
<1>3. k \in Call /\ sent \in Nat /\ mount \in Nat /\ mount' \in 0 .. MaxMounts /\ m <= mount'
  BY <1>1, SessionAssumption DEF EditorInv, TypeOK, Call
<1>4. \A d \in Call : /\ job'[d] = IF d = k THEN j ELSE job[d]
                      /\ fetch'[d] = IF d = k THEN "waiting" ELSE fetch[d]
                      /\ status'[d] = IF d = k THEN "pending" ELSE status[d]
  BY <1>1, <1>3 DEF EditorInv, TypeOK
<1>5. TypeOK'
  <2>1. /\ job' \in [Call -> Job \cup {None}]
        /\ fetch' \in [Call -> {"unsent", "waiting", "reading", "done"}]
        /\ status' \in [Call -> {"unsent", "pending", "ok", "error", "over"}]
    BY <1>1, <1>2 DEF EditorInv, TypeOK
  <2>2. sent' \in 0 .. MaxCalls BY <1>1, <1>3, SessionAssumption DEF Call
  <2>3. certain' \in BOOLEAN BY <1>1 DEF EditorInv, TypeOK, Answered
  <2>4. latest' \in [Slug -> 0 .. sent'] BY <1>1, <1>3 DEF EditorInv, TypeOK
  <2> QED BY <1>1, <1>3, <2>1, <2>2, <2>3, <2>4 DEF EditorInv, TypeOK
<1>6. ASSUME NEW d \in Call PROVE CallOK(d)'
  <2>1. CallOK(d) BY DEF EditorInv
  <2>2. d <= sent' <=> d <= sent \/ d = k BY <1>1, <1>3 DEF Call
  <2>3. CASE d = k
    <3>1. JobOK(job[d])' BY <1>1, <1>2, <1>3, <1>4, <2>3 DEF JobOK
    <3> QED BY <1>4, <2>2, <2>3, <3>1 DEF CallOK, Live
  <2>4. CASE d # k
    <3>1. Live(d)' <=> Live(d) BY <1>4, <2>4 DEF Live
    <3>2. Live(d) => JobOK(job[d])'
      <4>1. Live(d) => job[d].mount <= mount /\ job[d].mount \in Nat
        BY <2>1 DEF CallOK, JobOK, Job
      <4>2. Live(d) => job[d].mount <= mount' BY <4>1, <1>3
      <4> QED BY <1>1, <1>4, <2>1, <2>4, <4>2 DEF CallOK, JobOK
    <3> QED BY <1>1, <1>4, <2>1, <2>2, <2>4, <3>1, <3>2 DEF CallOK
  <2> QED BY <2>3, <2>4
<1>7. ServerOK' BY <1>1 DEF EditorInv, ServerOK
<1>8. LoadsOK'
  <2>1. \A d \in Call \ {k} : (Going(d)' <=> Going(d)) /\ job'[d] = job[d]
    BY <1>4 DEF Going, Live
  <2>2. \A d \in Call : Going(d) => job[d].mount <= mount /\ job[d].mount \in Nat
    BY DEF EditorInv, CallOK, Going, JobOK, Job
  <2>3. job'[k] = j BY <1>3, <1>4
  <2>4. CASE o = "load"
    <3>1. \A d \in Call \ {k} : Going(d)' => job'[d].mount # m /\ job'[d].mount # mount'
      BY <2>1, <2>2, <2>4, <1>3
    <3>2. \A d \in Call \ {k} : Going(d)' /\ job'[d].op = "load" =>
            \A e \in Call \ {d} : Going(e)' => job'[e].mount # job'[d].mount
      BY <2>1, <2>3, <3>1, <1>2 DEF EditorInv, LoadsOK
    <3> QED BY <2>3, <2>4, <3>1, <3>2, <1>2 DEF LoadsOK
  <2>5. CASE o # "load"
    <3>1. \A d \in Call \ {k} : Going(d)' /\ job'[d].op = "load" => job'[d].mount # mount
      BY <2>1, <2>5 DEF EditorInv, LoadsOK
    <3>2. \A d \in Call \ {k} : Going(d)' /\ job'[d].op = "load" =>
            \A e \in Call \ {d} : Going(e)' => job'[e].mount # job'[d].mount
      BY <2>1, <2>3, <2>5, <3>1, <1>2 DEF EditorInv, LoadsOK
    <3> QED BY <2>3, <2>5, <3>1, <3>2, <1>2 DEF LoadsOK
  <2> QED BY <2>4, <2>5
<1>9. CertainOK'
  <2> SUFFICES ASSUME certain, Answered
               PROVE  /\ \A d \in 1 .. sent' : d < sent' => fetch'[d] = "done"
                      /\ LateOK'
                      /\ BadgesOK'
                      /\ FlightOK(sent)'
    BY <1>1 DEF CertainOK
  <2>1. BadgesOK /\ LateOK BY PatientWait
  <2>2. \A d \in 1 .. sent' : d # k => d \in 1 .. sent /\ d \in Call
    BY <1>1, <1>3, SessionAssumption DEF Call
  <2>3. \A d \in 1 .. sent' : d < sent' => fetch'[d] = "done"
    BY <2>2, <1>1, <1>3, <1>4 DEF Answered
  <2>4. BadgesOK' BY <2>1, <1>1 DEF BadgesOK, Editing
  <2>5. ASSUME NEW d \in 1 .. sent', Late(d)', Editing'
        PROVE  (~dirty' => job'[d].input.body = draft'.body) /\ saveState' # "saved"
    <3>1. d # k BY <2>5, <1>3, <1>4 DEF Late
    <3>2. d \in 1 .. sent /\ job'[d] = job[d] /\ fetch'[d] = fetch[d] /\ status'[d] = status[d]
      BY <3>1, <2>2, <1>4
    <3>3. /\ draft' = draft /\ dirty' = dirty /\ savedSlug' = savedSlug /\ view' = view
          /\ saveState' \in {saveState, "saving"}
      BY <2>5 DEF Editing
    <3>4. Late(d) /\ Editing BY <2>5, <3>2, <3>3, <1>1 DEF Late, InOrder, Editing
    <3> QED BY <2>1, <3>2, <3>3, <3>4 DEF LateOK
  <2>6. LateOK' BY <2>5 DEF LateOK
  <2>7. FlightOK(sent)' BY <1>1 DEF FlightOK
  <2> QED BY <2>3, <2>4, <2>6, <2>7
<1> QED BY <1>5, <1>6, <1>7, <1>8, <1>9 DEF EditorInv

LEMMA BlankIsDraft == Blank \in Draft
BY SessionAssumption DEF Blank, Draft, Version

\* An action of the author on the page: what it leaves alone of the type.
LEMMA PageTyped ==
  ASSUME EditorInv, Author, UNCHANGED wire, UNCHANGED server,
         view' \in {"list", "loading", "failed", "editing"}, mount' \in 0 .. MaxMounts,
         draft' \in Draft, dirty' \in BOOLEAN, savedSlug' \in Slug \cup {None},
         saveState' \in {"idle", "saving", "saved", "error"}, edits' \in Version
  PROVE  TypeOK'
<1>1. /\ sent' = sent /\ job' = job /\ fetch' = fetch /\ status' = status /\ reply' = reply
      /\ stored' = stored /\ past' = past /\ latest' = latest /\ shown' = shown
  BY DEF Author, wire, server
<1>2. certain' \in BOOLEAN BY DEF Author, Answered, EditorInv, TypeOK
<1> QED BY <1>1, <1>2 DEF EditorInv, TypeOK

LEMMA OpenNewKeeps == ASSUME EditorInv, OpenNew PROVE EditorInv'
<1>1. /\ view' = "editing" /\ mount' = mount + 1 /\ mount < MaxMounts
      /\ draft' = Blank /\ dirty' = FALSE /\ savedSlug' = None /\ saveState' = "idle"
      /\ edits' = edits /\ Author /\ UNCHANGED wire /\ UNCHANGED server
  BY DEF OpenNew, Mounted
<1>2. mount' \in 0 .. MaxMounts /\ mount' > 0
  BY <1>1, SessionAssumption DEF EditorInv, TypeOK
<1>3. TypeOK' BY <1>1, <1>2, BlankIsDraft, PageTyped DEF EditorInv, TypeOK
<1>4. PageOK' BY <1>1, <1>2 DEF PageOK
<1>5. BadgesOK' /\ LateOK' BY <1>1 DEF BadgesOK, LateOK, Editing
<1> QED BY <1>1, <1>3, <1>4, <1>5, PageKeeps

LEMMA LeaveKeeps == ASSUME EditorInv, Leave PROVE EditorInv'
<1>1. /\ view' = "list" /\ mount' = mount
      /\ draft' = Blank /\ dirty' = FALSE /\ savedSlug' = None /\ saveState' = "idle"
      /\ edits' = edits /\ Author /\ UNCHANGED wire /\ UNCHANGED server
  BY DEF Leave, Mounted
<1>2. TypeOK' BY <1>1, BlankIsDraft, PageTyped DEF EditorInv, TypeOK
<1>3. PageOK' BY <1>1 DEF PageOK
<1>4. BadgesOK' /\ LateOK' BY <1>1 DEF BadgesOK, LateOK, Editing
<1> QED BY <1>1, <1>2, <1>3, <1>4, PageKeeps

\* An edit keeps what the badges claim, or takes the badge away.
LEMMA EditKeeps ==
  ASSUME EditorInv, NEW d \in Draft, Edit(d), edits' \in Version, dirty' \in BOOLEAN,
         saveState' \in {"idle", saveState},
         dirty => dirty',
         d.body = draft.body \/ dirty',
         (d.fields = draft.fields /\ d.slug = draft.slug) \/ saveState' = "idle"
  PROVE  EditorInv'
<1>1. /\ view = "editing" /\ view' = view /\ mount' = mount /\ savedSlug' = savedSlug
      /\ draft' = d /\ Author /\ UNCHANGED wire /\ UNCHANGED server
      /\ stored' = stored /\ latest' = latest /\ shown' = shown
      /\ sent' = sent /\ job' = job /\ fetch' = fetch /\ status' = status
  BY DEF Edit, Author, server, wire
<1>2. TypeOK' BY <1>1, PageTyped DEF EditorInv, TypeOK
<1>3. PageOK' BY <1>1 DEF EditorInv, PageOK
<1>4. ASSUME certain, Answered PROVE BadgesOK' /\ LateOK'
  <2>1. BadgesOK /\ LateOK BY <1>4, PatientWait
  <2>2. BadgesOK' BY <1>1, <2>1 DEF BadgesOK, Editing
  <2>3. LateOK' BY <1>1, <2>1 DEF LateOK, Late, InOrder, Editing
  <2> QED BY <2>2, <2>3
<1> QED BY <1>1, <1>2, <1>3, <1>4, PageKeeps

LEMMA EditsKeep ==
  ASSUME EditorInv, Type \/ SetField \/ ToggleCategory \/ \E s \in Slug : SetSlug(s)
  PROVE  EditorInv'
<1>1. /\ draft \in [slug : Slug \cup {None}, fields : Version, cats : Version, body : Version]
      /\ edits \in Version /\ dirty \in BOOLEAN
  BY DEF EditorInv, TypeOK, Draft
<1>2. edits < MaxEdits => edits + 1 \in Version BY <1>1, SessionAssumption DEF Version
<1>3. CASE Type
  <2> DEFINE d == [draft EXCEPT !.body = edits + 1]
  <2>1. edits < MaxEdits /\ edits' = edits + 1 /\ Edit(d) /\ dirty' = TRUE /\ saveState' = saveState
    BY <1>3 DEF Type
  <2>2. d \in Draft /\ d.fields = draft.fields /\ d.slug = draft.slug
    BY <1>1, <1>2, <2>1 DEF Draft
  <2> HIDE DEF d
  <2> QED BY <1>2, <2>1, <2>2, EditKeeps
<1>4. CASE SetField
  <2> DEFINE d == [draft EXCEPT !.fields = edits + 1]
  <2>1. edits < MaxEdits /\ edits' = edits + 1 /\ Edit(d) /\ dirty' = dirty /\ saveState' = "idle"
    BY <1>4 DEF SetField
  <2>2. d \in Draft /\ d.body = draft.body BY <1>1, <1>2, <2>1 DEF Draft
  <2> HIDE DEF d
  <2> QED BY <1>1, <1>2, <2>1, <2>2, EditKeeps
<1>5. CASE ToggleCategory
  <2> DEFINE d == [draft EXCEPT !.cats = edits + 1]
  <2>1. edits < MaxEdits /\ edits' = edits + 1 /\ Edit(d) /\ dirty' = dirty
        /\ saveState' = saveState
    BY <1>5 DEF ToggleCategory
  <2>2. d \in Draft /\ d.body = draft.body /\ d.fields = draft.fields /\ d.slug = draft.slug
    BY <1>1, <1>2, <2>1 DEF Draft
  <2> HIDE DEF d
  <2> QED BY <1>1, <1>2, <2>1, <2>2, EditKeeps
<1>6. ASSUME NEW s \in Slug, SetSlug(s) PROVE EditorInv'
  <2> DEFINE d == [draft EXCEPT !.slug = s]
  <2>1. Edit(d) /\ dirty' = dirty /\ saveState' = "idle" /\ edits' = edits BY <1>6 DEF SetSlug
  <2>2. d \in Draft /\ d.body = draft.body BY <1>1 DEF Draft
  <2> HIDE DEF d
  <2> QED BY <1>1, <2>1, <2>2, EditKeeps
<1> QED BY <1>3, <1>4, <1>5, <1>6

LEMMA OpenKeeps == ASSUME EditorInv, NEW s \in Slug, Open(s) PROVE EditorInv'
<1>1. PICK k : k = sent + 1 OBVIOUS
<1>2. /\ view' = "loading" /\ mount' = mount + 1 /\ mount < MaxMounts
      /\ Send("load", mount + 1, s, Blank) /\ Author /\ UNCHANGED server
      /\ view = "list" /\ draft' = draft /\ dirty' = dirty /\ savedSlug' = savedSlug
      /\ saveState' = saveState /\ edits' = edits /\ shown' = shown
  BY DEF Open, Author
<1>3. mount + 1 \in 1 .. MaxMounts BY <1>2, SessionAssumption DEF EditorInv, TypeOK
<1>4. PageOK' BY <1>2, <1>3 DEF EditorInv, PageOK
<1>5. FlightOK(k)'
  <2>1. k \in Call BY <1>1, <1>2, SessionAssumption DEF Send, EditorInv, TypeOK, Call
  <2>2. job'[k].op = "load" /\ status'[k] = "pending"
    BY <1>1, <1>2, <2>1 DEF Send, EditorInv, TypeOK
  <2> QED BY <1>2, <2>2 DEF FlightOK
<1> QED BY <1>1, <1>2, <1>3, <1>4, <1>5, BlankIsDraft, SendKeeps DEF EditorInv, TypeOK, Op

\* What an author who edits sends, and with what.
LEMMA EditorSends ==
  ASSUME EditorInv, view = "editing"
  PROVE  /\ mount \in 1 .. MaxMounts
         /\ savedSlug # None => savedSlug \in Slug /\ savedSlug \in shown
         /\ \A v : savedSlug # None /\ v \in past[savedSlug] => v \in Content /\ v \in Draft
BY SessionAssumption DEF EditorInv, PageOK, TypeOK, Content

\* The state of the call that was just sent.
LEMMA JustSent ==
  ASSUME EditorInv, NEW k, k = sent + 1, NEW o, NEW m, NEW s, NEW i, Send(o, m, s, i)
  PROVE  /\ job'[k].op = o /\ job'[k].mount = m /\ job'[k].slug = s /\ job'[k].input = i
         /\ status'[k] = "pending" /\ fetch'[k] = "waiting"
<1>1. k \in Call BY SessionAssumption DEF Send, EditorInv, TypeOK, Call
<1> QED BY <1>1 DEF Send, EditorInv, TypeOK

LEMMA SaveKeeps == ASSUME EditorInv, Save PROVE EditorInv'
<1>1. PICK k : k = sent + 1 OBVIOUS
<1>2. /\ view = "editing" /\ Author /\ UNCHANGED server
      /\ view' = view /\ mount' = mount /\ draft' = draft /\ dirty' = dirty
      /\ savedSlug' = savedSlug /\ edits' = edits /\ shown' = shown /\ stored' = stored
      /\ latest' = latest
  BY DEF Save, Author, server
<1>3. PageOK' BY <1>2 DEF EditorInv, PageOK
<1>4. CASE draft.slug = None /\ saveState' = "error" /\ UNCHANGED wire
  <2>1. TypeOK' BY <1>2, <1>4, PageTyped DEF EditorInv, TypeOK
  <2>2. ASSUME certain, Answered PROVE BadgesOK' /\ LateOK'
    <3>1. BadgesOK /\ LateOK BY <2>2, PatientWait
    <3>2. BadgesOK' BY <1>2, <1>4, <3>1 DEF BadgesOK, Editing
    <3>3. LateOK' BY <1>2, <1>4, <3>1 DEF LateOK, Late, InOrder, Editing, wire
    <3> QED BY <3>2, <3>3
  <2> QED BY <1>2, <1>3, <1>4, <2>1, <2>2, PageKeeps
<1>5. CASE /\ draft.slug # None /\ saveState' = "saving" /\ savedSlug = None
           /\ Send("create", mount, draft.slug, draft)
  <2>1. draft \in Content /\ draft \in Draft /\ draft.slug \in Slug
    BY <1>5 DEF EditorInv, TypeOK, Content, Draft
  <2>2. FlightOK(k)'
    <3>1. /\ job'[k].op = "create" /\ job'[k].mount = mount /\ job'[k].input = draft
          /\ status'[k] = "pending"
      BY <1>1, <1>5, JustSent
    <3> QED BY <1>2, <1>5, <3>1 DEF FlightOK
  <2> QED BY <1>1, <1>2, <1>3, <1>5, <2>1, <2>2, EditorSends, SendKeeps
          DEF EditorInv, TypeOK, Op
<1>6. CASE /\ draft.slug # None /\ saveState' = "saving" /\ savedSlug # None
           /\ Send("update", mount, savedSlug, draft)
  <2>1. draft \in Content /\ draft \in Draft BY <1>6 DEF EditorInv, TypeOK, Content
  <2>2. FlightOK(k)'
    <3>1. /\ job'[k].op = "update" /\ job'[k].mount = mount /\ job'[k].input = draft
          /\ job'[k].slug = savedSlug /\ status'[k] = "pending"
      BY <1>1, <1>6, JustSent
    <3> QED BY <1>2, <1>6, <3>1 DEF FlightOK
  <2> QED BY <1>1, <1>2, <1>3, <1>6, <2>1, <2>2, EditorSends, SendKeeps
          DEF EditorInv, TypeOK, Op
<1> QED BY <1>4, <1>5, <1>6 DEF Save

LEMMA DeleteKeeps == ASSUME EditorInv, Delete PROVE EditorInv'
<1>1. PICK k : k = sent + 1 OBVIOUS
<1>2. /\ view = "editing" /\ savedSlug # None
      /\ Send("delete", mount, savedSlug, Blank) /\ Author /\ UNCHANGED server
      /\ view' = view /\ mount' = mount /\ draft' = draft /\ dirty' = dirty
      /\ savedSlug' = savedSlug /\ saveState' = saveState /\ edits' = edits /\ shown' = shown
  BY DEF Delete, Author, page
<1>3. PageOK' BY <1>2 DEF EditorInv, PageOK
<1>4. FlightOK(k)'
  <2>1. /\ job'[k].op = "delete" /\ job'[k].mount = mount
        /\ status'[k] = "pending" /\ fetch'[k] = "waiting"
    BY <1>1, <1>2, JustSent
  <2> QED BY <1>2, <2>1 DEF FlightOK
<1> QED BY <1>1, <1>2, <1>3, <1>4, BlankIsDraft, EditorSends, SendKeeps
        DEF EditorInv, TypeOK, Op

LEMMA RestoreKeeps ==
  ASSUME EditorInv, savedSlug # None, NEW v \in past[savedSlug], Restore(v)
  PROVE  EditorInv'
<1>1. PICK k : k = sent + 1 OBVIOUS
<1>2. /\ view = "editing" /\ savedSlug # None
      /\ Send("restore", mount, savedSlug, v) /\ Author /\ UNCHANGED server
      /\ view' = view /\ mount' = mount /\ draft' = draft /\ dirty' = dirty
      /\ savedSlug' = savedSlug /\ saveState' = saveState /\ edits' = edits /\ shown' = shown
  BY DEF Restore, Author, page
<1>3. PageOK' BY <1>2 DEF EditorInv, PageOK
<1>4. FlightOK(k)'
  <2>1. /\ job'[k].op = "restore" /\ job'[k].mount = mount
        /\ status'[k] = "pending" /\ fetch'[k] = "waiting"
    BY <1>1, <1>2, JustSent
  <2> QED BY <1>2, <2>1 DEF FlightOK
<1> QED BY <1>1, <1>2, <1>3, <1>4, EditorSends, SendKeeps DEF EditorInv, TypeOK, Op

LEMMA AuthorKeeps == ASSUME EditorInv, AuthorActs PROVE EditorInv'
BY OpenNewKeeps, LeaveKeeps, EditsKeep, OpenKeeps, SaveKeeps, DeleteKeeps, RestoreKeeps
   DEF AuthorActs

-----------------------------------------------------------------------------
(* The server and the client.                                              *)

\* What a step of call c leaves alone.
CallFootprint(c) ==
  /\ sent' = sent /\ mount' = mount /\ shown \subseteq shown'
  /\ \A d \in Call \ {c} : /\ job'[d] = job[d] /\ fetch'[d] = fetch[d]
                           /\ status'[d] = status[d] /\ reply'[d] = reply[d]

\* Under a patient author only the last fetch is out.
LEMMA Alone ==
  ASSUME EditorInv, certain, NEW c \in 1 .. sent, fetch[c] # "done"
  PROVE  c = sent /\ sent > 0 /\ FlightOK(c)
<1>1. sent \in Nat BY DEF EditorInv, TypeOK
<1> QED BY <1>1 DEF EditorInv, CertainOK

\* What is left to show of a step of call c: its own part, and the badges.
LEMMA CallKeeps ==
  ASSUME EditorInv, NEW c \in 1 .. sent, CallFootprint(c),
         TypeOK', CallOK(c)', ServerOK', PageOK',
         Going(c)' => Going(c) /\ job'[c] = job[c],
         \/ view' = "editing" => view = "editing"
         \/ Going(c) /\ ~Going(c)' /\ job[c].mount = mount,
         fetch[c] = "done" => fetch'[c] = "done",
         certain' => certain /\ LateOK' /\ (BadgesOK' \/ Replaced(sent)'),
         certain' /\ fetch'[sent] # "done" => FlightOK(sent)'
  PROVE  EditorInv'
<1>1. sent \in Nat /\ c \in Call BY SessionAssumption DEF EditorInv, TypeOK, Call
<1>2. ASSUME NEW d \in Call PROVE CallOK(d)'
  <2>1. CASE d = c BY <2>1
  <2>2. CASE d # c
    <3>1. /\ job'[d] = job[d] /\ fetch'[d] = fetch[d] /\ status'[d] = status[d]
          /\ reply'[d] = reply[d] /\ sent' = sent /\ mount' = mount /\ shown \subseteq shown'
      BY <2>2 DEF CallFootprint
    <3>2. CallOK(d) BY DEF EditorInv
    <3>3. (Live(d)' <=> Live(d)) /\ (Live(d) => JobOK(job[d])')
      BY <3>1, <3>2 DEF CallOK, Live, JobOK
    <3> QED BY <3>1, <3>2, <3>3 DEF CallOK
  <2> QED BY <2>1, <2>2
<1>3. LoadsOK'
  <2>1. \A d \in Call \ {c} : (Going(d)' <=> Going(d)) /\ job'[d] = job[d]
    BY DEF CallFootprint, Going, Live
  <2>2. \A d \in Call : Going(d)' => Going(d) /\ job'[d] = job[d] BY <2>1
  <2>3. ASSUME NEW d \in Call, Going(d)', job'[d].op = "load", job'[d].mount = mount',
               view' = "editing"
        PROVE  FALSE
    <3>1. Going(d) /\ job[d].op = "load" /\ job[d].mount = mount
      BY <2>2, <2>3 DEF CallFootprint
    <3>2. view # "editing" BY <3>1 DEF EditorInv, LoadsOK
    <3>3. Going(c) /\ ~Going(c)' /\ job[c].mount = mount BY <2>3, <3>2
    <3>4. d # c BY <2>3, <3>3
    <3> QED BY <1>1, <3>1, <3>3, <3>4 DEF EditorInv, LoadsOK
  <2>4. ASSUME NEW d \in Call, Going(d)', job'[d].op = "load", NEW e \in Call \ {d}, Going(e)'
        PROVE  job'[e].mount # job'[d].mount
    BY <2>2, <2>4 DEF EditorInv, LoadsOK
  <2> QED BY <2>3, <2>4 DEF LoadsOK
<1>4. CertainOK'
  <2> SUFFICES ASSUME certain'
               PROVE  \A d \in 1 .. sent' : d < sent' => fetch'[d] = "done"
    BY <1>1 DEF CertainOK, CallFootprint
  <2> SUFFICES ASSUME NEW d \in 1 .. sent, d < sent PROVE fetch'[d] = "done"
    BY DEF CallFootprint
  <2>1. fetch[d] = "done" BY DEF EditorInv, CertainOK
  <2>2. d \in Call BY <1>1, SessionAssumption DEF EditorInv, TypeOK, Call
  <2> QED BY <2>1, <2>2 DEF CallFootprint
<1> QED BY <1>2, <1>3, <1>4 DEF EditorInv

\* What a call that is pending may do to the server.
LEMMA WriteOK ==
  ASSUME EditorInv, NEW j, JobOK(j), Accepts(j), Write(j)
  PROVE  /\ stored' \in [Slug -> Content \cup {None}] /\ past' \in [Slug -> SUBSET Content]
         /\ ServerOK'
         /\ Reply(j) \in Content /\ Reply(j).slug = j.slug
         /\ stored'[j.slug] = IF j.op = "delete" THEN None ELSE Reply(j)
         /\ j.op \in {"create", "update"} => Reply(j) = j.input
         /\ \A s \in Slug : stored'[s] # stored[s] => s = j.slug /\ j.op # "load"
         /\ j.op \in {"update", "delete", "restore"} \/ stored[j.slug] = None \/ j.op = "load"
<1>1. /\ j.slug \in Slug /\ j.op \in Op
      /\ stored \in [Slug -> Content \cup {None}] /\ past \in [Slug -> SUBSET Content]
  BY DEF JobOK, Job, EditorInv, TypeOK
<1>2. CASE j.op = "load"
  <2>1. stored[j.slug] # None /\ stored' = stored /\ past' = past /\ Reply(j) = stored[j.slug]
    BY <1>2 DEF Accepts, Write, server, Reply
  <2> QED BY <1>1, <1>2, <2>1 DEF EditorInv, ServerOK
<1>3. CASE j.op = "delete"
  <2>1. /\ stored[j.slug] # None /\ Reply(j) = stored[j.slug]
        /\ stored' = [stored EXCEPT ![j.slug] = None]
        /\ past' = [past EXCEPT ![j.slug] = {}]
    BY <1>3 DEF Accepts, Write, Reply
  <2>2. \A s \in Slug : /\ stored'[s] = IF s = j.slug THEN None ELSE stored[s]
                        /\ past'[s] = IF s = j.slug THEN {} ELSE past[s]
    BY <1>1, <2>1
  <2>3. ServerOK' BY <2>2 DEF EditorInv, ServerOK
  <2> QED BY <1>1, <1>3, <2>1, <2>2, <2>3 DEF EditorInv, ServerOK
<1>4. CASE j.op \in {"create", "update", "restore"}
  <2>1. /\ stored' = [stored EXCEPT ![j.slug] = j.input]
        /\ past' = [past EXCEPT ![j.slug] = @ \cup {j.input}]
        /\ Reply(j) = j.input
    BY <1>4 DEF Write, Reply
  <2>2. j.input \in Content /\ j.input.slug = j.slug
    BY <1>1, <1>4 DEF JobOK, Accepts, EditorInv, ServerOK
  <2>3. \A s \in Slug : /\ stored'[s] = IF s = j.slug THEN j.input ELSE stored[s]
                        /\ past'[s] = IF s = j.slug THEN past[s] \cup {j.input} ELSE past[s]
    BY <1>1, <2>1
  <2>4. ServerOK'
    <3>1. \A s \in Slug : stored'[s] # None => stored'[s].slug = s
      BY <2>2, <2>3 DEF EditorInv, ServerOK
    <3>2. \A s \in Slug : \A v \in past'[s] : v \in past[s] \/ (s = j.slug /\ v = j.input)
      BY <2>3
    <3>3. \A s \in Slug : \A v \in past'[s] : v.slug = s
      BY <2>2, <3>2 DEF EditorInv, ServerOK
    <3> QED BY <3>1, <3>3 DEF ServerOK
  <2>5. stored' \in [Slug -> Content \cup {None}] /\ past' \in [Slug -> SUBSET Content]
    BY <1>1, <2>1, <2>2
  <2>6. j.op = "create" => stored[j.slug] = None BY DEF Accepts
  <2> QED BY <1>1, <1>4, <2>1, <2>2, <2>3, <2>4, <2>5, <2>6
<1> QED BY <1>1, <1>2, <1>3, <1>4 DEF Op

\* The answer to a call is lost, or given to nobody.
LEMMA UnansweredFacts ==
  ASSUME EditorInv, NEW c \in Call, status[c] = "pending", Unanswered(c)
  PROVE  /\ job' \in [Call -> Job \cup {None}]
         /\ status' \in [Call -> {"unsent", "pending", "ok", "error", "over"}]
         /\ reply' = reply
         /\ \A d \in Call \ {c} : job'[d] = job[d] /\ status'[d] = status[d]
         /\ \/ fetch[c] = "done" /\ status'[c] = "over"
            \/ fetch[c] # "done" /\ status'[c] = "error" /\ job'[c] = job[c]
BY DEF Unanswered, Forget, EditorInv, TypeOK

\* A call that is served, in the order the author sent it, does not belie
\* what a patient author sees.
LEMMA ServeBadges ==
  ASSUME EditorInv, NEW c \in 1 .. sent, Serve(c), certain'
  PROVE  /\ certain /\ LateOK' /\ (BadgesOK' \/ Replaced(sent)')
         /\ fetch[sent] # "done" => FlightOK(sent)'
<1> DEFINE j == job[c]
<1>1. /\ status[c] = "pending" /\ Accepts(j) /\ Write(j)
      /\ view' = view /\ mount' = mount /\ draft' = draft /\ dirty' = dirty
      /\ savedSlug' = savedSlug /\ saveState' = saveState
      /\ sent' = sent /\ fetch' = fetch
      /\ certain /\ c >= latest[j.slug]
      /\ latest' = [latest EXCEPT ![j.slug] = IF c >= latest[j.slug] THEN c ELSE @]
  BY DEF Serve, page, InOrder
<1>2. c \in Call /\ sent \in Nat /\ sent \in 1 .. sent /\ sent \in Call
  BY SessionAssumption DEF EditorInv, TypeOK, Call
<1>3. CallOK(c) /\ JobOK(j) /\ fetch[c] \in {"waiting", "done"}
  BY <1>1, <1>2 DEF EditorInv, CallOK, Live, TypeOK
<1>4. /\ \A s \in Slug : stored'[s] # stored[s] => s = j.slug /\ j.op # "load"
      /\ stored'[j.slug] = IF j.op = "delete" THEN None ELSE Reply(j)
      /\ Reply(j) \in Content
      /\ j.op \in {"create", "update"} => Reply(j) = j.input
      /\ j.op \in Op /\ j.slug \in Slug
  BY <1>1, <1>3, WriteOK DEF JobOK, Job
<1>5. \A s \in Slug : /\ latest[s] \in Nat
                      /\ latest'[s] = IF s = j.slug THEN c ELSE latest[s]
  BY <1>1, <1>4 DEF EditorInv, TypeOK
<1>6. \/ /\ fetch[c] = "waiting" /\ status'[c] = "ok" /\ job'[c] = j /\ reply'[c] = Reply(j)
         /\ \A d \in Call \ {c} : /\ job'[d] = job[d] /\ status'[d] = status[d]
                                  /\ reply'[d] = reply[d]
      \/ /\ status'[c] \in {"error", "over"} /\ ~Replaces(c)
         /\ fetch[c] # "done" => status'[c] = "error" /\ job'[c] = j
         /\ \A d \in Call \ {c} : /\ job'[d] = job[d] /\ status'[d] = status[d]
                                  /\ reply'[d] = reply[d]
  <2>1. CASE /\ status' = [status EXCEPT ![c] = "ok"]
             /\ reply' = [reply EXCEPT ![c] = Reply(j)]
             /\ fetch[c] = "waiting" /\ job' = job
    BY <1>2, <2>1 DEF EditorInv, TypeOK
  <2>2. CASE Unanswered(c) /\ certain' = (certain /\ InOrder(c) /\ ~Replaces(c))
    BY <1>1, <1>2, <2>2, UnansweredFacts
  <2> QED BY <2>1, <2>2 DEF Serve
<1>7. \A d \in Call \ {c} : job'[d] = job[d] /\ status'[d] = status[d] /\ reply'[d] = reply[d]
  BY <1>6
<1>8. status'[c] # "pending" BY <1>6
<1>9. CertainOK BY DEF EditorInv
<1> HIDE DEF j
<1>10. LateOK'
  <2> SUFFICES ASSUME Editing', NEW d \in 1 .. sent, Late(d)'
               PROVE  (~dirty => job'[d].input.body = draft.body) /\ saveState # "saved"
    BY <1>1 DEF LateOK
  <2>1. d # c BY <1>8 DEF Late
  <2>2. d \in Call /\ d \in Nat BY <1>2, SessionAssumption DEF Call, EditorInv, TypeOK
  <2>3. job'[d] = job[d] /\ status'[d] = status[d] BY <1>7, <2>1, <2>2
  <2>4. savedSlug \in Slug /\ Editing BY <1>1 DEF Editing, EditorInv, TypeOK
  <2>5. job[d].slug = savedSlug /\ d >= latest'[savedSlug]
    BY <1>1, <2>3 DEF Late, InOrder
  <2>6. d >= latest[savedSlug]
    BY <2>2, <2>4, <2>5, <1>1, <1>2, <1>5 DEF Call
  <2>7. Late(d) BY <1>1, <2>3, <2>5, <2>6 DEF Late, InOrder
  <2> QED BY <1>1, <1>9, <2>3, <2>4, <2>7 DEF CertainOK, LateOK
<1>11. BadgesOK' \/ Replaced(sent)'
  <2>1. CASE ~BadgesOK
    <3>1. Replaced(sent) BY <1>1, <1>9, <2>1 DEF CertainOK
    <3>2. sent # c BY <1>1, <3>1 DEF Replaced
    <3>3. job'[sent] = job[sent] /\ status'[sent] = status[sent] BY <1>2, <1>7, <3>2
    <3> QED BY <1>1, <3>1, <3>3 DEF Replaced, Replaces
  <2>2. CASE BadgesOK /\ ~Editing BY <1>1, <2>2 DEF BadgesOK, Editing
  <2>3. CASE BadgesOK /\ Editing /\ (j.slug # savedSlug \/ j.op = "load")
    <3>1. savedSlug \in Slug BY <2>3 DEF Editing, EditorInv, TypeOK
    <3>2. stored'[savedSlug] = stored[savedSlug] BY <1>4, <2>3, <3>1
    <3> QED BY <1>1, <2>3, <3>2 DEF BadgesOK, Editing
  <2>4. CASE j.op \in {"delete", "restore"}
    <3>1. fetch[c] = "waiting" /\ status'[c] = "ok" /\ job'[c] = j
      BY <1>6, <2>4 DEF Replaces, j
    <3>2. c = sent BY <1>1, <3>1, Alone
    <3> QED BY <1>1, <2>4, <3>1, <3>2 DEF Replaced, Replaces
  <2>5. CASE Editing /\ j.slug = savedSlug /\ j.op \in {"create", "update"}
    <3>1. (~dirty => j.input.body = draft.body) /\ saveState # "saved"
      <4>1. CASE fetch[c] = "done"
        <5>1. Late(c) BY <1>1, <2>5, <4>1 DEF Late, InOrder, j
        <5> QED BY <1>1, <1>9, <2>5, <5>1 DEF CertainOK, LateOK, j
      <4>2. CASE fetch[c] # "done"
        <5>1. FlightOK(c) BY <1>1, <4>2, Alone
        <5> QED BY <2>5, <5>1 DEF FlightOK, Editing, j
      <4> QED BY <4>1, <4>2
    <3>2. stored'[savedSlug] = j.input /\ j.input # None
      BY <1>4, <2>5, SessionAssumption DEF Content
    <3> QED BY <1>1, <3>1, <3>2 DEF BadgesOK
  <2> QED BY <1>4, <2>1, <2>2, <2>3, <2>4, <2>5 DEF Op
<1>12. ASSUME fetch[sent] # "done" PROVE FlightOK(sent)'
  <2>1. FlightOK(sent) BY <1>1, <1>2, <1>12, Alone
  <2>2. CASE c = sent
    <3>1. job'[c] = j BY <1>6, <1>12, <2>2
    <3>2. status'[c] = "ok" => reply'[c] = Reply(j) BY <1>6
    <3> QED BY <1>1, <1>4, <1>5, <2>1, <2>2, <3>1, <3>2 DEF FlightOK, j
  <2>3. CASE c # sent
    <3>1. /\ job'[sent] = job[sent] /\ status'[sent] = status[sent]
          /\ reply'[sent] = reply[sent]
      BY <1>2, <1>7, <2>3
    <3>2. ASSUME status[sent] = "ok"
          PROVE  /\ stored'[job[sent].slug] = stored[job[sent].slug]
                 /\ latest'[job[sent].slug] = latest[job[sent].slug]
      <4>1. latest[job[sent].slug] = sent BY <2>1, <3>2 DEF FlightOK
      <4>2. job[sent].slug \in Slug
        BY <1>2, <3>2 DEF EditorInv, CallOK, Live, JobOK, Job
      <4>3. j.slug # job[sent].slug BY <1>1, <1>2, <2>3, <4>1 DEF Call
      <4> QED BY <1>4, <1>5, <4>2, <4>3
    <3> QED BY <1>1, <2>1, <3>1, <3>2 DEF FlightOK
  <2> QED BY <2>2, <2>3
<1> QED BY <1>1, <1>10, <1>11, <1>12

LEMMA ServeKeeps == ASSUME EditorInv, NEW c \in 1 .. sent, Serve(c) PROVE EditorInv'
<1>1. /\ status[c] = "pending" /\ Accepts(job[c]) /\ Write(job[c])
      /\ view' = view /\ mount' = mount /\ draft' = draft /\ dirty' = dirty
      /\ savedSlug' = savedSlug /\ saveState' = saveState /\ edits' = edits
      /\ sent' = sent /\ fetch' = fetch /\ shown' = shown
      /\ latest' = [latest EXCEPT ![job[c].slug] = IF InOrder(c) THEN c ELSE @]
  BY DEF Serve, page
<1>2. c \in Call /\ c <= sent BY SessionAssumption DEF EditorInv, TypeOK, Call
<1>3. CallOK(c) /\ JobOK(job[c]) /\ Live(c) /\ fetch[c] \in {"waiting", "done"}
  BY <1>1, <1>2 DEF EditorInv, CallOK, Live, TypeOK
<1> DEFINE j == job[c]
           r == Reply(j)
<1>4. /\ stored' \in [Slug -> Content \cup {None}] /\ past' \in [Slug -> SUBSET Content]
      /\ ServerOK'
      /\ r \in Content /\ r.slug = j.slug
  BY <1>1, <1>3, WriteOK
<1>5. PageOK' BY <1>1 DEF EditorInv, PageOK
<1>6. latest' \in [Slug -> 0 .. sent']
  <2>1. c \in 0 .. sent /\ latest \in [Slug -> 0 .. sent] BY DEF EditorInv, TypeOK
  <2>2. (IF InOrder(c) THEN c ELSE latest[j.slug]) \in 0 .. sent
    BY <1>3, <2>1 DEF JobOK, Job
  <2> QED BY <1>1, <2>1, <2>2
<1>7. certain' \in BOOLEAN BY DEF Serve, EditorInv, TypeOK, InOrder, Replaces
<1>8. /\ certain' => certain /\ LateOK' /\ (BadgesOK' \/ Replaced(sent)')
      /\ certain' /\ fetch'[sent] # "done" => FlightOK(sent)'
  BY <1>1, ServeBadges
<1>9. CASE /\ status' = [status EXCEPT ![c] = "ok"] /\ reply' = [reply EXCEPT ![c] = r]
           /\ fetch[c] = "waiting" /\ job' = job
  <2>1. TypeOK' BY <1>1, <1>4, <1>6, <1>7, <1>9 DEF EditorInv, TypeOK
  <2>2. status'[c] = "ok" /\ reply'[c] = r /\ job'[c] = j BY <1>2, <1>9 DEF EditorInv, TypeOK
  <2>3. CallFootprint(c) BY <1>1, <1>9 DEF CallFootprint, EditorInv, TypeOK
  <2>4. CallOK(c)' BY <1>1, <1>2, <1>3, <1>4, <1>9, <2>2 DEF CallOK, Live, JobOK
  <2>5. Going(c) BY <1>3, <1>9 DEF Going
  <2> QED BY <1>1, <1>4, <1>5, <1>8, <1>9, <2>1, <2>3, <2>4, <2>5, CallKeeps
<1>10. CASE Unanswered(c)
  <2>1. /\ job' \in [Call -> Job \cup {None}]
        /\ status' \in [Call -> {"unsent", "pending", "ok", "error", "over"}]
        /\ reply' = reply
        /\ \A d \in Call \ {c} : job'[d] = job[d] /\ status'[d] = status[d]
        /\ \/ fetch[c] = "done" /\ status'[c] = "over"
           \/ fetch[c] # "done" /\ status'[c] = "error" /\ job'[c] = job[c]
    BY <1>1, <1>2, <1>10, UnansweredFacts
  <2>2. TypeOK' BY <1>1, <1>4, <1>6, <1>7, <2>1 DEF EditorInv, TypeOK
  <2>3. CallFootprint(c) BY <1>1, <2>1 DEF CallFootprint
  <2>4. CallOK(c)' BY <1>1, <1>2, <1>3, <2>1 DEF CallOK, Live, JobOK
  <2>5. Going(c)' => Going(c) /\ job'[c] = job[c] BY <1>1, <1>3, <2>1 DEF Going, Live
  <2> QED BY <1>1, <1>4, <1>5, <1>8, <2>2, <2>3, <2>4, <2>5, CallKeeps
<1> QED BY <1>9, <1>10 DEF Serve

LEMMA DeclineKeeps == ASSUME EditorInv, NEW c \in 1 .. sent, Decline(c) PROVE EditorInv'
<1>1. /\ status[c] = "pending" /\ Unanswered(c)
      /\ view' = view /\ mount' = mount /\ draft' = draft /\ dirty' = dirty
      /\ savedSlug' = savedSlug /\ saveState' = saveState /\ edits' = edits
      /\ sent' = sent /\ fetch' = fetch /\ certain' = certain /\ shown' = shown
      /\ stored' = stored /\ past' = past /\ latest' = latest
  BY DEF Decline, page, server
<1>2. /\ c \in Call /\ c <= sent /\ sent \in Call /\ sent \in 1 .. sent
  BY SessionAssumption DEF EditorInv, TypeOK, Call
<1>3. CallOK(c) /\ Live(c) /\ fetch[c] \in {"waiting", "done"} /\ job[c].op \in Op
  BY <1>1, <1>2 DEF EditorInv, CallOK, Live, TypeOK, JobOK, Job
<1>4. /\ job' \in [Call -> Job \cup {None}]
      /\ status' \in [Call -> {"unsent", "pending", "ok", "error", "over"}]
      /\ reply' = reply
      /\ \A d \in Call \ {c} : job'[d] = job[d] /\ status'[d] = status[d]
      /\ \/ fetch[c] = "done" /\ status'[c] = "over"
         \/ fetch[c] # "done" /\ status'[c] = "error" /\ job'[c] = job[c]
  BY <1>1, <1>2, UnansweredFacts
<1>5. TypeOK' BY <1>1, <1>4 DEF EditorInv, TypeOK
<1>6. CallFootprint(c) BY <1>1, <1>4 DEF CallFootprint
<1>7. CallOK(c)' BY <1>1, <1>2, <1>3, <1>4 DEF CallOK, Live, JobOK
<1>8. Going(c)' => Going(c) /\ job'[c] = job[c] BY <1>1, <1>3, <1>4 DEF Going, Live
<1>9. PageOK' /\ ServerOK' BY <1>1 DEF EditorInv, PageOK, ServerOK
<1>10. ASSUME certain PROVE LateOK' /\ (BadgesOK' \/ Replaced(sent)')
  <2>1. LateOK /\ (BadgesOK \/ Replaced(sent)) BY <1>10 DEF EditorInv, CertainOK
  <2>2. BadgesOK => BadgesOK' BY <1>1 DEF BadgesOK, Editing
  <2>3. Replaced(sent) => Replaced(sent)' BY <1>1, <1>2, <1>4 DEF Replaced, Replaces
  <2>4. ASSUME NEW d \in 1 .. sent, Late(d)' PROVE Late(d) /\ job'[d] = job[d]
    <3>1. d # c BY <1>4, <2>4 DEF Late
    <3>2. d \in Call BY SessionAssumption DEF EditorInv, TypeOK, Call
    <3>3. job'[d] = job[d] /\ status'[d] = status[d] BY <1>4, <3>1, <3>2
    <3> QED BY <1>1, <2>4, <3>3 DEF Late, InOrder
  <2>5. LateOK' BY <1>1, <2>1, <2>4 DEF LateOK, Editing
  <2> QED BY <2>1, <2>2, <2>3, <2>5
<1>11. ASSUME certain, fetch[sent] # "done" PROVE FlightOK(sent)'
  <2>1. FlightOK(sent) BY <1>2, <1>11, Alone
  <2>2. job'[sent] = job[sent] /\ (status'[sent] = "ok" => status[sent] = "ok")
    BY <1>2, <1>4, <1>11
  <2> QED BY <1>1, <1>4, <2>1, <2>2 DEF FlightOK
<1> QED BY <1>1, <1>5, <1>6, <1>7, <1>8, <1>9, <1>10, <1>11, CallKeeps

\* A call that is over on the client's side.
LEMMA SettleFacts ==
  ASSUME EditorInv, NEW c \in 1 .. sent, fetch[c] \in {"waiting", "reading"}, Settle(c)
  PROVE  /\ c \in Call /\ c <= sent /\ JobOK(job[c]) /\ Going(c)
         /\ job' \in [Call -> Job \cup {None}]
         /\ fetch' \in [Call -> {"unsent", "waiting", "reading", "done"}]
         /\ status' \in [Call -> {"unsent", "pending", "ok", "error", "over"}]
         /\ reply' \in [Call -> Content \cup {None}]
         /\ \A d \in Call \ {c} : /\ job'[d] = job[d] /\ fetch'[d] = fetch[d]
                                  /\ status'[d] = status[d] /\ reply'[d] = reply[d]
         /\ fetch'[c] = "done" /\ ~Going(c)'
         /\ \/ status[c] = "pending" /\ status'[c] = "pending" /\ job'[c] = job[c]
            \/ status[c] # "pending" /\ status'[c] = "over"
<1>1. c \in Call /\ c <= sent BY SessionAssumption DEF EditorInv, TypeOK, Call
<1>2. CallOK(c) BY <1>1 DEF EditorInv
<1>3. JobOK(job[c]) /\ Going(c) BY <1>2 DEF CallOK, Going, Live
<1>4. /\ fetch' = [fetch EXCEPT ![c] = "done"] /\ reply' = [reply EXCEPT ![c] = None]
      /\ \/ status[c] = "pending" /\ status' = status /\ job' = job
         \/ /\ status[c] # "pending"
            /\ status' = [status EXCEPT ![c] = "over"] /\ job' = [job EXCEPT ![c] = None]
  BY DEF Settle, Forget
<1>5. /\ job' \in [Call -> Job \cup {None}]
      /\ fetch' \in [Call -> {"unsent", "waiting", "reading", "done"}]
      /\ status' \in [Call -> {"unsent", "pending", "ok", "error", "over"}]
      /\ reply' \in [Call -> Content \cup {None}]
  BY <1>4 DEF EditorInv, TypeOK
<1>6. \A d \in Call \ {c} : /\ job'[d] = job[d] /\ fetch'[d] = fetch[d]
                            /\ status'[d] = status[d] /\ reply'[d] = reply[d]
  BY <1>4 DEF EditorInv, TypeOK
<1>7. fetch'[c] = "done" BY <1>1, <1>4 DEF EditorInv, TypeOK
<1>8. \/ status[c] = "pending" /\ status'[c] = "pending" /\ job'[c] = job[c]
      \/ status[c] # "pending" /\ status'[c] = "over"
  BY <1>1, <1>4 DEF EditorInv, TypeOK
<1> QED BY <1>1, <1>3, <1>5, <1>6, <1>7, <1>8 DEF Going

\* What CallOK asks of a call that is over on the client's side.
LEMMA SettledCall ==
  ASSUME EditorInv, NEW c \in 1 .. sent, fetch[c] \in {"waiting", "reading"}, Settle(c),
         sent' = sent, mount' = mount, shown \subseteq shown'
  PROVE  CallOK(c)' /\ CallFootprint(c)
<1>1. /\ c \in Call /\ c <= sent /\ JobOK(job[c])
      /\ \A d \in Call \ {c} : /\ job'[d] = job[d] /\ fetch'[d] = fetch[d]
                               /\ status'[d] = status[d] /\ reply'[d] = reply[d]
      /\ fetch'[c] = "done"
      /\ \/ status[c] = "pending" /\ status'[c] = "pending" /\ job'[c] = job[c]
         \/ status[c] # "pending" /\ status'[c] = "over"
  BY SettleFacts
<1>2. status'[c] = "pending" => JobOK(job[c])' BY <1>1 DEF JobOK
<1>3. CallOK(c)' BY <1>1, <1>2 DEF CallOK, Live
<1> QED BY <1>1, <1>3 DEF CallFootprint

LEMMA HandlerFailsKeeps ==
  ASSUME EditorInv, NEW c \in 1 .. sent, fetch[c] \in {"waiting", "reading"}, HandlerFails(c)
  PROVE  EditorInv'
<1> DEFINE j == job[c]
<1>1. /\ certain' = (certain /\ ~(Replaces(c) /\ status[c] = "ok"))
      /\ view' = IF Current(c) /\ j.op = "load" THEN "failed" ELSE view
      /\ saveState' = IF Current(c) /\ j.op \in {"create", "update", "delete"}
                      THEN "error" ELSE saveState
      /\ mount' = mount /\ draft' = draft /\ dirty' = dirty /\ savedSlug' = savedSlug
      /\ edits' = edits /\ sent' = sent /\ shown' = shown
      /\ stored' = stored /\ past' = past /\ latest' = latest /\ Settle(c)
  BY DEF HandlerFails, server
<1>2. /\ c \in Call /\ c <= sent /\ JobOK(j) /\ Going(c)
      /\ job' \in [Call -> Job \cup {None}]
      /\ fetch' \in [Call -> {"unsent", "waiting", "reading", "done"}]
      /\ status' \in [Call -> {"unsent", "pending", "ok", "error", "over"}]
      /\ reply' \in [Call -> Content \cup {None}]
      /\ fetch'[c] = "done" /\ ~Going(c)'
      /\ \/ status[c] = "pending" /\ status'[c] = "pending" /\ job'[c] = j
         \/ status[c] # "pending" /\ status'[c] = "over"
  BY <1>1, SettleFacts
<1>3. CallOK(c)' /\ CallFootprint(c) BY <1>1, SettledCall
<1>4. Current(c) /\ j.op = "load" => view \notin {"editing", "list"}
  BY <1>2 DEF Current, EditorInv, LoadsOK
<1>5. TypeOK'
  <2>1. certain' \in BOOLEAN BY <1>1 DEF EditorInv, TypeOK, Replaces
  <2>2. /\ view' \in {"list", "loading", "failed", "editing"}
        /\ saveState' \in {"idle", "saving", "saved", "error"}
    BY <1>1 DEF EditorInv, TypeOK
  <2> QED BY <1>1, <1>2, <2>1, <2>2 DEF EditorInv, TypeOK
<1>6. PageOK' BY <1>1, <1>4 DEF EditorInv, PageOK
<1>7. ServerOK' BY <1>1 DEF EditorInv, ServerOK
<1>8. ASSUME certain' PROVE certain /\ LateOK' /\ BadgesOK' /\ fetch'[sent] = "done"
  <2>1. certain /\ c = sent /\ FlightOK(c) BY <1>1, <1>8, Alone
  <2>2. LateOK /\ BadgesOK BY <1>1, <1>8, <2>1 DEF EditorInv, CertainOK, Replaced
  <2>3. BadgesOK' BY <1>1, <2>2 DEF BadgesOK, Editing
  <2>4. ASSUME Editing', NEW d \in 1 .. sent, Late(d)'
        PROVE  (~dirty => job'[d].input.body = draft.body) /\ saveState' # "saved"
    <3>1. Editing /\ (saveState' # "saved" \/ saveState' = saveState)
      BY <1>1, <2>4 DEF Editing
    <3>2. CASE d = c
      <4>1. job'[c] = j /\ j.op \in {"create", "update"} BY <1>2, <2>4, <3>2 DEF Late
      <4>2. j.input = draft /\ Current(c) BY <2>1, <4>1 DEF FlightOK, Current
      <4> QED BY <1>1, <3>2, <4>1, <4>2
    <3>3. CASE d # c
      <4>1. d \in Call BY SessionAssumption DEF EditorInv, TypeOK, Call
      <4>2. job'[d] = job[d] /\ fetch'[d] = fetch[d] /\ status'[d] = status[d]
        BY <1>3, <3>3, <4>1 DEF CallFootprint
      <4>3. Late(d) BY <1>1, <2>4, <4>2 DEF Late, InOrder
      <4> QED BY <2>2, <3>1, <4>2, <4>3 DEF LateOK
    <3> QED BY <3>2, <3>3
  <2>5. LateOK' BY <1>1, <2>4 DEF LateOK
  <2> QED BY <1>2, <2>1, <2>3, <2>5
<1>9. view' = "editing" => view = "editing" BY <1>1
<1> QED BY <1>2, <1>3, <1>5, <1>6, <1>7, <1>8, <1>9, CallKeeps

LEMMA HeadersKeep == ASSUME EditorInv, NEW c \in 1 .. sent, Headers(c) PROVE EditorInv'
<1>1. CASE status[c] = "error" /\ HandlerFails(c) BY <1>1, HandlerFailsKeeps DEF Headers
<1>2. CASE /\ fetch[c] = "waiting" /\ status[c] = "ok"
           /\ fetch' = [fetch EXCEPT ![c] = "reading"]
           /\ UNCHANGED <<page, edits, sent, job, status, reply, server, certain, shown>>
  <2>1. /\ view' = view /\ mount' = mount /\ draft' = draft /\ dirty' = dirty
        /\ savedSlug' = savedSlug /\ saveState' = saveState /\ edits' = edits
        /\ sent' = sent /\ job' = job /\ status' = status /\ reply' = reply
        /\ certain' = certain /\ shown' = shown /\ stored' = stored /\ past' = past
        /\ latest' = latest
    BY <1>2 DEF page, server
  <2>2. c \in Call BY SessionAssumption DEF EditorInv, TypeOK, Call
  <2>3. \A d \in Call : fetch'[d] = IF d = c THEN "reading" ELSE fetch[d]
    BY <1>2 DEF EditorInv, TypeOK
  <2>4. TypeOK' BY <1>2, <2>1 DEF EditorInv, TypeOK
  <2>5. CallFootprint(c) BY <2>1, <2>3 DEF CallFootprint
  <2>6. CallOK(c) BY <2>2 DEF EditorInv
  <2>7. CallOK(c)' BY <1>2, <2>1, <2>2, <2>3, <2>6 DEF CallOK, Live, JobOK
  <2>8. PageOK' /\ ServerOK' BY <2>1 DEF EditorInv, PageOK, ServerOK
  <2>9. Going(c) BY <1>2 DEF Going, Live
  <2>10. ASSUME certain
         PROVE  /\ LateOK' /\ (BadgesOK' \/ Replaced(sent)')
                /\ fetch'[sent] # "done" => FlightOK(sent)'
    <3>1. c = sent /\ sent > 0 /\ FlightOK(sent) BY <1>2, <2>10, Alone
    <3>2. LateOK /\ (BadgesOK \/ Replaced(sent)) BY <2>10 DEF EditorInv, CertainOK
    <3>3. BadgesOK => BadgesOK' BY <2>1 DEF BadgesOK, Editing
    <3>4. Replaced(sent) => Replaced(sent)' BY <2>1, <2>2, <2>3, <3>1 DEF Replaced, Replaces
    <3>5. \A d \in 1 .. sent : d \in Call BY SessionAssumption DEF EditorInv, TypeOK, Call
    <3>6. \A d \in 1 .. sent : Late(d)' => Late(d)
      BY <2>1, <2>3, <3>5 DEF Late, InOrder
    <3>7. LateOK' BY <2>1, <3>2, <3>6 DEF LateOK, Editing
    <3>8. FlightOK(sent)' BY <2>1, <3>1 DEF FlightOK
    <3> QED BY <3>2, <3>3, <3>4, <3>7, <3>8
  <2> QED BY <1>2, <2>1, <2>4, <2>5, <2>7, <2>8, <2>9, <2>10, CallKeeps
<1> QED BY <1>1, <1>2 DEF Headers

LEMMA HandlerGoesOnKeeps ==
  ASSUME EditorInv, NEW c \in 1 .. sent, fetch[c] = "reading", HandlerGoesOn(c)
  PROVE  EditorInv'
<1> DEFINE j == job[c]
           r == reply[c]
<1>1. /\ shown' = shown \cup {r.slug} /\ edits' = edits /\ sent' = sent /\ certain' = certain
      /\ stored' = stored /\ past' = past /\ latest' = latest /\ Settle(c)
  BY DEF HandlerGoesOn, server
<1>2. /\ c \in Call /\ c <= sent /\ JobOK(j) /\ Going(c)
      /\ job' \in [Call -> Job \cup {None}]
      /\ fetch' \in [Call -> {"unsent", "waiting", "reading", "done"}]
      /\ status' \in [Call -> {"unsent", "pending", "ok", "error", "over"}]
      /\ reply' \in [Call -> Content \cup {None}]
      /\ fetch'[c] = "done" /\ ~Going(c)'
      /\ \/ status[c] = "pending" /\ status'[c] = "pending" /\ job'[c] = j
         \/ status[c] # "pending" /\ status'[c] = "over"
  BY <1>1, SettleFacts
<1>3. /\ status[c] = "ok" /\ r \in Content /\ r.slug = j.slug /\ j.op \in Op
      /\ r \in Draft /\ r.slug \in Slug
  <2>1. status[c] = "ok" /\ r \in Content /\ r.slug = j.slug
    BY <1>2 DEF EditorInv, CallOK
  <2> QED BY <1>2, <2>1 DEF JobOK, Job, Content
<1>4. status'[c] = "over" BY <1>2, <1>3
<1>5. ServerOK' BY <1>1 DEF EditorInv, ServerOK
\* Whoever waited has this call as the last one, which nothing given up
\* before it can follow in order.
<1>6. ASSUME certain PROVE c = sent /\ FlightOK(c) /\ fetch'[sent] = "done"
  BY <1>2, <1>6, Alone
<1>7. ASSUME certain, savedSlug' = r.slug, NEW d \in 1 .. sent PROVE ~Late(d)'
  <2>1. latest[j.slug] = sent /\ c = sent BY <1>3, <1>6, <1>7 DEF FlightOK
  <2>2. d \in Nat /\ sent \in Nat BY DEF EditorInv, TypeOK
  <2>3. CASE d = c BY <1>4, <2>3 DEF Late
  <2>4. CASE d # c
    <3>1. d < sent BY <2>1, <2>2, <2>4
    <3> QED BY <1>1, <1>3, <1>7, <2>1, <2>2, <3>1 DEF Late, InOrder
  <2> QED BY <2>3, <2>4
<1>8. CASE j.op = "delete" /\ Exit
  <2>1. /\ view' = "list" /\ mount' = mount
        /\ draft' = Blank /\ dirty' = FALSE /\ savedSlug' = None /\ saveState' = "idle"
    BY <1>8 DEF Exit, Mounted
  <2>2. CallOK(c)' /\ CallFootprint(c) BY <1>1, <2>1, SettledCall
  <2>3. TypeOK' BY <1>1, <1>2, <1>3, <2>1, BlankIsDraft DEF EditorInv, TypeOK
  <2>4. PageOK' BY <2>1 DEF PageOK
  <2>5. BadgesOK' /\ LateOK' BY <2>1 DEF BadgesOK, LateOK, Editing
  <2> QED BY <1>1, <1>2, <1>5, <1>6, <2>1, <2>2, <2>3, <2>4, <2>5, CallKeeps
<1>9. CASE j.op \in {"load", "restore"} /\ Show(c)
  <2>1. /\ j.mount = mount /\ view \in {"loading", "editing"} /\ view' = "editing" /\ mount' = mount
        /\ draft' = r /\ dirty' = FALSE /\ savedSlug' = r.slug
        /\ saveState' = IF j.op = "load" THEN "idle" ELSE "saved"
    BY <1>9 DEF Show, Current
  <2>2. CallOK(c)' /\ CallFootprint(c) BY <1>1, <2>1, SettledCall
  <2>3. TypeOK' BY <1>1, <1>2, <1>3, <2>1 DEF EditorInv, TypeOK
  <2>4. PageOK' BY <1>1, <2>1 DEF EditorInv, PageOK
  <2>5. certain => BadgesOK'
    BY <1>1, <1>3, <1>6, <1>9, <2>1, SessionAssumption DEF FlightOK, BadgesOK, Editing, Content
  <2>6. certain => LateOK' BY <1>1, <1>7, <2>1 DEF LateOK
  <2> QED BY <1>1, <1>2, <1>5, <1>6, <2>1, <2>2, <2>3, <2>4, <2>5, <2>6, CallKeeps
<1>10. CASE j.op \in {"create", "update"} /\ MarkSaved(c)
  <2>1. /\ view' = view /\ mount' = mount /\ draft' = draft
        /\ dirty' = FALSE /\ savedSlug' = r.slug /\ saveState' = "saved"
    BY <1>10 DEF MarkSaved
  <2>2. CallOK(c)' /\ CallFootprint(c) BY <1>1, <2>1, SettledCall
  <2>3. TypeOK' BY <1>1, <1>2, <1>3, <2>1 DEF EditorInv, TypeOK
  <2>4. PageOK' BY <1>1, <2>1 DEF EditorInv, PageOK
  <2>5. certain => BadgesOK'
    BY <1>1, <1>3, <1>6, <1>10, <2>1, SessionAssumption DEF FlightOK, BadgesOK, Editing, Content
  <2>6. certain => LateOK' BY <1>1, <1>7, <2>1 DEF LateOK
  <2> QED BY <1>1, <1>2, <1>5, <1>6, <2>1, <2>2, <2>3, <2>4, <2>5, <2>6, CallKeeps
<1>11. CASE j.op # "delete" /\ ~Current(c) /\ UNCHANGED page
  <2>1. /\ view' = view /\ mount' = mount /\ draft' = draft /\ dirty' = dirty
        /\ savedSlug' = savedSlug /\ saveState' = saveState
    BY <1>11 DEF page
  <2>2. CallOK(c)' /\ CallFootprint(c) BY <1>1, <2>1, SettledCall
  <2>3. TypeOK' BY <1>1, <1>2, <1>3, <2>1 DEF EditorInv, TypeOK
  <2>4. PageOK' BY <1>1, <2>1 DEF EditorInv, PageOK
  <2>5. certain => view # "editing" BY <1>6, <1>11 DEF FlightOK, Current
  <2>6. certain => BadgesOK' /\ LateOK' BY <2>1, <2>5 DEF BadgesOK, LateOK, Editing
  <2> QED BY <1>1, <1>2, <1>5, <1>6, <2>1, <2>2, <2>3, <2>4, <2>6, CallKeeps
<1> QED BY <1>8, <1>9, <1>10, <1>11 DEF HandlerGoesOn

LEMMA NextEditor == EditorInv /\ [Next]_vars => EditorInv'
<1> SUFFICES ASSUME EditorInv, [Next]_vars PROVE EditorInv' OBVIOUS
<1>1. CASE AuthorActs BY <1>1, AuthorKeeps
<1>2. ASSUME NEW c \in 1 .. sent, CallGoesOn(c) PROVE EditorInv'
  BY <1>2, ServeKeeps, DeclineKeeps, HandlerFailsKeeps, HeadersKeep, HandlerGoesOnKeeps
     DEF CallGoesOn, Abort, ReadBody
<1>3. CASE UNCHANGED vars
  <2>1. /\ view' = view /\ mount' = mount /\ draft' = draft /\ dirty' = dirty
        /\ savedSlug' = savedSlug /\ saveState' = saveState /\ edits' = edits
        /\ sent' = sent /\ job' = job /\ fetch' = fetch /\ status' = status /\ reply' = reply
        /\ stored' = stored /\ past' = past /\ latest' = latest
        /\ certain' = certain /\ shown' = shown
    BY <1>3 DEF vars, page, wire, server
  <2>2. TypeOK' BY <2>1 DEF EditorInv, TypeOK
  <2>3. (\A c \in Call : CallOK(c))' BY <2>1 DEF EditorInv, CallOK, Live, JobOK
  <2>4. ServerOK' /\ PageOK' BY <2>1 DEF EditorInv, ServerOK, PageOK
  <2>5. LoadsOK' BY <2>1 DEF EditorInv, LoadsOK, Going, Live
  <2>6. CertainOK' BY <2>1 DEF EditorInv, CertainOK, BadgesOK, LateOK, Late, InOrder, Replaced,
                               Replaces, Editing, FlightOK
  <2> QED BY <2>2, <2>3, <2>4, <2>5, <2>6 DEF EditorInv
<1> QED BY <1>1, <1>2, <1>3 DEF Next

LEMMA EditorInvAlways == Spec => []EditorInv
BY InitEditor, NextEditor, PTL DEF Spec

-----------------------------------------------------------------------------
\* The editor's state keeps its type: whatever answers an open document gets,
\* its form holds whole values and the server whole documents (EditorView).
THEOREM EditorTypeCorrect == Spec => []TypeOK
<1>1. EditorInv => TypeOK BY DEF EditorInv
<1> QED BY <1>1, EditorInvAlways, PTL

\* An author who waits for each call to be answered or given up can trust
\* the missing "Unsaved changes" badge (markClean in onSave, onRestored and
\* the load), until a call is done behind a later one to its document, or a
\* restore or a delete is done without its answer coming in.
THEOREM CleanIsStored == Spec => []CleanMeansStored
<1>1. EditorInv => CleanMeansStored
  BY PatientWait DEF CleanMeansStored, BadgesOK, Editing
<1> QED BY <1>1, EditorInvAlways, PTL

\* But for the same two cases that author can trust the "Saved" badge, after
\* saves that failed or were given up too (setSaveState in onSave and
\* onRestored).
THEOREM SavedIsStored == Spec => []SavedMeansStored
<1>1. EditorInv => SavedMeansStored
  BY PatientWait DEF SavedMeansStored, BadgesOK, Editing
<1> QED BY <1>1, EditorInvAlways, PTL

\* Only a document the author was shown is overwritten or deleted, however
\* late a call reaches the server (persist, by savedSlug).
THEOREM OthersStayUntouched == Spec => OthersUntouched
<1>1. EditorInv /\ [Next]_vars =>
        \A s \in Slug : stored[s] # None /\ stored'[s] # stored[s] => s \in shown
  <2> SUFFICES ASSUME EditorInv, [Next]_vars, NEW s \in Slug,
                      stored[s] # None, stored'[s] # stored[s]
               PROVE  s \in shown
    OBVIOUS
  <2>1. PICK c \in 1 .. sent : Serve(c)
    <3>1. AuthorActs => stored' = stored
      BY DEF AuthorActs, OpenNew, Open, Leave, Type, SetField, SetSlug, ToggleCategory, Edit,
             Save, Delete, Restore, server
    <3>2. \A c \in 1 .. sent : CallGoesOn(c) /\ ~Serve(c) => stored' = stored
      BY DEF CallGoesOn, Decline, Abort, Headers, ReadBody, HandlerFails, HandlerGoesOn, server
    <3> QED BY <3>1, <3>2 DEF Next, vars, server
  <2>2. c \in Call BY SessionAssumption DEF EditorInv, TypeOK, Call
  <2>3. JobOK(job[c]) /\ Accepts(job[c]) /\ Write(job[c])
    BY <2>1, <2>2 DEF Serve, EditorInv, CallOK, Live
  <2>4. /\ s = job[c].slug /\ job[c].op # "load"
        /\ job[c].op \in {"update", "delete", "restore"} \/ stored[job[c].slug] = None
    BY <2>3, WriteOK
  <2> QED BY <2>3, <2>4 DEF JobOK
<1> QED BY <1>1, EditorInvAlways, PTL DEF Spec, OthersUntouched

\* No save, and no answer that comes late to another document, takes text
\* from the form (onSave leaves the draft, EditorView drops a stale load).
THEOREM TypedTextIsKept == Spec => TypedTextStays
<1>1. EditorInv /\ [Next]_vars => TextStays
  <2> DEFINE Taken ==
        \/ edits' > edits
        \/ view' = "list" /\ wire' = wire
        \/ \E c \in 1 .. sent : /\ fetch[c] = "reading" /\ fetch'[c] = "done"
                                /\ \/ job[c].op = "delete"
                                   \/ job[c].op = "restore" /\ Current(c)
  <2> SUFFICES ASSUME EditorInv, [Next]_vars, dirty, draft'.body # draft.body PROVE Taken
    BY DEF TextStays
  <2>1. view = "editing" BY DEF EditorInv, PageOK
  <2>2. /\ draft \in [slug : Slug \cup {None}, fields : Version, cats : Version, body : Version]
        /\ edits \in Nat
    BY DEF EditorInv, TypeOK, Draft, Version
  <2>3. CASE AuthorActs
    <3>1. CASE Type BY <2>2, <3>1 DEF Type
    <3>2. CASE Leave BY <3>2 DEF Leave
    <3>3. SetField \/ ToggleCategory => draft'.body = draft.body
      BY <2>2 DEF SetField, ToggleCategory, Edit
    <3>4. ASSUME NEW s \in Slug, SetSlug(s) PROVE draft'.body = draft.body
      BY <2>2, <3>4 DEF SetSlug, Edit
    <3>5. Save \/ Delete \/ (\E v \in past[savedSlug] : Restore(v)) => draft' = draft
      BY DEF Save, Delete, Restore, page
    <3>6. ~OpenNew /\ \A s \in Slug : ~Open(s) BY <2>1 DEF OpenNew, Open
    <3> QED BY <2>3, <3>1, <3>2, <3>3, <3>4, <3>5, <3>6 DEF AuthorActs
  <2>4. ASSUME NEW c \in 1 .. sent, CallGoesOn(c) PROVE Taken
    <3>1. c \in Call BY SessionAssumption DEF EditorInv, TypeOK, Call
    <3>2. fetch[c] = "reading" /\ HandlerGoesOn(c)
      BY <2>4 DEF CallGoesOn, Serve, Decline, Abort, Headers, ReadBody, HandlerFails, page
    <3>3. fetch'[c] = "done" BY <3>1, <3>2 DEF HandlerGoesOn, Settle, EditorInv, TypeOK
    <3>4. \/ job[c].op = "delete"
          \/ job[c].op \in {"load", "restore"} /\ Current(c)
      BY <3>2 DEF HandlerGoesOn, Show, MarkSaved, page
    <3>5. ~(job[c].op = "load" /\ Current(c))
      BY <2>1, <3>1, <3>2 DEF EditorInv, LoadsOK, Going, CallOK, Live, Current
    <3> QED BY <3>2, <3>3, <3>4, <3>5
  <2>5. CASE UNCHANGED vars BY <2>5 DEF vars, page
  <2> QED BY <2>3, <2>4, <2>5 DEF Next
<1> QED BY <1>1, EditorInvAlways, PTL DEF Spec, TypedTextStays

=============================================================================
