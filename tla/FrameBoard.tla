----------------------------- MODULE FrameBoard -----------------------------
(***************************************************************************)
(* The picture frame: the loop of firmware/arena-frame/src/main.cpp, the   *)
(* state document the adapter keeps for it in KV, and the channels of      *)
(* are.na it walks.  The board is one thread; whatever it asks of the      *)
(* network may fail, and the document and the channels change between any  *)
(* two of its steps.                                                       *)
(*                                                                         *)
(* Abstractions.  Time: a poll may or may not be due.  The faces, the      *)
(* clock and the weather are chrome on a picture or on black.  A deck is   *)
(* what the adapter answers, its edge cache included; a page of it is      *)
(* assumed to fit the board's 8192 bytes, as one that does not is refused  *)
(* each time.  A block is Dead when the adapter cannot render it (no image *)
(* at an allowed host).                                                    *)
(***************************************************************************)
EXTENDS Naturals, Sequences

CONSTANTS
  Channel,    \* are.na channels
  Home,       \* CHANNEL_SLUG, the one the board is built with
  Block,      \* image blocks
  Dead,       \* those that are listed and do not render
  Editions,   \* what a channel may hold: its pages, each a list of blocks
  First,      \* what each holds at first
  Writes,     \* state documents that the control page saves
  MaxEvents,  \* bound: saves, changes of a channel, holds of "previous", boots
  None        \* no channel, no block, no whole picture

Mode       == {"deck", "clock", "video", "off"}
FrameState == [mode : Mode, channel : Channel \cup {None}, fits : BOOLEAN]
Picture    == [channel : Channel, block : Block]
Place      == [page : Nat \ {0}, cursor : Nat]

ASSUME BoardAssumption ==
  /\ Home \in Channel
  /\ Dead \subseteq Block
  /\ Editions \subseteq Seq(Seq(Block))
  /\ First \in [Channel -> Editions]
  /\ Writes \subseteq FrameState
  /\ MaxEvents \in Nat
  /\ None \notin Channel \cup Block \cup Picture \cup Place

VARIABLES
  pc,            \* where the loop is
  mode, stateChannel, stateDirty,
  page, cursor,  \* where the walk is
  blockCount, hasMore,
  wanted,        \* the block whose image drawCurrent fetches
  framePixels,   \* the picture in the buffer, None if it is not whole
  screen,        \* what the panel shows
  picture,       \* and which picture, if it shows one
  backlight,
  stored,        \* the state document
  visible,       \* the documents a read of KV may return for now
  arena,         \* the channels
  events,        \* how many events there have been
  due            \* history: the place in the deck whose turn it is, None if
                 \* the walk has lost it (Republish, Before) and not fetched since

state   == <<mode, stateChannel, stateDirty>>
walk    == <<page, cursor>>
count   == <<blockCount, hasMore>>
deck    == <<count, wanted>>
panel   == <<screen, picture, backlight>>
cloud   == <<stored, visible, arena, events>>
vars    == <<pc, state, walk, deck, framePixels, panel, cloud, due>>

Here == [page |-> page, cursor |-> cursor]
Top  == [page |-> 1, cursor |-> 0]

BoardTypeOK ==
  /\ pc \in {"connect", "poll", "dispatch", "deck", "image", "waiting", "holding", "parked"}
  /\ mode \in Mode /\ stateChannel \in Channel /\ stateDirty \in BOOLEAN
  /\ Here \in Place
  /\ blockCount \in Nat /\ hasMore \in BOOLEAN
  /\ wanted \in Block \cup {None}
  /\ framePixels \in Picture \cup {None}
  /\ screen \in {"black", "error", "image", "clock", "video"}
  /\ picture \in Picture \cup {None}
  /\ backlight \in BOOLEAN
  /\ stored \in FrameState /\ visible \subseteq FrameState
  /\ arena \in [Channel -> Editions]
  /\ events \in 0 .. MaxEvents
  /\ due \in Place \cup {None}

\* defaultFrameState, what a read answers before the first save.
DefaultState == [mode |-> "deck", channel |-> None, fits |-> TRUE]

Init ==
  /\ pc = "connect"
  /\ mode = "deck" /\ stateChannel = Home /\ stateDirty = FALSE
  /\ page = 1 /\ cursor = 0
  /\ blockCount = 0 /\ hasMore = FALSE /\ wanted = None
  /\ framePixels = None
  /\ screen = "black" /\ picture = None /\ backlight = TRUE
  /\ stored = DefaultState /\ visible = {DefaultState}
  /\ arena = First
  /\ events = 0
  /\ due = Top

Show(what) == screen' = what /\ picture' = None

-----------------------------------------------------------------------------
(* Outside the board.                                                      *)

Event == events < MaxEvents /\ events' = events + 1

\* putFrameState.  For a while reads may still return what it replaces.
PutFrameState(s) ==
  /\ Event
  /\ stored' = s /\ visible' = visible \cup {s}
  /\ UNCHANGED <<pc, state, walk, deck, framePixels, panel, arena, due>>

Converge ==
  /\ visible # {stored}
  /\ visible' = {stored}
  /\ UNCHANGED <<pc, state, walk, deck, framePixels, panel, stored, arena, events, due>>

\* The owner of a channel connects, moves or removes blocks.
Republish(ch, e) ==
  /\ Event
  /\ arena[ch] # e
  /\ arena' = [arena EXCEPT ![ch] = e]
  /\ due' = IF ch = stateChannel THEN None ELSE due
  /\ UNCHANGED <<pc, state, walk, deck, framePixels, panel, stored, visible>>

\* The watchdog, a crash or a power cut: setup() runs again.
Reboot ==
  /\ Event
  /\ pc' = "connect"
  /\ mode' = "deck" /\ stateChannel' = Home /\ stateDirty' = FALSE
  /\ page' = 1 /\ cursor' = 0
  /\ blockCount' = 0 /\ hasMore' = FALSE /\ wanted' = None
  /\ framePixels' = None
  /\ Show("black") /\ backlight' = TRUE
  /\ due' = Top
  /\ UNCHANGED <<stored, visible, arena>>

-----------------------------------------------------------------------------
(* loop().                                                                 *)

\* showMessage("... failed"), then waitMs(kRetryMs).
Fail ==
  /\ Show("error") /\ pc' = "waiting"
  /\ UNCHANGED backlight

Retry ==
  /\ pc = "waiting" /\ pc' = "connect"
  /\ UNCHANGED <<state, walk, deck, framePixels, panel, cloud, due>>

Connect ==
  /\ pc = "connect" /\ pc' = "poll"
  /\ UNCHANGED <<state, walk, deck, framePixels, panel, cloud, due>>

ConnectFails ==
  /\ pc = "connect" /\ Fail
  /\ UNCHANGED <<state, walk, deck, framePixels, cloud, due>>

\* Faulty variant: a change of channel alone does not raise stateDirty.
ReadModeOnly(s) ==
  LET changed == s.channel \notin {None, stateChannel} IN
  /\ s.fits
  /\ mode' = s.mode
  /\ stateChannel' = IF changed THEN s.channel ELSE stateChannel
  /\ stateDirty' = (stateDirty \/ s.mode # mode)
  /\ IF changed THEN page' = 1 /\ cursor' = 0 /\ due' = Top
                ELSE UNCHANGED <<walk, due>>

\* fetchState, of a document that fits the board's buffers.
FetchState(s) ==
  LET changed == s.channel \notin {None, stateChannel} IN
  /\ s.fits
  /\ mode' = s.mode
  /\ stateChannel' = IF changed THEN s.channel ELSE stateChannel
  /\ stateDirty' = (stateDirty \/ s.mode # mode \/ changed)
  /\ IF changed THEN page' = 1 /\ cursor' = 0 /\ due' = Top
                ELSE UNCHANGED <<walk, due>>

\* Faulty variant: waitForModeChange polls and does not look at stateDirty.
PollParkedOn ==
  /\ \E s \in visible : FetchState(s)
  /\ \/ pc = "poll" /\ pc' = "dispatch"
     \/ pc = "holding" /\ pc' = IF stateDirty' THEN "connect" ELSE pc
     \/ pc = "parked" /\ UNCHANGED pc
  /\ UNCHANGED <<deck, framePixels, panel, cloud>>

\* pollState, where loop(), waitForNext and waitForModeChange call it.
Poll ==
  /\ \E s \in visible : FetchState(s)
  /\ \/ pc = "poll" /\ pc' = "dispatch"
     \/ pc \in {"holding", "parked"} /\ pc' = IF stateDirty' THEN "connect" ELSE pc
  /\ UNCHANGED <<deck, framePixels, panel, cloud>>

\* The modes without a playlist are shown at once; no poll may have been due.
Dispatch ==
  /\ pc \in {"poll", "dispatch"}
  /\ \/ mode = "off" /\ backlight' = FALSE /\ Show("black")
     \/ mode = "video" /\ backlight' = TRUE /\ Show("video")
     \/ mode = "clock" /\ backlight' = TRUE /\ Show("clock")
     \/ mode = "deck" /\ backlight' = TRUE /\ UNCHANGED <<screen, picture>>
  /\ pc' = IF mode = "deck" THEN "deck" ELSE "parked"
  /\ stateDirty' = (stateDirty /\ mode = "deck")
  /\ UNCHANGED <<mode, stateChannel, walk, deck, framePixels, cloud, due>>

-----------------------------------------------------------------------------
(* drawCurrent.                                                            *)

\* listFrameImages: a page past the last one is empty.
Blocks(ch, p) == IF p <= Len(arena[ch]) THEN arena[ch][p] ELSE <<>>

FetchDeck ==
  LET blocks == Blocks(stateChannel, page) IN
  /\ pc = "deck"
  /\ blockCount' = Len(blocks)
  /\ hasMore' = (page < Len(arena[stateChannel]))
  /\ UNCHANGED <<state, page, framePixels, cloud>>
  /\ \/ /\ blocks = <<>>
        /\ Fail
        /\ UNCHANGED <<cursor, wanted, due>>
     \/ /\ blocks # <<>>
        /\ cursor' = cursor % Len(blocks)
        /\ due' = IF due = None THEN [page |-> page, cursor |-> cursor'] ELSE due
        /\ wanted' = blocks[(cursor % Len(blocks)) + 1]
        /\ pc' = "image"
        /\ UNCHANGED panel

DeckFails ==
  /\ pc = "deck" /\ Fail
  /\ UNCHANGED <<state, walk, deck, framePixels, cloud, due>>

\* Where advanceFrame and retreatFrame go, by the page as it was fetched.
NextPlace ==
  IF cursor + 1 < blockCount THEN [page |-> page, cursor |-> cursor + 1]
  ELSE [page |-> IF hasMore THEN page + 1 ELSE 1, cursor |-> 0]
PreviousPlace ==
  [page |-> page, cursor |-> IF cursor = 0 THEN blockCount - 1 ELSE cursor - 1]

\* Faulty variant: what was received is drawn, whole or not.
FetchImageUnchecked ==
  /\ pc = "image" /\ wanted \notin Dead
  /\ framePixels' \in {[channel |-> stateChannel, block |-> wanted], None}
  /\ screen' = "image" /\ picture' = framePixels'
  /\ stateDirty' = FALSE /\ pc' = "holding"
  /\ wanted' = None
  /\ UNCHANGED <<mode, stateChannel, walk, count, backlight, cloud, due>>

\* fetchFrame, and the rest of loop() up to waitForNext.
FetchImage ==
  /\ pc = "image" /\ wanted \notin Dead
  /\ framePixels' = [channel |-> stateChannel, block |-> wanted]
  /\ screen' = "image" /\ picture' = framePixels'
  /\ stateDirty' = FALSE /\ pc' = "holding"
  /\ wanted' = None
  /\ UNCHANGED <<mode, stateChannel, walk, count, backlight, cloud, due>>

\* Faulty variant: a picture that cannot be had is skipped.
ImageFailsAndSkips ==
  /\ pc = "image" /\ Fail
  /\ framePixels' \in {framePixels, None} /\ wanted' = None
  /\ page' = NextPlace.page /\ cursor' = NextPlace.cursor
  /\ UNCHANGED <<state, count, cloud, due>>

\* No answer, or a short read, which leaves the buffer in pieces.
ImageFails ==
  /\ pc = "image" /\ Fail
  /\ framePixels' \in {framePixels, None} /\ wanted' = None
  /\ UNCHANGED <<state, walk, count, cloud, due>>

-----------------------------------------------------------------------------
(* waitForNext and waitForModeChange.                                      *)

\* Faulty variant: the walk stays on its page.
AdvanceInPage ==
  /\ blockCount # 0
  /\ page' = page /\ cursor' = (cursor + 1) % blockCount

AdvanceFrame ==
  /\ blockCount # 0
  /\ page' = NextPlace.page /\ cursor' = NextPlace.cursor

\* Faulty variant: one less, also at the first.
RetreatBelow == blockCount # 0 /\ page' = page /\ cursor' = cursor - 1

RetreatFrame ==
  /\ blockCount # 0
  /\ page' = PreviousPlace.page /\ cursor' = PreviousPlace.cursor

\* Whose turn it is after a place, and before it, by the channel as it is.
\* Before a page's first block is the last block of the page before, except
\* that retreatFrame stays on the page: then the turn is lost.
After(place) ==
  LET pages == arena[stateChannel] IN
  IF place.cursor + 1 < Len(pages[place.page])
    THEN [page |-> place.page, cursor |-> place.cursor + 1]
    ELSE IF place.page < Len(pages) THEN [page |-> place.page + 1, cursor |-> 0] ELSE Top
Before(place) ==
  LET pages == arena[stateChannel] IN
  IF place.cursor > 0 THEN [page |-> place.page, cursor |-> place.cursor - 1]
    ELSE IF Len(pages) = 1 THEN [page |-> 1, cursor |-> Len(pages[1]) - 1] ELSE None

\* The cycle is over, or "next" was held.
EndCycle ==
  /\ pc = "holding" /\ pc' = "connect"
  /\ AdvanceFrame
  /\ due' = IF due = None THEN None ELSE After(due)
  /\ UNCHANGED <<state, deck, framePixels, panel, cloud>>

HoldPrevious ==
  /\ pc = "holding" /\ pc' = "connect"
  /\ Event
  /\ RetreatFrame
  /\ due' = IF due = None THEN None ELSE Before(due)
  /\ UNCHANGED <<state, deck, framePixels, panel, stored, visible, arena>>

LoseWifi ==
  /\ pc \in {"holding", "parked"} /\ pc' = "connect"
  /\ UNCHANGED <<state, walk, deck, framePixels, panel, cloud, due>>

\* changeFace: only the clock is drawn on black.
ChangeFace ==
  \/ mode = "clock" /\ Show("clock")
  \/ mode # "clock" /\ blockCount # 0 /\ screen' = "image" /\ picture' = framePixels

Tap ==
  /\ pc = "holding" \/ (pc = "parked" /\ mode = "clock")
  /\ ChangeFace
  /\ UNCHANGED <<pc, state, walk, deck, framePixels, backlight, cloud, due>>

-----------------------------------------------------------------------------
Outside ==
  \/ Converge \/ Reboot
  \/ \E s \in Writes : PutFrameState(s)
  \/ \E ch \in Channel, e \in Editions : Republish(ch, e)

\* What ends by itself: every wait of loop() has a limit.
Loop ==
  \/ Retry \/ Connect \/ ConnectFails \/ Dispatch
  \/ FetchDeck \/ DeckFails \/ FetchImage \/ ImageFails

Next == Outside \/ Loop \/ Poll \/ EndCycle \/ HoldPrevious \/ LoseWifi \/ Tap

\* The loop runs, KV converges, and what may fail does not always fail.
Fairness ==
  /\ WF_vars(Converge) /\ WF_vars(Loop)
  /\ SF_vars(Connect) /\ SF_vars(Poll) /\ SF_vars(FetchDeck) /\ SF_vars(FetchImage)
  /\ SF_vars(EndCycle)

Spec == Init /\ [][Next]_vars /\ Fairness

-----------------------------------------------------------------------------
\* A picture on the panel is whole: a short read is rejected before anything
\* is drawn, and no later tap shows what it left in the buffer.
WholePicture == screen = "image" => picture # None

\* A picture of another channel, or one in another mode, is only there while
\* the board knows that it has to go (stateDirty).
PictureIsCurrent ==
  screen = "image" /\ ~stateDirty => mode = "deck" /\ picture.channel = stateChannel

Looks(m) ==
  CASE m = "deck" -> "image" [] m = "clock" -> "clock" [] m = "video" -> "video"
    [] m = "off" -> "black"

\* The frame shows the pictures in their turn while the channel stays as it
\* was when its deck was fetched: the place after the last one shown when the
\* cycle ended or "next" was held, the one before it when "previous" was, and
\* the same one when anything failed, another mode was shown or the link was
\* lost; the first of a channel is the first of its deck.  It claims nothing
\* of "previous" at a page's first block in a deck of several pages.
WalkInOrder == pc = "image" /\ due # None => Here = due

\* A mode that is saved, and not replaced, reaches the panel.
ModeReachesPanel ==
  \A m \in Mode \ {"deck"} :
    <>[](stored.mode = m /\ stored.fits) => []<>(screen = Looks(m) /\ pc = "parked")

\* The documents and the deck ask for this picture.
Asked(p) ==
  /\ stored.mode = "deck" /\ stored.fits
  /\ stored.channel = p.channel \/ (stored.channel = None /\ stateChannel = p.channel)
  /\ \E i \in 1 .. Len(arena[p.channel]) :
       \E j \in 1 .. Len(arena[p.channel][i]) : arena[p.channel][i][j] = p.block

\* Each page of the deck has blocks and each block renders; and the board
\* is not past a last page that used to be further on.
Walkable(ch) ==
  /\ \A i \in 1 .. Len(arena[ch]) :
       /\ arena[ch][i] # <<>>
       /\ \A j \in 1 .. Len(arena[ch][i]) : arena[ch][i][j] \notin Dead
  /\ stateChannel = ch => page <= Len(arena[ch])

\* In a deck where every page and every block can be drawn, every picture
\* comes up again and again (advanceFrame, hasMore).
EveryPictureIsShown ==
  \A p \in Picture :
    <>[](Asked(p) /\ Walkable(p.channel)) => []<>(screen = "image" /\ picture = p)

\* README of the frame: "When the page is exhausted the firmware asks for the
\* next page and wraps to page 1 after the last one."
DeckIsTraversed ==
  \A p \in Picture :
    p.block \notin Dead =>
      (<>[]Asked(p) => []<>(screen = "image" /\ picture = p))

=============================================================================
