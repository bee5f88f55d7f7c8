-------------------------- MODULE FrameBoardProofs --------------------------
(***************************************************************************)
(* Theorems about FrameBoard, for any channels, decks, documents and       *)
(* bounds: its types; that what the panel shows is a whole picture, of the *)
(* mode and the channel the board knows of; and that the pictures of a     *)
(* channel come in their turn.  BoardInv is inductive; below its type, one *)
(* conjunct says what holds while a picture is fetched or held, the other  *)
(* that the walk is at the place whose turn it is.                         *)
(***************************************************************************)
EXTENDS FrameBoard, SequenceTheorems, TLAPS

Deck == Blocks(stateChannel, page)

\* While drawCurrent and waitForNext have control, the mode is "deck"; what
\* is held is a whole picture of the channel.
PictureOK ==
  /\ pc \in {"deck", "image"} => mode = "deck"
  /\ pc = "image" => wanted # None /\ blockCount > 0
  /\ pc = "holding" => /\ ~stateDirty /\ mode = "deck"
                       /\ framePixels # None /\ framePixels.channel = stateChannel

\* Unless the walk has lost its turn, the board is at the place whose turn it
\* is, which is in the deck, so that fetching the deck again leaves it there.
WalkOK ==
  due # None =>
    /\ Here = due
    /\ cursor = 0 \/ cursor < Len(Deck)
    /\ pc \in {"image", "holding"} =>
         blockCount = Len(Deck) /\ hasMore = (page < Len(arena[stateChannel])) /\ cursor < blockCount

BoardInv == BoardTypeOK /\ WholePicture /\ PictureIsCurrent /\ PictureOK /\ WalkOK

-----------------------------------------------------------------------------
(* The operators.                                                          *)

LEMMA PictureFields ==
  ASSUME NEW ch \in Channel, NEW b \in Block
  PROVE  /\ [channel |-> ch, block |-> b] \in Picture
         /\ [channel |-> ch, block |-> b] # None
BY BoardAssumption DEF Picture

\* A page of a channel is a list of blocks, empty past the last one.
LEMMA BlocksType ==
  ASSUME BoardTypeOK, NEW ch \in Channel, NEW p \in Nat \ {0}
  PROVE  Blocks(ch, p) \in Seq(Block) /\ Len(Blocks(ch, p)) \in Nat
<1>1. arena[ch] \in Seq(Seq(Block)) BY BoardAssumption DEF BoardTypeOK
<1>2. Len(arena[ch]) \in Nat BY <1>1, LenProperties
<1>3. CASE p <= Len(arena[ch])
  <2>1. p \in 1 .. Len(arena[ch]) BY <1>2, <1>3
  <2>2. arena[ch][p] \in Seq(Block) BY <1>1, <2>1, ElementOfSeq
  <2> QED BY <1>3, <2>2, LenProperties DEF Blocks
<1>4. CASE ~(p <= Len(arena[ch])) BY <1>4, EmptySeq DEF Blocks
<1> QED BY <1>3, <1>4

\* The cursor of a deck that is not empty.
LEMMA CursorWraps ==
  ASSUME NEW n \in Nat \ {0}, NEW k \in Nat
  PROVE  /\ k % n \in Nat /\ k % n < n /\ (k % n) + 1 \in 1 .. n
         /\ k < n => k % n = k
         /\ k = 0 => k % n = 0
OBVIOUS

\* Where the board goes from a place in the page it fetched: another block of
\* it or the first of a page; retreatFrame stays on the page.
LEMMA StepTypes ==
  ASSUME BoardTypeOK, blockCount > 0
  PROVE  /\ NextPlace \in Place /\ PreviousPlace \in Place
         /\ NextPlace.cursor = 0 \/ (NextPlace.page = page /\ NextPlace.cursor < blockCount)
         /\ PreviousPlace.page = page
         /\ cursor < blockCount => PreviousPlace.cursor < blockCount
BY DEF BoardTypeOK, Here, Place, NextPlace, PreviousPlace

\* In a page that is as it was fetched, that is the place whose turn it is.
LEMMA StepsInTurn ==
  ASSUME BoardTypeOK, Here = due, cursor < blockCount, blockCount = Len(Deck),
         hasMore = (page < Len(arena[stateChannel]))
  PROVE  /\ NextPlace = After(due)
         /\ PreviousPlace = Before(due) \/ Before(due) = None
<1>1. /\ page \in Nat \ {0} /\ cursor \in Nat /\ due.page = page /\ due.cursor = cursor
      /\ blockCount \in Nat
  BY DEF BoardTypeOK, Here, Place
<1>2. page <= Len(arena[stateChannel]) /\ Deck = arena[stateChannel][page]
  BY <1>1 DEF Deck, Blocks
<1>3. NextPlace = After(due)
  BY <1>1, <1>2 DEF NextPlace, After, Here, Top
<1>4. CASE cursor > 0 BY <1>1, <1>3, <1>4 DEF PreviousPlace, Before
<1>5. CASE cursor = 0 /\ Len(arena[stateChannel]) = 1
  <2>1. page = 1 BY <1>1, <1>2, <1>5
  <2> QED BY <1>1, <1>2, <1>3, <1>5, <2>1 DEF PreviousPlace, Before
<1>6. CASE cursor = 0 /\ Len(arena[stateChannel]) # 1 BY <1>1, <1>3, <1>6 DEF Before
<1> QED BY <1>1, <1>4, <1>5, <1>6

LEMMA DocumentType ==
  ASSUME NEW s \in FrameState
  PROVE  s.mode \in Mode /\ s.channel \in Channel \cup {None}
BY DEF FrameState

-----------------------------------------------------------------------------
LEMMA Start == Init => BoardInv
<1> SUFFICES ASSUME Init PROVE BoardInv OBVIOUS
<1>1. BoardTypeOK
  <2>1. DefaultState \in FrameState BY DEF DefaultState, FrameState, Mode
  <2>2. Here \in Place BY DEF Init, Here, Place
  <2>3. due \in Place BY DEF Init, Top, Place
  <2>4. arena \in [Channel -> Editions] /\ stateChannel \in Channel /\ events \in 0 .. MaxEvents
    BY BoardAssumption DEF Init
  <2> QED BY <2>1, <2>2, <2>3, <2>4 DEF Init, BoardTypeOK, Mode
<1>2. Here = due BY DEF Init, Here, Top
<1> QED BY <1>1, <1>2 DEF Init, BoardInv, WholePicture, PictureIsCurrent, PictureOK, WalkOK

-----------------------------------------------------------------------------
(* Outside the board.                                                      *)

LEMMA DocumentsKeep ==
  ASSUME BoardInv, Converge \/ \E s \in Writes : PutFrameState(s)
  PROVE  BoardInv'
<1>1. /\ UNCHANGED <<pc, state, walk, deck, framePixels, panel, arena, due>>
      /\ visible' \subseteq FrameState /\ stored' \in FrameState /\ events' \in 0 .. MaxEvents
  BY BoardAssumption DEF BoardInv, BoardTypeOK, Converge, PutFrameState, Event
<1>2. BoardTypeOK' BY <1>1 DEF BoardInv, BoardTypeOK, Here, state, walk, deck, count, panel
<1> QED
  BY <1>1, <1>2 DEF BoardInv, WholePicture, PictureIsCurrent, PictureOK, WalkOK, Here, Deck,
                    Blocks, state, walk, deck, count, panel

LEMMA RepublishKeeps ==
  ASSUME BoardInv, NEW ch \in Channel, NEW e \in Editions, Republish(ch, e)
  PROVE  BoardInv'
<1>1. /\ UNCHANGED <<pc, state, walk, deck, framePixels, panel, stored, visible>>
      /\ arena' = [arena EXCEPT ![ch] = e] /\ events' \in 0 .. MaxEvents
      /\ due' = IF ch = stateChannel THEN None ELSE due
  BY BoardAssumption DEF BoardInv, BoardTypeOK, Republish, Event
<1>2. BoardTypeOK' BY <1>1 DEF BoardInv, BoardTypeOK, Here, state, walk, deck, count, panel
<1>3. WalkOK'
  <2>1. CASE ch = stateChannel BY <1>1, <2>1 DEF WalkOK
  <2>2. CASE ch # stateChannel
    <3>1. arena'[stateChannel] = arena[stateChannel] BY <1>1, <2>2 DEF BoardInv, BoardTypeOK
    <3> QED BY <1>1, <2>2, <3>1 DEF BoardInv, WalkOK, Here, Deck, Blocks, state, walk, deck, count
  <2> QED BY <2>1, <2>2
<1> QED BY <1>1, <1>2, <1>3 DEF BoardInv, WholePicture, PictureIsCurrent, PictureOK, state,
                                walk, deck, count, panel

LEMMA RebootKeeps == ASSUME BoardInv, Reboot PROVE BoardInv'
<1>1. BoardTypeOK'
  <2>1. Here' \in Place BY DEF Reboot, Here, Place
  <2>2. due' \in Place BY DEF Reboot, Top, Place
  <2>3. events' \in 0 .. MaxEvents /\ stateChannel' \in Channel
    BY BoardAssumption DEF BoardInv, BoardTypeOK, Reboot, Event
  <2> QED BY <2>1, <2>2, <2>3 DEF BoardInv, BoardTypeOK, Reboot, Show, Mode
<1>2. Here' = due' BY DEF Reboot, Here, Top
<1> QED BY <1>1, <1>2 DEF Reboot, Show, BoardInv, WholePicture, PictureIsCurrent, PictureOK, WalkOK

-----------------------------------------------------------------------------
(* The loop.  Steps that only leave a place, or fail.                      *)

\* The walk stays where it is, and nothing is fetched or held.
LEMMA WalkRests ==
  ASSUME BoardInv, pc' \notin {"image", "holding"},
         UNCHANGED <<stateChannel, page, cursor, arena, due>>
  PROVE  WalkOK'
BY DEF BoardInv, WalkOK, Here, Deck, Blocks

LEMMA ConnectingKeeps ==
  ASSUME BoardInv, Retry \/ Connect \/ LoseWifi
  PROVE  BoardInv'
<1>1. /\ UNCHANGED <<state, walk, deck, framePixels, panel, cloud, due>>
      /\ pc' \in {"connect", "poll"}
  BY DEF Retry, Connect, LoseWifi
<1>2. BoardTypeOK' BY <1>1 DEF BoardInv, BoardTypeOK, Here, state, walk, deck, count, panel, cloud
<1>3. WalkOK' BY <1>1, WalkRests DEF state, walk, cloud
<1> QED BY <1>1, <1>2, <1>3 DEF BoardInv, WholePicture, PictureIsCurrent, PictureOK, state, panel

LEMMA FailuresKeep ==
  ASSUME BoardInv, ConnectFails \/ DeckFails \/ ImageFails
  PROVE  BoardInv'
<1>1. /\ UNCHANGED <<state, walk, count, cloud, due, backlight>>
      /\ Show("error") /\ pc' = "waiting"
      /\ framePixels' \in {framePixels, None} /\ wanted' \in {wanted, None}
  BY DEF ConnectFails, DeckFails, ImageFails, Fail, deck
<1>2. BoardTypeOK' BY <1>1 DEF BoardInv, BoardTypeOK, Here, Show, state, walk, count, cloud
<1>3. WalkOK' BY <1>1, WalkRests DEF state, walk, cloud
<1> QED BY <1>1, <1>2, <1>3 DEF BoardInv, WholePicture, PictureIsCurrent, PictureOK, Show

LEMMA PollKeeps == ASSUME BoardInv, Poll PROVE BoardInv'
<1>1. PICK s \in FrameState : FetchState(s) BY DEF Poll, BoardInv, BoardTypeOK
<1>2. s.mode \in Mode /\ s.channel \in Channel \cup {None} BY DocumentType
<1>3. UNCHANGED <<deck, framePixels, panel, cloud>> BY DEF Poll
<1>4. /\ pc' \in {"dispatch", "connect", "holding", "parked"}
      /\ pc' = "holding" => pc = "holding" /\ ~stateDirty'
  BY DEF Poll
<1> DEFINE changed == s.channel \notin {None, stateChannel}
<1>5. CASE changed
  <2>1. /\ stateChannel' = s.channel /\ stateDirty' = TRUE /\ mode' = s.mode
        /\ page' = 1 /\ cursor' = 0 /\ due' = Top
    BY <1>1, <1>5 DEF FetchState, BoardInv, BoardTypeOK
  <2>2. Here' \in Place /\ due' \in Place
    BY <2>1 DEF Here, Place, Top
  <2>3. BoardTypeOK'
    BY <1>2, <1>3, <1>4, <1>5, <2>1, <2>2 DEF BoardInv, BoardTypeOK, deck, count, panel, cloud
  <2>4. pc' \notin {"deck", "image", "holding"} BY <1>4, <2>1
  <2>5. Here' = due' /\ cursor' = 0 BY <2>1 DEF Here, Top
  <2>6. WalkOK' BY <2>4, <2>5 DEF WalkOK
  <2> QED BY <1>3, <2>1, <2>3, <2>4, <2>6
          DEF BoardInv, WholePicture, PictureIsCurrent, PictureOK, panel
<1>6. CASE ~changed
  <2>1. /\ stateChannel' = stateChannel /\ mode' = s.mode
        /\ stateDirty' = (stateDirty \/ s.mode # mode)
        /\ page' = page /\ cursor' = cursor /\ due' = due
    BY <1>1, <1>6 DEF FetchState, walk
  <2>2. stateDirty' \in BOOLEAN BY <2>1
  <2>3. BoardTypeOK'
    BY <1>2, <1>3, <1>4, <2>1, <2>2 DEF BoardInv, BoardTypeOK, Here, deck, count, panel, cloud
  <2>4. pc' \notin {"deck", "image"} BY <1>4
  <2>5. WalkOK'
    BY <1>3, <1>4, <2>1 DEF BoardInv, WalkOK, Here, Deck, Blocks, deck, count, cloud
  <2>6. ~stateDirty' => mode' = mode /\ ~stateDirty BY <2>1
  <2>7. PictureOK' /\ PictureIsCurrent'
    BY <1>3, <1>4, <2>1, <2>4, <2>6 DEF BoardInv, PictureIsCurrent, PictureOK, panel
  <2> QED BY <1>3, <2>3, <2>5, <2>7 DEF BoardInv, WholePicture, panel
<1> QED BY <1>5, <1>6

LEMMA DispatchKeeps == ASSUME BoardInv, Dispatch PROVE BoardInv'
<1>1. /\ UNCHANGED <<mode, stateChannel, walk, deck, framePixels, cloud, due>>
      /\ pc' = IF mode = "deck" THEN "deck" ELSE "parked"
      /\ stateDirty' = (stateDirty /\ mode = "deck")
  BY DEF Dispatch
<1>2. \/ mode = "deck" /\ screen' = screen /\ picture' = picture
      \/ screen' \in {"black", "clock", "video"} /\ picture' = None
  BY DEF Dispatch, Show
<1>3. backlight' \in BOOLEAN BY DEF Dispatch
<1>4. BoardTypeOK' BY <1>1, <1>2, <1>3 DEF BoardInv, BoardTypeOK, Here, walk, deck, count, cloud
<1>5. WalkOK' BY <1>1, WalkRests DEF walk, cloud
<1> QED BY <1>1, <1>2, <1>4, <1>5 DEF BoardInv, WholePicture, PictureIsCurrent, PictureOK

-----------------------------------------------------------------------------
(* drawCurrent.                                                            *)

LEMMA FetchDeckKeeps == ASSUME BoardInv, FetchDeck PROVE BoardInv'
<1> DEFINE blocks == Blocks(stateChannel, page)
<1>1. /\ pc = "deck" /\ blockCount' = Len(blocks)
      /\ hasMore' = (page < Len(arena[stateChannel]))
      /\ UNCHANGED <<state, page, framePixels, cloud>>
  BY DEF FetchDeck
<1>2. /\ stateChannel \in Channel /\ page \in Nat \ {0} /\ cursor \in Nat
      /\ arena[stateChannel] \in Seq(Seq(Block))
  BY BoardAssumption DEF BoardInv, BoardTypeOK, Here, Place
<1>3. blocks \in Seq(Block) /\ Len(blocks) \in Nat BY <1>2, BlocksType DEF BoardInv
<1>4. CASE blocks = <<>>
  <2>1. Show("error") /\ pc' = "waiting" /\ UNCHANGED <<backlight, cursor, wanted, due>>
    BY <1>4 DEF FetchDeck, Fail
  <2>2. BoardTypeOK' BY <1>1, <1>3, <2>1 DEF BoardInv, BoardTypeOK, Here, Show, state, cloud
  <2>3. WalkOK' BY <1>1, <2>1, WalkRests DEF state, cloud
  <2> QED BY <1>1, <2>1, <2>2, <2>3
          DEF BoardInv, WholePicture, PictureIsCurrent, PictureOK, Show, state
<1>5. CASE blocks # <<>>
  <2>1. /\ cursor' = cursor % Len(blocks) /\ wanted' = blocks[(cursor % Len(blocks)) + 1]
        /\ due' = IF due = None THEN [page |-> page, cursor |-> cursor'] ELSE due
        /\ pc' = "image" /\ UNCHANGED panel
    BY <1>5 DEF FetchDeck
  <2>2. Len(blocks) \in Nat \ {0} BY <1>3, <1>5, EmptySeq
  <2>3. /\ cursor' \in Nat /\ cursor' < Len(blocks)
        /\ (cursor % Len(blocks)) + 1 \in 1 .. Len(blocks)
        /\ cursor = 0 \/ cursor < Len(blocks) => cursor' = cursor
    BY <1>2, <2>1, <2>2, CursorWraps
  <2>4. wanted' \in Block /\ wanted' # None
    BY <1>3, <2>1, <2>3, ElementOfSeq, BoardAssumption
  <2>5. Here' \in Place BY <1>1, <1>2, <2>3 DEF Here, Place
  <2>6. due' \in Place \cup {None}
    BY <1>1, <2>1, <2>5 DEF BoardInv, BoardTypeOK, Here
  <2>7. BoardTypeOK'
    BY <1>1, <2>1, <1>3, <2>4, <2>5, <2>6 DEF BoardInv, BoardTypeOK, panel, state, cloud
  <2>8. Here' = due' \/ due' = None
    <3>1. CASE due = None BY <1>1, <2>1, <3>1 DEF Here
    <3>2. CASE due # None
      <4>1. Here = due /\ cursor' = cursor
        BY <2>3, <3>2 DEF BoardInv, WalkOK, Deck
      <4> QED BY <1>1, <2>1, <3>2, <4>1 DEF Here
    <3> QED BY <3>1, <3>2
  <2>9. WalkOK' BY <1>1, <2>1, <2>3, <2>8 DEF WalkOK, Deck, Blocks, state, cloud
  <2> QED BY <1>1, <2>1, <2>2, <2>4, <2>7, <2>9
          DEF BoardInv, WholePicture, PictureIsCurrent, PictureOK, panel, state
<1> QED BY <1>4, <1>5

LEMMA FetchImageKeeps == ASSUME BoardInv, FetchImage PROVE BoardInv'
<1>1. /\ pc = "image" /\ mode = "deck" /\ wanted \in Block /\ blockCount > 0
      /\ stateChannel \in Channel
  BY DEF FetchImage, BoardInv, PictureOK, BoardTypeOK
<1>2. /\ framePixels' = [channel |-> stateChannel, block |-> wanted]
      /\ screen' = "image" /\ picture' = framePixels'
      /\ stateDirty' = FALSE /\ pc' = "holding" /\ wanted' = None
      /\ UNCHANGED <<mode, stateChannel, walk, count, backlight, cloud, due>>
  BY DEF FetchImage
<1>3. framePixels' \in Picture /\ framePixels' # None BY <1>1, <1>2, PictureFields
<1>4. framePixels'.channel = stateChannel' BY <1>2
<1>5. BoardTypeOK' BY <1>2, <1>3 DEF BoardInv, BoardTypeOK, Here, walk, count, cloud
<1>6. WalkOK'
  BY <1>1, <1>2 DEF BoardInv, WalkOK, Here, Deck, Blocks, walk, count, cloud
<1> QED BY <1>1, <1>2, <1>3, <1>4, <1>5, <1>6
        DEF BoardInv, WholePicture, PictureIsCurrent, PictureOK

-----------------------------------------------------------------------------
(* waitForNext.                                                            *)

\* The board leaves for the place whose turn it is, or has lost its turn.
LEMMA MoveKeeps ==
  ASSUME BoardInv, pc = "holding", pc' = "connect", blockCount # 0,
         NEW p \in {NextPlace, PreviousPlace}, page' = p.page, cursor' = p.cursor,
         due' \in {p, None}, due = None => due' = None,
         UNCHANGED <<state, deck, framePixels, panel, stored, visible, arena>>,
         events' \in 0 .. MaxEvents
  PROVE  BoardInv'
<1>1. BoardTypeOK /\ blockCount > 0 BY DEF BoardInv, BoardTypeOK
<1>2. p \in Place /\ p = [page |-> p.page, cursor |-> p.cursor] BY <1>1, StepTypes DEF Place
<1>3. Here' = p /\ Here' \in Place BY <1>2 DEF Here
<1>4. BoardTypeOK' BY <1>1, <1>2, <1>3 DEF BoardTypeOK, state, deck, count, panel
<1>5. WalkOK'
  <2>1. CASE due' = None BY <2>1 DEF WalkOK
  <2>2. CASE due' # None
    <3>1. Here' = due' BY <1>3, <2>2
    <3>2. blockCount = Len(Deck) /\ cursor < blockCount BY <2>2 DEF BoardInv, WalkOK
    <3>3. cursor' = 0 \/ (page' = page /\ cursor' < blockCount) BY <1>1, <3>2, StepTypes
    <3>4. cursor' = 0 \/ cursor' < Len(Deck') BY <3>2, <3>3 DEF Deck, Blocks, state
    <3> QED BY <3>1, <3>4 DEF WalkOK
  <2> QED BY <2>1, <2>2
<1> QED BY <1>4, <1>5
        DEF BoardInv, WholePicture, PictureIsCurrent, PictureOK, state, panel

LEMMA LeavingKeeps == ASSUME BoardInv, EndCycle \/ HoldPrevious PROVE BoardInv'
<1>1. /\ pc = "holding" /\ pc' = "connect" /\ blockCount # 0
      /\ UNCHANGED <<state, deck, framePixels, panel, stored, visible, arena>>
      /\ events' \in 0 .. MaxEvents
  BY BoardAssumption DEF EndCycle, HoldPrevious, AdvanceFrame, RetreatFrame, cloud, BoardInv,
                         BoardTypeOK, Event
<1>2. due # None => /\ NextPlace = After(due)
                    /\ PreviousPlace = Before(due) \/ Before(due) = None
  BY <1>1, StepsInTurn DEF BoardInv, WalkOK
<1>3. CASE EndCycle
  <2>1. /\ page' = NextPlace.page /\ cursor' = NextPlace.cursor
        /\ due' = IF due = None THEN None ELSE After(due)
    BY <1>3 DEF EndCycle, AdvanceFrame
  <2> QED BY <1>1, <1>2, <2>1, MoveKeeps
<1>4. CASE HoldPrevious
  <2>1. /\ page' = PreviousPlace.page /\ cursor' = PreviousPlace.cursor
        /\ due' = IF due = None THEN None ELSE Before(due)
    BY <1>4 DEF HoldPrevious, RetreatFrame
  <2> QED BY <1>1, <1>2, <2>1, MoveKeeps
<1> QED BY <1>3, <1>4

LEMMA TapKeeps == ASSUME BoardInv, Tap PROVE BoardInv'
<1>1. UNCHANGED <<pc, state, walk, deck, framePixels, backlight, cloud, due>> BY DEF Tap
<1>2. \/ screen' = "clock" /\ picture' = None
      \/ pc = "holding" /\ screen' = "image" /\ picture' = framePixels
  BY DEF Tap, ChangeFace, Show
<1>3. BoardTypeOK' BY <1>1, <1>2 DEF BoardInv, BoardTypeOK, Here, state, walk, deck, count, cloud
<1>4. WalkOK'
  BY <1>1 DEF BoardInv, WalkOK, Here, Deck, Blocks, state,
              walk, deck, count, cloud
<1>5. /\ pc' = pc /\ mode' = mode /\ stateChannel' = stateChannel /\ stateDirty' = stateDirty
      /\ wanted' = wanted /\ blockCount' = blockCount /\ framePixels' = framePixels
  BY <1>1 DEF state, deck, count
<1>6. PictureOK' BY <1>5 DEF BoardInv, PictureOK
<1>7. WholePicture' /\ PictureIsCurrent'
  <2>1. CASE screen' = "clock" BY <2>1 DEF WholePicture, PictureIsCurrent
  <2>2. CASE pc = "holding" /\ screen' = "image" /\ picture' = framePixels
    BY <1>5, <2>2 DEF BoardInv, PictureOK, WholePicture, PictureIsCurrent
  <2> QED BY <1>2, <2>1, <2>2
<1> QED BY <1>3, <1>4, <1>6, <1>7 DEF BoardInv

-----------------------------------------------------------------------------
LEMMA StepKeeps == BoardInv /\ [Next]_vars => BoardInv'
<1> SUFFICES ASSUME BoardInv, [Next]_vars PROVE BoardInv' OBVIOUS
<1>1. CASE UNCHANGED vars
  <2>1. BoardTypeOK'
    BY <1>1 DEF BoardInv, BoardTypeOK, Here, vars, state, walk, deck, count, panel, cloud
  <2> QED
    BY <1>1, <2>1 DEF BoardInv, WholePicture, PictureIsCurrent, PictureOK, WalkOK, Here, Deck,
                      Blocks, vars, state, walk, deck, count,
                      panel, cloud
<1>2. CASE Outside BY <1>2, DocumentsKeep, RepublishKeeps, RebootKeeps DEF Outside
<1>3. CASE Loop
  BY <1>3, ConnectingKeeps, FailuresKeep, DispatchKeeps, FetchDeckKeeps, FetchImageKeeps DEF Loop
<1>4. CASE Poll BY <1>4, PollKeeps
<1>5. CASE EndCycle \/ HoldPrevious BY <1>5, LeavingKeeps
<1>6. CASE LoseWifi BY <1>6, ConnectingKeeps
<1>7. CASE Tap BY <1>7, TapKeeps
<1> QED BY <1>1, <1>2, <1>3, <1>4, <1>5, <1>6, <1>7 DEF Next

LEMMA BoardAlways == Spec => []BoardInv
BY Start, StepKeeps, PTL DEF Spec

\* Every variable keeps its type; the cursor, which is a size_t, never goes
\* below zero, also when "previous" is held at the first block of a page
\* (retreatFrame).
THEOREM BoardTypeCorrect == Spec => []BoardTypeOK
BY BoardAlways, PTL DEF BoardInv

\* Half a picture, as a short read leaves it in the buffer, is never shown
\* (fetchFrame, redisplay after a tap).
THEOREM PicturesAreWhole == Spec => []WholePicture
BY BoardAlways, PTL DEF BoardInv

\* A picture of another mode or channel is only on the panel while
\* stateDirty is raised (pollState, fetchState).
THEOREM PicturesAreCurrent == Spec => []PictureIsCurrent
BY BoardAlways, PTL DEF BoardInv

\* While a channel stays what it was when its deck was fetched, its pictures
\* come in their turn: the next place of the deck after a cycle, the same one
\* after a failure, and, but for a page's first block in a deck of several
\* pages, the place before for "previous" (drawCurrent, advanceFrame,
\* retreatFrame).
THEOREM WalkStaysInOrder == Spec => []WalkInOrder
<1>1. BoardInv => WalkInOrder BY DEF BoardInv, WalkOK, WalkInOrder, Here
<1> QED BY <1>1, BoardAlways, PTL

=============================================================================
