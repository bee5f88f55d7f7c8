---------------------------- MODULE FrameBoardMC ----------------------------
(***************************************************************************)
(* Instances of FrameBoard for TLC.                                        *)
(***************************************************************************)
EXTENDS FrameBoard, TLC

CONSTANTS home, other, a, b, c, dead

\* Two pages; one with a page without images and a block that does not
\* render; one page.
TwoPages == <<<<a, b>>, <<c>>>>
Holes    == <<<<a>>, <<>>, <<dead, c>>>>
OnePage  == <<<<c, a>>>>

AllEditions == {TwoPages, Holes, OnePage}
FirstDecks  == (home :> TwoPages) @@ (other :> OnePage)

HoleEditions == {Holes}
FirstHole    == [ch \in {home} |-> Holes]

Doc(m, ch) == [mode |-> m, channel |-> ch, fits |-> TRUE]
Documents ==
  {Doc("deck", other), Doc("deck", None), Doc("clock", home), Doc("video", other),
   Doc("off", other), [mode |-> "off", channel |-> home, fits |-> FALSE]}

=============================================================================
