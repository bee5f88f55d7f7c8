--------------------------- MODULE ArenaContentMC ---------------------------
(***************************************************************************)
(* An instance of ArenaContent for TLC: four channels, two with the slug,  *)
(* on up to four pages of the index, and channels of up to four blocks.    *)
(***************************************************************************)
EXTENDS ArenaContent

CONSTANTS w1, w2, b1, b2, b3, stray

\* Every index of four channels or less, and a channel of four pages, one or none.
Indexes == UNION {SetToSeqs(S) : S \in SUBSET Channel}
Contents == {<<>>, <<b1>>, <<b1, stray, b2, b3>>}

StartLists ==
  {("index" :> i) @@ (w1 :> c) @@ (w2 :> <<b2>>) : i \in Indexes, c \in Contents}

=============================================================================
