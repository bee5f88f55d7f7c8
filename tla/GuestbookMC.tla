---------------------------- MODULE GuestbookMC ----------------------------
(***************************************************************************)
(* Instances of Guestbook for TLC.                                         *)
(***************************************************************************)
EXTENDS Guestbook, TLC

CONSTANTS b1, a1, a2

\* One visitor, with several tabs and two accounts.
OneVisitor == b1 :> {a1, a2}

RequestSymmetry == Permutations(Request)

=============================================================================
