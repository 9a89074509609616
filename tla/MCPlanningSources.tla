--------------------------- MODULE MCPlanningSources ---------------------------
(***************************************************************************)
(* Two sections in one document of the user, one in another and one of     *)
(* somebody else.                                                          *)
(***************************************************************************)
EXTENDS PlanningSources

MCDocumentOf == [s \in Sections |->
  CASE s \in {1, 2} -> "d1" [] s = 3 -> "d2" [] s = 4 -> "d3"]

MCOwnerOf == [d1 |-> User, d2 |-> User, d3 |-> "somebody"]

\* Texts that fit, that are cut, and of which nothing is left.
MCTexts == {0, 2, 6}

MCStored == {stored \in [Sections -> MCTexts] : stored[4] = 2}

MCContexts == { <<>>, <<3, 0>> }
=============================================================================
