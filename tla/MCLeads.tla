------------------------------ MODULE MCLeads ------------------------------
(***************************************************************************)
(* Two leads and an administrator, two operations that overlap.            *)
(***************************************************************************)
EXTENDS Leads, TLC

Symmetry == Permutations(Runs)

MCForms ==
  { [persona |-> "apprentice", trello |-> TRUE, due |-> 2, optIn |-> TRUE],
    [persona |-> "intern", trello |-> FALSE, due |-> 0, optIn |-> FALSE] }
=============================================================================
