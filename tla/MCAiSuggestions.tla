-------------------------- MODULE MCAiSuggestions --------------------------
(***************************************************************************)
(* Two requests, enough for one to use the other's cache entry or the      *)
(* last units of a quota, and two reviews of what they store.              *)
(***************************************************************************)
EXTENDS AiSuggestions, TLC

CONSTANTS s1, s2, u1, u2

Symmetry == Permutations(Requests) \cup Permutations(Reviewers)

MCOwner == s1 :> u1 @@ s2 :> u2
=============================================================================
