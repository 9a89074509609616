----------------------------- MODULE MCPrompts -----------------------------
(***************************************************************************)
(* A type with an active prompt and a rival, and the planning type, which  *)
(* has none at first.                                                      *)
(***************************************************************************)
EXTENDS Prompts, TLC

Symmetry == Permutations(Admins) \cup Permutations(Instances)

MCTypeOf == [p \in Prompts |->
  IF p \in {"plan", "badSystem", "badUser"} THEN "planning" ELSE "rewrite"]

MCVersionOf == [p \in Prompts |->
  IF p = "v1" THEN "1" ELSE "2"]

MCSystemNames == [p \in Prompts |->
  IF p = "badSystem" THEN {"nonce", "context"} ELSE {"nonce"}]

MCUserNames == [p \in Prompts |->
  IF p = "badUser" THEN {"context"}
  ELSE IF MCTypeOf[p] = "planning" THEN {"prompt", "context"} ELSE {"content"}]
=============================================================================
