---------------------------- MODULE MCConnectors ----------------------------
(* Instances of Connectors for TLC. *)
EXTENDS Connectors, TLC

\* Handlers are interchangeable, and so are the accounts Composio makes.
ConnectorsSymmetry == Permutations(Handlers) \cup Permutations(Accounts)
=============================================================================
