-------------------------- MODULE MCRecentRefreshes --------------------------
(* Instance of RecentRefreshes for the model checker.                      *)
EXTENDS RecentRefreshes, TLC

\* Clients are interchangeable; tokens are not, being numbered.
Symmetric == Permutations(Client)
=============================================================================
