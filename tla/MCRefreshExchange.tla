-------------------------- MODULE MCRefreshExchange --------------------------
(* Instances of RefreshExchange for the model checker.                     *)
EXTENDS RefreshExchange, TLC

\* Requests, clients, sessions and replicas are interchangeable in Init, Next
\* and every invariant; Home is the one replica named, so replicas are not
\* permuted.
Symmetric == Permutations(Request) \cup Permutations(Client) \cup Permutations(Session)
=============================================================================
