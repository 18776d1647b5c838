--------------------------- MODULE MCApiTokenBridge ---------------------------
(* Instances of ApiTokenBridge for the model checker.                      *)
EXTENDS ApiTokenBridge, TLC

\* Calls, users and replicas are interchangeable.
Symmetric == Permutations(Call) \cup Permutations(User) \cup Permutations(Replica)
=============================================================================
