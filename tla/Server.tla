------------------------------- MODULE Server -------------------------------
(***************************************************************************)
(* Calls served at the same time, of one process: each is verified and     *)
(* given its client (Connection), and then edits a work item (ItemEdit) or *)
(* resolves a work item type (TypeResolve) in its workspace.               *)
(***************************************************************************)
EXTENDS ItemEdit, TypeResolve

CONSTANT Requests   \* the requests that arrive together, one for each call

\* One server takes them all; main starts stdio only with a key and a workspace.
ASSUME RequestAssumption ==
  /\ Requests \subseteq [Call -> Request]
  /\ \A r \in Requests : \E server \in Servers : \A c \in Call : r[c].transport \in server
  /\ \A r \in Requests, c \in Call :
       r[c].transport = "stdio" => EnvironmentKey # "none" /\ Environment # NoWorkspace

vars == <<connectionVars, editVars, resolveVars>>

TypeOK == ConnectionTypeOK /\ EditTypeOK /\ ResolveTypeOK

Init ==
  /\ \E r \in Requests : ConnectionInit(r)
  /\ EditInit /\ ResolveInit

\* The session and the ownership of types change whenever they do; the changes
\* that no call is left to notice are not made.
Elsewhere ==
  \/ /\ \E c \in Call : Is(c, "cognito") /\ access[c].phase \in {"presented", "validated", "mapped"}
     /\ Refresh \/ End
     /\ UNCHANGED <<editVars, resolveVars>>
  \/ \E c \in Call :
       /\ At(c, "connected") /\ access[c].job.op = "resolve"
       /\ Govern(In(c)) /\ UNCHANGED editVars

Serve(c) ==
  \/ ConnectionStep(c) /\ UNCHANGED <<editVars, resolveVars>>
  \/ EditStep(c) /\ UNCHANGED resolveVars
  \/ ResolveStep(c) /\ UNCHANGED editVars
  \/ At(c, "refused") /\ Return(c) /\ UNCHANGED <<editVars, resolveVars>>

Next == Elsewhere \/ \E c \in Call : Serve(c)

Spec == Init /\ [][Next]_vars
=============================================================================
