----------------------------- MODULE TypeResolve -----------------------------
(***************************************************************************)
(* resolve of tools/workitem_type.py (_resolve, _adopt_from_workspace): a  *)
(* type of one name is found or created so that it is usable in a project, *)
(* whichever scope owns types.  The workspace may take them over meanwhile;*)
(* the flag that tells of it is cached, and may be toggled off while the   *)
(* lockout of project-level types stays.  There is one project in each     *)
(* workspace.                                                              *)
(***************************************************************************)
EXTENDS Connection

CONSTANTS
  MaxTypes,   \* as many types of the name as there can be
  Paged       \* a project may have more types than fit on a page

ASSUME ResolveAssumption == Paged \in BOOLEAN

VARIABLES
  governance,   \* governance[w]: project-level types are locked, the flag says
                \* so, and the project has types enabled
  types,        \* types[w]: the types of the name the catalogue and the project hold
  resolve       \* resolve[c]: the request c makes next, the type it has found, and
                \* whether another call has made one since c began

resolveVars == <<governance, types, resolve>>

Type == 1 .. MaxTypes
NoType == 0

Stages == {"list", "ask workspace", "ask project", "enable", "create", "list catalogue", "add", "import", "done"}

NoResolve == [stage |-> "list", found |-> NoType, overtaken |-> FALSE]

ResolveTypeOK ==
  /\ governance \in [Workspace -> [locked : BOOLEAN, flag : BOOLEAN, enabled : BOOLEAN]]
  /\ types \in [Workspace -> [catalogue : SUBSET Type, project : SUBSET Type]]
  /\ resolve \in [Call -> [stage : Stages, found : Type \cup {NoType}, overtaken : BOOLEAN]]

ResolveInit ==
  /\ governance = [w \in Workspace |-> [locked |-> FALSE, flag |-> FALSE, enabled |-> FALSE]]
  /\ types = [w \in Workspace |-> [catalogue |-> {}, project |-> {}]]
  /\ resolve = [c \in Call |-> NoResolve]

\* The workspace takes types over; the flag is read as it was, as it is, or as
\* it is after it was toggled off; the project enables types, where it may.
Lock(w) ==
  /\ ~ governance[w].locked
  /\ governance' = [governance EXCEPT ![w].locked = TRUE]

Toggle(w) ==
  /\ governance[w].locked
  /\ governance' = [governance EXCEPT ![w].flag = ~ @]

EnableElsewhere(w) ==
  /\ ~ governance[w].locked /\ ~ governance[w].enabled
  /\ governance' = [governance EXCEPT ![w].enabled = TRUE]

Govern(w) ==
  /\ Lock(w) \/ Toggle(w) \/ EnableElsewhere(w)
  /\ UNCHANGED <<types, resolve, connectionVars>>

-----------------------------------------------------------------------------
Resolves(c, stage) ==
  At(c, "connected") /\ access[c].job.op = "resolve" /\ resolve[c].stage = stage

In(c) == access[c].workspace
Of(w) == types[w].catalogue \cup types[w].project

Moves(c, stage, found) == resolve' = [resolve EXCEPT ![c].stage = stage, ![c].found = found]
Goes(c, stage) == Moves(c, stage, resolve[c].found)
Asks == UNCHANGED <<governance, types, connectionVars>>

\* Some type of the name, the stage it leads to, and the stage there is none.
Finds(c, among, stage, otherwise) ==
  IF among = {} THEN Goes(c, otherwise) ELSE \E t \in among : Moves(c, stage, t)

\* The project's own list comes first; its endpoint paginates, and one page is read.
Page(held) == IF Paged THEN SUBSET held ELSE {held}

List(c) ==
  /\ Resolves(c, "list") /\ Asks
  /\ \E page \in Page(types[In(c)].project) : Finds(c, page, "done", "ask workspace")

\* workspace_owns_resource reads the flag.
AskWorkspace(c) ==
  /\ Resolves(c, "ask workspace") /\ Asks
  /\ Goes(c, IF governance[In(c)].flag THEN "list catalogue" ELSE "ask project")

AskProject(c) ==
  /\ Resolves(c, "ask project") /\ Asks
  /\ Goes(c, IF governance[In(c)].enabled THEN "create" ELSE "enable")

\* The call ends: with its answer, on an error, or on a request without one.
Ends(c) == Return(c) /\ resolve' = [resolve EXCEPT ![c] = NoResolve]

\* A refusal of update_features tells of the lockout.
Enable(c) ==
  /\ Resolves(c, "enable") /\ UNCHANGED types
  /\ IF governance[In(c)].locked
     THEN Goes(c, "list catalogue") /\ UNCHANGED <<governance, connectionVars>>
     ELSE /\ governance' = [governance EXCEPT ![In(c)].enabled = TRUE]
          /\ (Goes(c, "create") /\ UNCHANGED connectionVars) \/ Ends(c)

\* One type more in a scope.
With(held, scope, t) ==
  IF scope = "catalogue" THEN [held EXCEPT !.catalogue = @ \cup {t}]
  ELSE [held EXCEPT !.project = @ \cup {t}]

\* A new type, which the call learns of or not.
Makes(c, scope, stage) ==
  \E t \in Type \ Of(In(c)) :
    LET overtakes == [d \in Call |-> [resolve[d] EXCEPT
                        !.overtaken = @ \/ (At(d, "connected") /\ In(d) = In(c) /\ resolve[d].stage # "list")]] IN
    /\ \A u \in Type \ Of(In(c)) : t <= u
    /\ types' = [types EXCEPT ![In(c)] = With(@, scope, t)]
    /\ UNCHANGED governance
    /\ \/ resolve' = [overtakes EXCEPT ![c] = [resolve[c] EXCEPT !.stage = stage, !.found = t]]
          /\ UNCHANGED connectionVars
       \/ resolve' = [overtakes EXCEPT ![c] = NoResolve] /\ Return(c)

\* A lockout is answered with a message (scoped).
Create(c) ==
  /\ Resolves(c, "create")
  /\ IF governance[In(c)].locked THEN Ends(c) /\ UNCHANGED <<governance, types>>
     ELSE Makes(c, "project", "done")

\* _adopt_from_workspace.  Without the look into the catalogue a type is made at
\* every call; without the question whether one was found, none is ever made.
AddUnseen(c) == Resolves(c, "list catalogue") /\ Goes(c, "add") /\ Asks

ImportAnyway(c) ==
  Resolves(c, "list catalogue") /\ Finds(c, types[In(c)].catalogue, "import", "import") /\ Asks

ListCatalogue(c) ==
  Resolves(c, "list catalogue") /\ Finds(c, types[In(c)].catalogue, "import", "add") /\ Asks

\* A type made in the catalogue is not yet one of the project.
AddOnly(c) == Resolves(c, "add") /\ Makes(c, "catalogue", "done")

AddToCatalogue(c) == Resolves(c, "add") /\ Makes(c, "catalogue", "import")

Import(c) ==
  /\ Resolves(c, "import") /\ UNCHANGED governance
  /\ types' = [types EXCEPT ![In(c)] = With(@, "project", resolve[c].found)]
  /\ (Goes(c, "done") /\ UNCHANGED connectionVars) \/ Ends(c)

Fails(c) ==
  /\ At(c, "connected") /\ access[c].job.op = "resolve"
  /\ Ends(c) /\ UNCHANGED <<governance, types>>

ResolveStep(c) ==
  \/ List(c) \/ AskWorkspace(c) \/ AskProject(c) \/ Enable(c) \/ Create(c)
  \/ ListCatalogue(c) \/ AddToCatalogue(c) \/ Import(c) \/ Fails(c)

-----------------------------------------------------------------------------
(***************************************************************************)
(* resolve makes no second type of the name, in either scope: one left by  *)
(* a call that failed halfway, or that a lockout has cut off, is found     *)
(* again.  Only calls that overlap can duplicate it - one that another has *)
(* overtaken since it looked - as long as the project's types fit on the   *)
(* page that is read ("never duplicates", workitem_type.py).               *)
(***************************************************************************)
NoSecondType ==
  [][\A w \in Workspace : Of(w) # {} /\ Of(w)' # Of(w) =>
       \E c \in Call : In(c) = w /\ resolve[c].overtaken /\ resolve'[c] # resolve[c]]_types

(***************************************************************************)
(* The type resolve answers with is one of the project it was asked for,   *)
(* whoever owns types and however that changed during the call.            *)
(***************************************************************************)
ResolvedIsUsable ==
  \A c \in Call : Resolves(c, "done") => resolve[c].found \in types[In(c)].project
=============================================================================
