------------------------------ MODULE ToolCall ------------------------------
(***************************************************************************)
(* One tools/call from its arrival to its answer: the argument check of    *)
(* the middleware, the name looked up among the tools in force, the        *)
(* guards, and the steps of the handler with every request to Plane, each  *)
(* of which may fail.  A download from a url of the caller's is SafeFetch. *)
(***************************************************************************)
EXTENDS ToolSurface, SafeFetch

CONSTANTS
  Surfaces,    \* the tools and actions in force: resource -> actions
  Calls        \* the calls made of each surface

\* A surface is made of the tools and actions the catalogue declares
\* (visibility.parse_enabled_tools drops every other name); a call names a
\* tool, and a value that is bad is one that was given.
ASSUME ToolCallAssumption ==
  \A s \in Surfaces :
    /\ \A t \in DOMAIN s : t \in Tool /\ s[t] \subseteq DOMAIN Catalogue[t]
    /\ \A c \in Calls[s] : c.tool \in Tool /\ c.bad \subseteq c.given

VARIABLES
  surface,     \* rigid
  phase,       \* "idle", "received", "serving", or how the call was answered
  call,        \* what is asked
  name,        \* the tool name it is asked under
  script,      \* the steps still to go
  sent,        \* the requests Plane carried out
  lacking      \* the arguments the refusal asks for

progress == <<phase, script, sent, lacking>>
callVars == <<surface, call, name, progress>>
vars == <<callVars, fetchVars>>

NoCall == [tool |-> "none", action |-> "none", given |-> {}, bad |-> {}, facts |-> {}]
Answers == {"rejected", "unknown", "refused", "failed", "answered"}

TypeOK ==
  /\ FetchTypeOK
  /\ surface \in Surfaces
  /\ phase \in {"idle", "received", "serving"} \cup Answers
  /\ call.tool \in Tool \cup {"none"} /\ call.bad \subseteq call.given
  /\ name \in {"none", "retired"} \cup Tool \cup DOMAIN Alias
  /\ \A i \in DOMAIN script : script[i].kind \in Checks \cup Requests \cup {"connect", "fetch"}
  /\ \A i \in DOMAIN sent : sent[i] \in Requests

Init ==
  /\ FetchInit
  /\ surface \in Surfaces
  /\ phase = "idle" /\ call = NoCall /\ name = "none"
  /\ script = <<>> /\ sent = <<>> /\ lacking = {}

\* The names of an operation.  An alias takes its own arguments only.
Names(c) ==
  {c.tool}
    \cup {n \in {"retired"} : <<c.tool, c.action>> \in Retired}
    \cup {n \in DOMAIN Alias : Alias[n].tool = c.tool /\ Alias[n].action = c.action
                                 /\ c.given \subseteq Alias[n].args \cup {"workspace_slug"}}

\* A tool of a single action takes none: its call is of that action.
Chosen(c) ==
  IF c.action = "none" /\ Cardinality(DOMAIN Catalogue[c.tool]) = 1
  THEN [c EXCEPT !.action = CHOOSE a \in DOMAIN Catalogue[c.tool] : TRUE] ELSE c

Receive ==
  /\ phase = "idle"
  /\ \E c \in Calls[surface] : \E n \in Names(c) : call' = Chosen(c) /\ name' = n
  /\ phase' = "received"
  /\ UNCHANGED <<surface, script, sent, lacking, fetchVars>>

\* ValidateActionArguments: no action where there is a choice, or an argument
\* the action does not take.
Invalid ==
  /\ name = call.tool
  /\ call.action \in DOMAIN Catalogue[call.tool] => StrayArguments(call) # {}

Reject ==
  /\ phase = "received" /\ Invalid
  /\ phase' = "rejected"
  /\ UNCHANGED <<surface, call, name, script, sent, lacking, fetchVars>>

\* The name is resolved to its tool, which has to be listed; an alias requires
\* each of its arguments.
Known == call.tool \in DOMAIN surface /\ (name \in DOMAIN Alias => Alias[name].args \subseteq call.given)

NotFound ==
  /\ phase = "received" /\ ~ Invalid /\ ~ Known
  /\ phase' = "unknown"
  /\ UNCHANGED <<surface, call, name, script, sent, lacking, fetchVars>>

Serve ==
  /\ phase = "received" /\ ~ Invalid /\ Known
  /\ phase' = "serving"
  /\ script' = Served(surface, call)
  /\ UNCHANGED <<surface, call, name, sent, lacking, fetchVars>>

\* The next step of the script.
Facing(kinds) == phase = "serving" /\ script # <<>> /\ Head(script).kind \in kinds
Done == script' = Tail(script) /\ UNCHANGED phase
Answer(answer) == phase' = answer /\ UNCHANGED script
Still == UNCHANGED <<surface, call, name, fetchVars>>

Check ==
  /\ Facing(Checks)
  /\ IF Passes(call, Head(script)) THEN Done /\ UNCHANGED lacking
     ELSE /\ Answer("refused")
          /\ lacking' = Head(script).asks \ call.given
  /\ Still /\ UNCHANGED sent

\* get_plane_client_context: without a slug of its own the call needs one the
\* connection or the environment names.
Connected ==
  /\ Facing({"connect"})
  /\ \/ Done
     \/ ~ Has(call, "workspace_slug") /\ Answer("refused")
  /\ Still /\ UNCHANGED <<sent, lacking>>

Send ==
  /\ Facing(Requests)
  /\ Done /\ sent' = Append(sent, Head(script).kind)
  /\ Still /\ UNCHANGED lacking

\* A request that fails ends the call, as an exception or as a message
\* (toolkit/governance.py, paging.pql_failure); nothing done before is undone.
Fail ==
  /\ Facing(Requests)
  /\ Answer("failed")
  /\ Still /\ UNCHANGED <<sent, lacking>>

Finish ==
  /\ phase = "serving" /\ script = <<>>
  /\ Answer("answered")
  /\ Still /\ UNCHANGED <<sent, lacking>>

\* The download of a "fetch" step.
Fetching(step) ==
  /\ Facing({"fetch"}) /\ step
  /\ UNCHANGED callVars

Fetched ==
  /\ Facing({"fetch"}) /\ fetch.status \in {"fetched", "refused"}
  /\ IF fetch.status = "fetched" THEN Done ELSE Answer("failed")
  /\ fetch' = [NoFetch EXCEPT !.reached = fetch.reached]
  /\ UNCHANGED <<surface, call, name, sent, lacking, dns>>

Begin == Fetching(\E h \in Host \cup {NoHost} : BeginFetch(h))
Follow == Fetching(FetchStep)
Rebound == Fetching(fetch.status # "idle" /\ \E h \in Host : \E a \in SUBSET Address : Rebind(h, a))

Work == Reject \/ NotFound \/ Serve \/ Check \/ Connected \/ Send \/ Fail \/ Finish \/ Begin \/ Follow \/ Fetched

Next == Receive \/ Work \/ Rebound

\* The server works on: requests and downloads have time limits.
Spec == Init /\ [][Next]_vars /\ WF_vars(Work)
-----------------------------------------------------------------------------
Changed == {i \in DOMAIN sent : sent[i] \in Effects}

(***************************************************************************)
(* A call that is answered with a refusal has changed nothing in Plane:    *)
(* whatever the middleware, a guard, or a check of a handler - the ones    *)
(* that need a request first included - objects to is found before the     *)
(* first write.                                                            *)
(***************************************************************************)
RefusalChangesNothing == phase \in {"rejected", "unknown", "refused"} => Changed = {}

(***************************************************************************)
(* Nothing is asked of Plane, and no url is fetched, for a call that lacks *)
(* an argument its action declares as required: the checks written in the  *)
(* handlers agree with the ACTIONS tables the descriptions are built from, *)
(* whichever name the call comes under.                                    *)
(***************************************************************************)
NothingLacking ==
  sent # <<>> \/ fetch.status # "idle" =>
    Catalogue[call.tool][call.action].requires \subseteq call.given

\* What a call may be given: what its action takes, less what this Plane ignores.
Askable(c) ==
  {a \in Accepted(Catalogue[c.tool][c.action]) :
     c.tool \in DOMAIN Unsupported => a \notin Unsupported[c.tool]}

(***************************************************************************)
(* "The message must name exactly what to supply" (toolkit/runtime.py): a  *)
(* refusal that asks for arguments asks for some the action takes, so that *)
(* the next call is neither rejected as stray nor refused as unsupported.  *)
(***************************************************************************)
RefusalCanBeFollowed == phase = "refused" => lacking \subseteq Askable(call)

\* The names that two refusals get wrong: those manage_assignee asks for, and
\* the relation definitions, which this Plane lacks; the guard against these
\* says relation_type whatever the action.
Misnamed(c) ==
  CASE <<c.tool, c.action>> = <<"workitem", "manage_assignee">> -> {"add_assignee_id", "remove_assignee_id"}
    [] c.tool = "workitem_relation" -> Unsupported["workitem_relation"] \cup Instead(c)
    [] OTHER -> {}

(***************************************************************************)
(* Every other argument a refusal asks for - of the middleware, a guard or *)
(* any check of any handler - is one the action takes and this Plane       *)
(* supports: no caller is sent round in a circle.                          *)
(***************************************************************************)
Correctable == phase = "refused" => lacking \ Misnamed(call) \subseteq Askable(call)

(***************************************************************************)
(* What a call does to Plane's data is within the hints published for its  *)
(* tool (moneta/annotations.py), on every surface, those of a single       *)
(* action included - but for creating a customer that is known, which      *)
(* changes it under the hint of an addition.                               *)
(***************************************************************************)
Upserts == <<call.tool, call.action>> = <<"customer", "create">> /\ Holds(call, "known")
WithinHints ==
  Upserts \/ \A i \in DOMAIN sent : Severity(sent[i]) <= ToolEffect(surface, call.tool)

(***************************************************************************)
(* No name - the tool's own, a retired one or an alias - leads to a        *)
(* request by an action that is not in force.                              *)
(***************************************************************************)
OnlyEnabledReached == sent # <<>> => Enabled(surface, call.tool, call.action)

(***************************************************************************)
(* No request is made for a call with an argument this Plane would ignore: *)
(* a filter that filters nothing is refused under every name and on every  *)
(* way to the handler (moneta/pql_guard.py, moneta/trims.py).              *)
(***************************************************************************)
NothingIgnored ==
  sent # <<>> =>
    /\ call.tool \in DOMAIN Unsupported => Unsupported[call.tool] \cap call.given = {}
    /\ call.tool \in {"workitem", "cycle", "module"} => ~ Has(call, "pql")

(***************************************************************************)
(* A call that fails leaves earlier changes of its own behind only where   *)
(* one operation is several changes: members added and removed, a cycle    *)
(* completed to be archived, a type made to be imported, a property made   *)
(* to be linked.  Everywhere else it can be repeated from the start.       *)
(***************************************************************************)
Compound ==
  {<<t, "manage_workitems">> : t \in {"cycle", "module", "milestone", "initiative", "customer", "release"}}
    \cup {<<"cycle", "archive">>, <<"workitem_type", "resolve">>, <<"workitem_property", "create">>,
          <<"workitem_property", "manage_type_properties">>}
HalfDoneIsKnown == phase = "failed" /\ Changed # {} => <<call.tool, call.action>> \in Compound

(***************************************************************************)
(* Every call is answered: no failure, redirect or name that keeps being   *)
(* rebound leaves it without an answer.                                    *)
(***************************************************************************)
EveryCallAnswered == phase = "received" ~> phase \in Answers
=============================================================================
