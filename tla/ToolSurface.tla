----------------------------- MODULE ToolSurface -----------------------------
(***************************************************************************)
(* The catalogue of tools and what the Moneta fork makes of it             *)
(* (moneta/surface.py): the resources and actions in force, the hints      *)
(* published for a gateway, the old names that still resolve, and the      *)
(* checks wrapped around the tools.  A call passes them from the outermost *)
(* inwards: the curated actions, the injected workspace_slug, link urls,   *)
(* unsupported arguments, restored relation types, PQL, the handler.       *)
(***************************************************************************)
EXTENDS Naturals, PlanningTools, WorkItemTools, WorkspaceTools

\* registry.RESOURCES.
Catalogue ==
  [customer |-> CustomerActions, customer_property |-> CustomerPropertyActions,
   customer_request |-> CustomerRequestActions, cycle |-> CycleActions,
   get_pql_reference |-> PqlReferenceActions, initiative |-> InitiativeActions,
   intake |-> IntakeActions, label |-> LabelActions, member |-> MemberActions,
   milestone |-> MilestoneActions, module |-> ModuleActions, page |-> PageActions,
   project |-> ProjectActions, project_estimate |-> ProjectEstimateActions,
   release |-> ReleaseActions, release_label |-> ReleaseLabelActions,
   release_tag |-> ReleaseTagActions, state |-> StateActions, work_log |-> WorkLogActions,
   workitem |-> WorkItemActions, workitem_activity |-> ActivityActions,
   workitem_attachment |-> AttachmentActions, workitem_comment |-> CommentActions,
   workitem_link |-> LinkActions, workitem_property |-> PropertyActions,
   workitem_relation |-> RelationActions, workitem_type |-> TypeActions,
   workspace |-> WorkspaceActions, template |-> TemplateActions, collection |-> CollectionActions]

Tool == DOMAIN Catalogue
Operation == UNION {{<<t, a>> : a \in DOMAIN Catalogue[t]} : t \in Tool}

\* tools.register_tools.
Handler(c) ==
  CASE c.tool = "customer" -> Customer(c)
    [] c.tool = "customer_property" -> CustomerProperty(c)
    [] c.tool = "customer_request" -> CustomerRequest(c)
    [] c.tool = "cycle" -> Cycle(c)
    [] c.tool = "get_pql_reference" -> PqlReference(c)
    [] c.tool = "initiative" -> Initiative(c)
    [] c.tool = "intake" -> Intake(c)
    [] c.tool = "label" -> Label(c)
    [] c.tool = "member" -> Member(c)
    [] c.tool = "milestone" -> Milestone(c)
    [] c.tool = "module" -> Module(c)
    [] c.tool = "page" -> Page(c)
    [] c.tool = "project" -> Project(c)
    [] c.tool = "project_estimate" -> ProjectEstimate(c)
    [] c.tool = "release" -> Release(c)
    [] c.tool = "release_label" -> ReleaseLabel(c)
    [] c.tool = "release_tag" -> ReleaseTag(c)
    [] c.tool = "state" -> State(c)
    [] c.tool = "work_log" -> WorkLog(c)
    [] c.tool = "workitem" -> WorkItem(c)
    [] c.tool = "workitem_activity" -> Activity(c)
    [] c.tool = "workitem_attachment" -> Attachment(c)
    [] c.tool = "workitem_comment" -> Comment(c)
    [] c.tool = "workitem_link" -> Link(c)
    [] c.tool = "workitem_property" -> Property(c)
    [] c.tool = "workitem_relation" -> Relation(c)
    [] c.tool = "workitem_type" -> Type(c)
    [] c.tool = "workspace" -> Workspace(c)
    [] c.tool = "template" -> Template(c)
    [] c.tool = "collection" -> Collection(c)

-----------------------------------------------------------------------------
(* Which actions are in force. *)

\* visibility.ENABLED_ACTIONS.
Curated ==
  [project |-> {"list", "retrieve", "update"},
   workitem |-> {"list", "retrieve", "retrieve_by_identifier", "search", "create", "update",
                 "manage_assignee", "manage_label"},
   workitem_comment |-> {"list", "retrieve", "create", "update", "delete"},
   workitem_link |-> {"list", "retrieve", "create", "update", "delete"},
   workitem_relation |-> {"list", "create"},
   cycle |-> {"list", "retrieve", "create", "update", "list_workitems", "manage_workitems",
              "transfer_workitems", "complete"},
   module |-> {"list", "retrieve", "list_workitems", "manage_workitems"},
   label |-> {"list", "retrieve"},
   state |-> {"list", "retrieve"},
   member |-> {"me", "list_workspace", "list_project"}]

\* PLANE_MCP_ENABLED_TOOLS: an entry is a resource, with all its actions, or
\* the retired name of one action.
EnabledBy(entries) ==
  LET resources == {e[1] : e \in entries} IN
  [t \in resources |->
     IF <<t, "*">> \in entries THEN DOMAIN Catalogue[t]
     ELSE {e[2] : e \in {f \in entries : f[1] = t}}]

Enabled(surface, tool, action) == tool \in DOMAIN surface /\ action \in surface[tool]

-----------------------------------------------------------------------------
(* The hints of a tool, by the most severe of the actions it accepts: READ  *)
(* is 0, ADD 1 and DESTRUCTIVE 2, told from the first word of the name.     *)

ReadNames ==
  {"me", "read", "count", "worklog_summary", "download_url", "list", "retrieve", "search",
   "get_features", "get_changelog", "get_values", "get_value", "search_pages",
   "retrieve_by_identifier", "retrieve_role", "retrieve_option", "list_archived",
   "list_workitems", "list_projects", "list_points", "list_definitions", "list_options",
   "list_pages", "list_members", "list_workitem_pages", "list_workspace", "list_project", "list_roles"}

AddNames ==
  {"create", "create_points", "create_option", "create_definition", "add_projects", "add_pages",
   "add_member", "attach", "attach_to_workitem"}

\* Listing what is known to write, instead, lets every other name read.
EffectOfListed(action) ==
  IF action \in AddNames THEN 1 ELSE IF action \in {"update", "delete", "archive"} THEN 2 ELSE 0

EffectOf(action) == IF action \in ReadNames THEN 0 ELSE IF action \in AddNames THEN 1 ELSE 2

ToolEffect(surface, tool) ==
  LET reachable == IF tool \in DOMAIN surface THEN surface[tool] \cap DOMAIN Catalogue[tool]
                   ELSE DOMAIN Catalogue[tool]
      effects == {EffectOf(a) : a \in reachable} IN
  IF effects = {} THEN 2 ELSE CHOOSE e \in effects : \A f \in effects : f <= e

\* What a request does to the data, on the same scale.
Severity(request) == CASE request \in {"read", "denied", "download"} -> 0
                       [] request = "add" -> 1
                       [] request \in {"change", "remove"} -> 2

-----------------------------------------------------------------------------
(* Names a call may use. *)

\* Actions no retired name maps to: newer than the names, or unmapped.
NewActions ==
  {<<"customer", "manage_workitems">>, <<"get_pql_reference", "read">>,
   <<"initiative", "add_projects">>, <<"initiative", "remove_projects">>,
   <<"initiative", "list_workitems">>, <<"initiative", "manage_workitems">>,
   <<"page", "update">>, <<"page", "archive">>, <<"page", "delete">>, <<"page", "set_collection">>,
   <<"project", "archive">>, <<"project", "unarchive">>, <<"project", "get_features">>,
   <<"cycle", "archive">>, <<"cycle", "unarchive">>, <<"module", "archive">>, <<"module", "unarchive">>,
   <<"release", "manage_workitems">>, <<"release_label", "attach">>, <<"release_label", "detach">>,
   <<"workspace", "retrieve">>}
    \cup {o \in Operation : o[1] \in {"template", "collection"}}

\* registry.alias_table: the retired name of an operation stands for that operation.
Retired == Operation \ NewActions

\* aliases.ALIASES: the fork's old names, with the arguments each of them requires.
Alias ==
  LET alias(tool, action, args) == [tool |-> tool, action |-> action, args |-> args]
      item(action, arg) == alias("workitem", action, Item \cup {arg})
      container(tool, id, arg) == alias(tool, "manage_workitems", {"project_id", id, arg}) IN
  [add_work_item_assignee |-> item("manage_assignee", "add_user_id"),
   remove_work_item_assignee |-> item("manage_assignee", "remove_user_id"),
   add_work_item_label |-> item("manage_label", "add_label_id"),
   remove_work_item_label |-> item("manage_label", "remove_label_id"),
   add_work_items_to_cycle |-> container("cycle", "cycle_id", "add_ids"),
   remove_work_item_from_cycle |-> container("cycle", "cycle_id", "remove_ids"),
   add_work_items_to_module |-> container("module", "module_id", "add_ids"),
   remove_work_item_from_module |-> container("module", "module_id", "remove_ids")]

-----------------------------------------------------------------------------
(* The checks before a handler. *)

\* workspace_slug is set aside, then whatever else the action does not declare
\* is stray.  Only a call by a tool's own name is looked at.
StrayArguments(c) == (c.given \ {"workspace_slug"}) \ Accepted(Catalogue[c.tool][c.action])

\* visibility._action_guard: the action is in force.  Its plausible mistake is
\* to ask whether the tool declares it.
BarredIfUndeclared(surface, c) == c.action \notin DOMAIN Catalogue[c.tool]

Barred(surface, c) == c.action \notin surface[c.tool]

\* links: the url, where there is one, is http(s).
UnsafeLink(c) == c.tool = "workitem_link" /\ "url" \in c.bad

\* trims.UNSUPPORTED_ARGUMENTS.
Unsupported ==
  [member |-> {"role_slug", "is_active", "is_bot", "cursor", "per_page", "order_by"},
   workitem_relation |-> {"relation_definition_id", "relation_definition_label"}]

Trimmed(c) == c.tool \in DOMAIN Unsupported /\ Unsupported[c.tool] \cap c.given # {}

\* Its refusal of a relation definition says what to pass instead.
Instead(c) == {a \in {"relation_type"} : c.tool = "workitem_relation"}

\* relates_to and duplicate ("restored") go straight to the relations route.
RestoresRelation(c) ==
  /\ c.tool = "workitem_relation" /\ c.action = "create" /\ Holds(c, "restored")
  /\ {"project_id", "workitem_id", "workitem_ids", "relation_type"} \subseteq c.given

Filters(c) == c.tool \in {"workitem", "cycle", "module"} /\ Has(c, "pql")

\* The workspace and the credentials of the call, which come before anything
\* else a handler does; the reference needs neither.
Connect(c) == When(c.tool # "get_pql_reference", Plain("connect"))

\* Everything a call that reached its tool goes through.
ServedRestoredFirst(surface, c) ==
  IF Barred(surface, c) \/ UnsafeLink(c) THEN Refuse
  ELSE IF RestoresRelation(c) THEN Connect(c) \o Add
  ELSE IF Trimmed(c) THEN RefuseAsking(Instead(c))
  ELSE IF Filters(c) THEN Refuse
  ELSE Connect(c) \o Handler(c)

Served(surface, c) ==
  IF Barred(surface, c) \/ UnsafeLink(c) THEN Refuse
  ELSE IF Trimmed(c) THEN RefuseAsking(Instead(c))
  ELSE IF RestoresRelation(c) THEN Connect(c) \o Add
  ELSE IF Filters(c) THEN Refuse
  ELSE Connect(c) \o Handler(c)
=============================================================================
