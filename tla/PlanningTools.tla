---------------------------- MODULE PlanningTools ----------------------------
(***************************************************************************)
(* The tools that plan a project's work: cycle, module, milestone, label,  *)
(* state, initiative and project_estimate.  For each tool the table of its *)
(* actions and the steps of its handler.                                   *)
(***************************************************************************)
EXTENDS Toolkit

CycleActions ==
  LET one == {"project_id", "cycle_id"} IN
  [list |-> Reads({"project_id"}, {"archived", "status"}),
   retrieve |-> Reads(one, {}),
   create |-> Writes({"project_id", "name", "owned_by"}, {}),
   update |-> Writes(one, {}),
   delete |-> Destroys(one, {}),
   list_workitems |-> Reads(one, {"pql"}),
   manage_workitems |-> Writes(one, {"add_ids", "remove_ids"}),
   transfer_workitems |-> Writes(one \cup {"new_cycle_id"}, {}),
   complete |-> Writes(one, {}),
   archive |-> Writes(one, {}),
   unarchive |-> Writes(one, {})]

\* Archiving ends the cycle first when it is "running".
Cycle(c) == Need({"project_id"}) \o
  CASE c.action = "list" -> When(~ Has(c, "archived"), OneOf({"status"})) \o Read
    [] c.action = "create" -> Need({"name", "owned_by"}) \o Add
    [] OTHER -> Need({"cycle_id"}) \o
  CASE c.action = "list_workitems" -> Read
    [] c.action = "manage_workitems" -> Members(c, Add, Each(Remove))
    [] c.action = "transfer_workitems" -> Need({"new_cycle_id"}) \o Change
    [] c.action \in {"complete", "unarchive"} -> Change
    [] c.action = "archive" -> Read \o When(Holds(c, "running"), Change) \o Change
    [] OTHER -> Record(c)

ModuleActions ==
  LET one == {"project_id", "module_id"} IN
  [list |-> Reads({"project_id"}, {}),
   retrieve |-> Reads(one, {}),
   create |-> Writes({"project_id", "name"}, {"status"}),
   update |-> Writes(one, {"status"}),
   delete |-> Destroys(one, {}),
   list_workitems |-> Reads(one, {"pql"}),
   manage_workitems |-> Writes(one, {"add_ids", "remove_ids"}),
   archive |-> Writes(one, {}),
   unarchive |-> Writes(one, {})]

Module(c) == Need({"project_id"}) \o OneOf({"status"}) \o
  CASE c.action \in {"list", "create"} -> Crud(c, {"name"}, "module_id")
    [] OTHER -> Need({"module_id"}) \o
  CASE c.action = "list_workitems" -> Read
    [] c.action = "manage_workitems" -> Members(c, Add, Each(Remove))
    [] c.action \in {"archive", "unarchive"} -> Change
    [] OTHER -> Record(c)

MilestoneActions ==
  LET one == {"project_id", "milestone_id"} IN
  [list |-> Reads({"project_id"}, {}),
   retrieve |-> Reads(one, {}),
   create |-> Writes({"project_id", "title"}, {}),
   update |-> Writes(one, {}),
   delete |-> Destroys(one, {}),
   list_workitems |-> Reads(one, {}),
   manage_workitems |-> Writes(one, {"add_ids", "remove_ids"})]

Milestone(c) == Need({"project_id"}) \o
  CASE c.action = "list_workitems" -> Need({"milestone_id"}) \o Read
    [] c.action = "manage_workitems" -> Need({"milestone_id"}) \o Members(c, Add, Remove)
    [] OTHER -> Crud(c, {"title"}, "milestone_id")

LabelActions ==
  LET one == {"project_id", "label_id"} IN
  [list |-> Reads({"project_id"}, {}),
   retrieve |-> Reads(one, {}),
   create |-> Writes({"project_id", "name"}, {}),
   update |-> Writes(one, {}),
   delete |-> Destroys(one, {})]

Label(c) == Need({"project_id"}) \o Crud(c, {"name"}, "label_id")

\* What a state can be given; without the group a workspace state cannot be made.
UngroupedStateFields == {"project_id", "sequence", "default"}

StateFields == {"project_id", "sequence", "group", "default"}

StateActions ==
  [list |-> Reads({}, {"project_id"}),
   retrieve |-> Reads({"state_id"}, {"project_id"}),
   create |-> Writes({"name", "color"}, StateFields),
   update |-> Writes({"state_id"}, StateFields),
   delete |-> Destroys({"state_id"}, {"project_id"})]

\* Without a project a state is the workspace's: the self-hosted client has no
\* such catalogue and refuses every request to it.
State(c) ==
  LET scoped(request) == IF Has(c, "project_id") THEN request ELSE RefuseAsking({"project_id"}) IN
  When(~ Has(c, "project_id") /\ {"sequence", "default"} \cap c.given # {}, Refuse)
    \o OneOf({"group"}) \o
  CASE c.action = "list" -> scoped(Read)
    [] c.action = "create" ->
         Need({"name", "color"}) \o When(~ Has(c, "project_id"), Need({"group"})) \o scoped(Add)
    [] OTHER -> Need({"state_id"}) \o scoped(Record(c))

InitiativeActions ==
  LET one == {"initiative_id"} IN
  [list |-> Reads({}, {}),
   retrieve |-> Reads(one, {}),
   create |-> Writes({"name"}, {"state"}),
   update |-> Writes(one, {"state"}),
   delete |-> Destroys(one, {}),
   list_projects |-> Reads(one, {}),
   add_projects |-> Writes(one \cup {"project_ids"}, {}),
   remove_projects |-> Destroys(one \cup {"project_ids"}, {}),
   list_workitems |-> Reads(one, {}),
   manage_workitems |-> Writes(one, {"add_ids", "remove_ids"})]

\* The declared arguments are checked before the probe of the workspace's
\* features; _require_native refuses when initiatives are not "native" there.
Initiative(c) ==
  LET native == Read \o When(~ Holds(c, "native"), Refuse) IN
  OneOf({"state"}) \o Need(InitiativeActions[c.action].requires) \o native \o
  CASE c.action \in {"list", "list_projects", "list_workitems"} -> Read
    [] c.action \in {"create", "add_projects"} -> Add
    [] c.action = "remove_projects" -> Remove
    [] c.action = "manage_workitems" ->
         NeedOne({"add_ids", "remove_ids"})
           \o When(Has(c, "remove_ids"), Remove) \o When(Has(c, "add_ids"), Add)
    [] OTHER -> Record(c)

ProjectEstimateActions ==
  LET one == {"project_id", "estimate_id"} IN
  [retrieve |-> Reads({"project_id"}, {}),
   create |-> Writes({"project_id", "name"}, {"type"}),
   update |-> Writes({"project_id"}, {}),
   delete |-> Destroys({"project_id"}, {}),
   link |-> Writes(one, {}),
   list_points |-> Reads(one, {}),
   create_points |-> Writes(one \cup {"points"}, {}),
   update_point |-> Writes(one \cup {"estimate_point_id"}, {}),
   delete_point |-> Destroys(one \cup {"estimate_point_id"}, {})]

\* The points of create_points are JSON.
ProjectEstimate(c) == Need({"project_id"}) \o OneOf({"type"}) \o
  CASE c.action = "create" -> Need({"name"}) \o Add
    [] c.action \in {"retrieve", "update", "delete"} -> Record(c)
    [] OTHER -> Need({"estimate_id"}) \o
  CASE c.action = "link" -> Change
    [] c.action = "list_points" -> Read
    [] c.action = "create_points" -> OneOf({"points"}) \o Need({"points"}) \o Add
    [] c.action = "update_point" -> Need({"estimate_point_id"}) \o Change
    [] c.action = "delete_point" -> Need({"estimate_point_id"}) \o Remove
=============================================================================
