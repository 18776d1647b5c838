---------------------------- MODULE WorkspaceTools ----------------------------
(***************************************************************************)
(* The tools about the workspace: projects, members, pages, collections,   *)
(* templates, customers, releases, the workspace's own settings, and the   *)
(* PQL reference.  For each tool the table of its actions and the steps of *)
(* its handler.                                                            *)
(***************************************************************************)
EXTENDS Toolkit

ProjectActions ==
  LET one == {"project_id"} IN
  [list |-> Reads({}, {}),
   retrieve |-> Reads(one, {}),
   create |-> Writes({"name", "identifier"}, {"timezone"}),
   update |-> Writes(one, {"timezone", "network"}),
   delete |-> Destroys(one, {}),
   archive |-> Writes(one, {}),
   unarchive |-> Writes(one, {}),
   worklog_summary |-> Reads(one, {}),
   get_features |-> Reads(one, {}),
   update_features |-> Writes(one, {})]

Project(c) == OneOf({"timezone", "network"}) \o
  CASE c.action \in {"archive", "unarchive", "update_features"} -> Need({"project_id"}) \o Change
    [] c.action \in {"worklog_summary", "get_features"} -> Need({"project_id"}) \o Read
    [] OTHER -> Crud(c, {"name", "identifier"}, "project_id")

MemberActions ==
  [me |-> Reads({}, {}),
   list_workspace |-> Reads({}, {"role_slug", "is_active", "is_bot", "cursor", "per_page", "order_by"}),
   list_project |-> Reads({"project_id"}, {}),
   list_roles |-> Reads({}, {}),
   retrieve_role |-> Reads({"role_id"}, {})]

Member(c) ==
  CASE c.action = "list_project" -> Need({"project_id"}) \o Read
    [] c.action = "retrieve_role" -> Need({"role_id"}) \o Read
    [] OTHER -> Read

PageActions ==
  LET one == {"page_id"}  item == {"project_id", "workitem_id"} IN
  [list |-> Reads({}, {"project_id"}),
   retrieve |-> Reads(one, {"project_id"}),
   create |-> Writes({"name", "description_html"}, {"project_id", "parent_id", "collection_id"}),
   update |-> Writes(one, {"project_id", "name", "description_html"}),
   archive |-> Writes(one, {"project_id"}),
   delete |-> Destroys(one, {"project_id"}),
   set_collection |-> Writes(one \cup {"collection_id"}, {}),
   list_workitem_pages |-> Reads(item, {}),
   attach_to_workitem |-> Writes(item \cup one, {}),
   detach_from_workitem |-> Destroys(item \cup {"workitem_page_id"}, {})]

\* A page is filed in one collection at most: set_collection adds one that is
\* "unfiled", moves one filed elsewhere and leaves one that is "there".
\* Taking it out first and filing it then would lose it half way.
RefiledByRemoving(c) == Read \o
  CASE Holds(c, "unfiled") -> Add
    [] Holds(c, "there") -> <<>>
    [] OTHER -> Remove \o Add

SetCollection(c) == Read \o
  CASE Holds(c, "unfiled") -> Add
    [] Holds(c, "there") -> <<>>
    [] OTHER -> Change

Page(c) ==
  CASE c.action = "list" -> Read
    [] c.action \in {"retrieve", "delete"} -> Need({"page_id"}) \o Record(c)
    [] c.action = "archive" -> Need({"page_id"}) \o Change
    [] c.action = "update" -> Need({"page_id"}) \o NeedOne({"name", "description_html"}) \o Change
    [] c.action = "create" -> Need({"name", "description_html"})
         \o When(Has(c, "collection_id") /\ {"parent_id", "project_id"} \cap c.given # {}, Refuse) \o Add
    [] c.action = "set_collection" -> Need({"page_id", "collection_id"}) \o SetCollection(c)
    [] OTHER -> Need({"project_id", "workitem_id"}) \o
  CASE c.action = "list_workitem_pages" -> Read
    [] c.action = "attach_to_workitem" -> Need({"page_id"}) \o Add
    [] c.action = "detach_from_workitem" -> Need({"workitem_page_id"}) \o Remove

CollectionActions ==
  LET one == {"collection_id"}  membership == one \cup {"collection_member_id"} IN
  [list |-> Reads({}, {}),
   retrieve |-> Reads(one, {}),
   create |-> Writes({"name"}, {"access"}),
   update |-> Writes(one, {"name", "sort_order"}),
   delete |-> Destroys(one, {}),
   list_pages |-> Reads(one, {}),
   search_pages |-> Reads(one, {}),
   add_pages |-> Writes(one \cup {"page_ids"}, {}),
   remove_page |-> Destroys(one \cup {"page_collection_id"}, {}),
   list_members |-> Reads(one, {}),
   add_member |-> Writes(one \cup {"user_id", "member_access"}, {}),
   update_member |-> Writes(membership \cup {"member_access"}, {}),
   remove_member |-> Destroys(membership, {})]

Collection(c) == OneOf({"access", "member_access"}) \o
  CASE c.action \in {"list", "create", "retrieve", "delete"} -> Crud(c, {"name"}, "collection_id")
    [] OTHER -> Need({"collection_id"}) \o
  CASE c.action = "update" -> NeedOne({"name", "sort_order"}) \o Change
    [] c.action \in {"list_pages", "search_pages", "list_members"} -> Read
    [] c.action = "add_pages" -> Need({"page_ids"}) \o Add
    [] c.action = "remove_page" -> Need({"page_collection_id"}) \o Remove
    [] c.action = "add_member" -> Need({"user_id", "member_access"}) \o Add
    [] c.action = "update_member" ->
         Need({"collection_member_id"}) \o Need({"member_access"}) \o Change
    [] c.action = "remove_member" -> Need({"collection_member_id"}) \o Remove

TemplateActions ==
  LET one == {"kind", "template_id"} IN
  [list |-> Reads({"kind"}, {"project_id"}),
   create |-> Writes({"kind", "name", "template_data"}, {"project_id"}),
   update |-> Writes(one, {"project_id", "name", "description", "template_data"}),
   delete |-> Destroys(one, {"project_id"})]

\* template_data is a JSON object; a kind may be that of projects, which no
\* project can hold.
Template(c) == Need({"kind"}) \o OneOf({"kind"})
  \o When(Has(c, "project_id") /\ Holds(c, "of projects"), Refuse) \o
  CASE c.action = "list" -> Read
    [] OTHER -> OneOf({"template_data"}) \o
  CASE c.action = "create" -> Need({"name", "template_data"}) \o Add
    [] c.action = "update" -> Need({"template_id"})
         \o When(Has(c, "template_data") /\ Holds(c, "no fields"), Refuse)
         \o NeedOne({"name", "description", "template_data"}) \o Change
    [] c.action = "delete" -> Need({"template_id"}) \o Remove

CustomerActions ==
  LET one == {"customer_id"} IN
  [list |-> Reads({}, {}),
   retrieve |-> Reads(one, {}),
   create |-> Writes({"name"}, {}),
   update |-> Writes(one, {}),
   delete |-> Destroys({}, {"customer_id", "external_source", "external_id"}),
   list_workitems |-> Reads(one, {}),
   manage_workitems |-> Writes(one, {"link_ids", "unlink_ids"})]

\* Creating a customer that is "known" changes it.
Customer(c) ==
  CASE c.action = "create" -> Need({"name"}) \o (IF Holds(c, "known") THEN Change ELSE Add)
    [] c.action = "delete" ->
         When(~ {"external_source", "external_id"} \subseteq c.given,
              NeedAsking({"customer_id"}, {"customer_id", "external_source", "external_id"}))
           \o Remove
    [] c.action = "list_workitems" -> Need({"customer_id"}) \o Read
    [] c.action = "manage_workitems" -> Need({"customer_id"}) \o NeedOne({"link_ids", "unlink_ids"})
         \o When(Has(c, "link_ids"), Add) \o When(Has(c, "unlink_ids"), Each(Remove))
    [] OTHER -> Crud(c, {}, "customer_id")

CustomerPropertyActions ==
  LET one == {"property_id"}  kinds == {"relation_type"} IN
  [list |-> Reads({}, {}),
   retrieve |-> Reads(one, {}),
   create |-> Writes({"display_name", "property_type"}, kinds),
   update |-> Writes(one, kinds),
   delete |-> Destroys(one, {}),
   get_values |-> Reads({"customer_id"}, {"property_id"}),
   set_values |-> Writes({"customer_id", "values"}, {})]

CustomerProperty(c) == OneOf({"property_type", "relation_type"}) \o
  CASE c.action = "get_values" -> Need({"customer_id"}) \o Read
    [] c.action = "set_values" -> Need({"customer_id", "values"}) \o OneOf({"values"}) \o Change
    [] OTHER -> Crud(c, {"display_name", "property_type"}, "property_id")

CustomerRequestActions ==
  LET one == {"customer_id", "request_id"} IN
  [list |-> Reads({"customer_id"}, {}),
   retrieve |-> Reads(one, {}),
   create |-> Writes({"customer_id", "name"}, {}),
   update |-> Writes(one, {}),
   delete |-> Destroys(one, {})]

CustomerRequest(c) == Need({"customer_id"}) \o Crud(c, {"name"}, "request_id")

ReleaseActions ==
  LET one == {"release_id"} IN
  [list |-> Reads({}, {}),
   retrieve |-> Reads(one, {}),
   create |-> Writes({"name"}, {"status"}),
   update |-> Writes(one, {"status"}),
   delete |-> Destroys(one, {}),
   get_changelog |-> Reads(one, {}),
   update_changelog |-> Writes(one, {"description_html", "description_stripped"}),
   list_workitems |-> Reads(one, {}),
   manage_workitems |-> Writes(one, {"add_ids", "remove_ids"})]

Release(c) == OneOf({"status"}) \o
  CASE c.action \in {"list", "create"} -> Crud(c, {"name"}, "release_id")
    [] OTHER -> Need({"release_id"}) \o
  CASE c.action \in {"get_changelog", "list_workitems"} -> Read
    [] c.action = "update_changelog" -> NeedOne({"description_html", "description_stripped"}) \o Change
    [] c.action = "manage_workitems" -> Members(c, Add, Remove)
    [] OTHER -> Record(c)

ReleaseLabelActions ==
  LET carried == {"release_id", "label_ids"} IN
  [list |-> Reads({}, {"release_id"}),
   create |-> Writes({"name"}, {}),
   update |-> Writes({"label_id"}, {}),
   delete |-> Destroys({"label_id"}, {}),
   attach |-> Writes(carried, {}),
   detach |-> Destroys(carried, {})]

ReleaseLabel(c) ==
  CASE c.action = "attach" -> Need({"release_id", "label_ids"}) \o Add
    [] c.action = "detach" -> Need({"release_id", "label_ids"}) \o Remove
    [] OTHER -> Crud(c, {"name"}, "label_id")

ReleaseTagActions ==
  LET one == {"tag_id"} IN
  [list |-> Reads({}, {}),
   retrieve |-> Reads(one, {}),
   create |-> Writes({"version"}, {}),
   update |-> Writes(one, {}),
   delete |-> Destroys(one, {})]

ReleaseTag(c) == Crud(c, {"version"}, "tag_id")

WorkspaceActions ==
  [retrieve |-> Reads({}, {}), get_features |-> Reads({}, {}), update_features |-> Writes({}, {})]

\* What the connection's credentials say of the workspace takes no request.
Workspace(c) ==
  CASE c.action = "retrieve" -> <<>>
    [] c.action = "get_features" -> Read
    [] c.action = "update_features" -> Change

PqlReferenceActions == [read |-> Reads({}, {})]

\* The reference is text the server has.
PqlReference(c) == <<>>
=============================================================================
