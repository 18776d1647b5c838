---------------------------- MODULE WorkItemTools ----------------------------
(***************************************************************************)
(* The tools about work items: the item itself and its comments, links,    *)
(* relations, activity, attachments, logged time, intake, types and        *)
(* properties.  For each tool the table of its actions and the steps of    *)
(* its handler.                                                            *)
(***************************************************************************)
EXTENDS Toolkit

Item == {"project_id", "workitem_id"}

WorkItemActions ==
  LET groups == {"group_by", "sub_group_by"}  write == {"priority"} IN
  [list |-> Reads({}, {"project_id", "pql"}),
   list_archived |-> Reads({"project_id"}, {"pql"}),
   retrieve |-> Reads(Item, {}),
   retrieve_by_identifier |-> Reads({"workitem_identifier"}, {}),
   search |-> Reads({"query"}, {}),
   count |-> Reads({}, {"project_id", "pql"} \cup groups),
   create |-> Writes({"project_id", "name"}, write),
   update |-> Writes(Item, write),
   delete |-> Destroys(Item, {}),
   archive |-> Writes(Item, {}),
   manage_assignee |-> Writes(Item, {"add_user_id", "remove_user_id"}),
   manage_label |-> Writes(Item, {"add_label_id", "remove_label_id"})]

\* The self-hosted client refuses a list that names no project; an identifier
\* has to read PROJECT-N.  Assignees and labels are read, merged and written
\* back.  The refusal of manage_assignee is made of the field's name.
WorkItem(c) == OneOf({"priority", "group_by", "sub_group_by"}) \o
  CASE c.action = "list" -> IF Has(c, "project_id") THEN Read ELSE RefuseAsking({"project_id"})
    [] c.action = "list_archived" -> Need({"project_id"}) \o Read
    [] c.action = "count" -> Read
    [] c.action = "search" -> Need({"query"}) \o Read
    [] c.action = "retrieve_by_identifier" ->
         Need({"workitem_identifier"}) \o OneOf({"workitem_identifier"}) \o Read
    [] OTHER -> Need({"project_id"}) \o
  CASE c.action = "create" -> Need({"name"}) \o Add
    [] OTHER -> Need({"workitem_id"}) \o
  CASE c.action = "archive" -> Change
    [] c.action = "manage_assignee" ->
         NeedOneAsking({"add_user_id", "remove_user_id"}, {"add_assignee_id", "remove_assignee_id"})
           \o Read \o Change
    [] c.action = "manage_label" -> NeedOne({"add_label_id", "remove_label_id"}) \o Read \o Change
    [] OTHER -> Record(c)

CommentActions ==
  LET one == Item \cup {"comment_id"} IN
  [list |-> Reads(Item, {}),
   retrieve |-> Reads(one, {}),
   create |-> Writes(Item \cup {"comment_html"}, {}),
   update |-> Writes(one, {"comment_html"}),
   delete |-> Destroys(one, {})]

\* A comment may not hold a mention element that names nobody ("unnamed"), and
\* the people it mentions are looked up in the project first.
MentionCheck(c) == When(Has(c, "comment_html"),
  When(Holds(c, "unnamed"), Refuse)
    \o When(Holds(c, "mentions"), Read \o When(Holds(c, "stranger"), Refuse)))

\* The mentions are looked into before the comment is posted, not after.
PostedUnchecked(c, request) == request \o MentionCheck(c)

Posted(c, request) == MentionCheck(c) \o request

Comment(c) == Need(Item) \o
  CASE c.action = "create" -> Need({"comment_html"}) \o Posted(c, Add)
    [] c.action = "update" -> Need({"comment_id"}) \o Posted(c, Change)
    [] OTHER -> Crud(c, {}, "comment_id")

LinkActions ==
  LET one == Item \cup {"link_id"} IN
  [list |-> Reads(Item, {}),
   retrieve |-> Reads(one, {}),
   create |-> Writes(Item \cup {"url"}, {}),
   update |-> Writes(one, {"url", "title"}),
   delete |-> Destroys(one, {})]

Link(c) == Need(Item) \o
  CASE c.action = "update" -> Need({"link_id"}) \o NeedOne({"url", "title"}) \o Change
    [] OTHER -> Crud(c, {"url"}, "link_id")

RelationActions ==
  [list |-> Reads(Item, {}),
   create |-> Writes(Item \cup {"workitem_ids"},
     {"relation_type", "relation_definition_id", "relation_definition_label"}),
   delete |-> Destroys(Item \cup {"related_workitem_id"}, {}),
   list_definitions |-> Reads({}, {}),
   create_definition |-> Writes({"name"}, {}),
   update_definition |-> Writes({"definition_id"}, {}),
   delete_definition |-> Destroys({"definition_id"}, {})]

\* The dependencies of an item are one request; the self-hosted client answers
\* for its custom relations itself.  The definitions come in pages, two here.
\* A relation type that is not one, or none at all, brings up the definitions.
Relation(c) == LET definition == {"relation_definition_id", "relation_definition_label"} IN
  CASE c.action = "list_definitions" -> Each(Read)
    [] c.action = "create_definition" -> Need({"name"}) \o Add
    [] c.action = "update_definition" -> Need({"definition_id"}) \o Change
    [] c.action = "delete_definition" -> Need({"definition_id"}) \o Remove
    [] OTHER -> Need(Item) \o
  CASE c.action = "list" -> Read
    [] c.action = "create" -> Need({"workitem_ids"}) \o
         (IF Has(c, "relation_type") THEN OneOfAsking({"relation_type"}, definition) \o Add
          ELSE IF definition \subseteq c.given THEN Add
          ELSE RefuseAsking({"relation_type"} \cup definition))
    [] c.action = "delete" -> Need({"related_workitem_id"}) \o Remove

ActivityActions ==
  [list |-> Reads(Item, {}), retrieve |-> Reads(Item \cup {"activity_id"}, {})]

Activity(c) == Need(Item) \o Crud(c, {}, "activity_id")

AttachmentActions ==
  LET one == Item \cup {"attachment_id"} IN
  [list |-> Reads(Item, {}),
   read |-> Reads(one, {}),
   download_url |-> Reads(one, {}),
   upload_from_url |-> Writes(Item \cup {"url"}, {}),
   delete |-> Destroys(one, {})]

\* _find, _read and _upload raise instead of answering: the attachment is not
\* on the item ("absent"), is no image or text, or is over the size limit.
Attachment(c) == Need(Item) \o
  LET find == Read \o When(Holds(c, "absent"), Refuse)
      bounded(download) == download \o When(Holds(c, "large"), Refuse) IN
  CASE c.action = "list" -> Read
    [] c.action = "upload_from_url" -> Need({"url"}) \o bounded(Fetch) \o Add
    [] OTHER -> Need({"attachment_id"}) \o
  CASE c.action = "read" -> find \o When(Holds(c, "unsupported"), Refuse) \o Read \o bounded(Download)
    [] c.action = "download_url" -> find \o Read
    [] c.action = "delete" -> Remove

WorkLogActions ==
  LET one == Item \cup {"work_log_id"} IN
  [list |-> Reads(Item, {}),
   create |-> Writes(Item \cup {"duration"}, {}),
   update |-> Writes(one, {}),
   delete |-> Destroys(one, {})]

WorkLog(c) == Need(Item) \o Crud(c, {"duration"}, "work_log_id")

IntakeActions ==
  [list |-> Reads({"project_id"}, {}),
   retrieve |-> Reads(Item, {}),
   create |-> Writes({"project_id", "name"}, {"priority"}),
   update |-> Writes(Item, {"status", "snoozed_till", "duplicate_to", "source", "source_email"}),
   delete |-> Destroys(Item, {})]

\* A status may be the one that needs a date ("snoozed") or an item ("duplicate").
Intake(c) == Need({"project_id"}) \o
  CASE c.action = "create" -> Need({"name"}) \o OneOf({"priority"}) \o Add
    [] c.action = "update" -> Need({"workitem_id"})
         \o When(Has(c, "status") /\ Holds(c, "snoozed"), Need({"snoozed_till"}))
         \o When(Has(c, "status") /\ Holds(c, "duplicate"), Need({"duplicate_to"}))
         \o NeedOneAsking(IntakeActions["update"].optional, {"status"}) \o Change
    [] OTHER -> Crud(c, {}, "workitem_id")

TypeActions ==
  [list |-> Reads({}, {"project_id"}),
   retrieve |-> Reads({"workitem_type_id"}, {"project_id"}),
   resolve |-> Writes({"project_id", "name"}, {}),
   create |-> Writes({"name"}, {"project_id"}),
   update |-> Writes({"workitem_type_id"}, {"project_id"}),
   delete |-> Destroys({"workitem_type_id"}, {"project_id"}),
   import_to_project |-> Writes({"project_id", "workitem_type_ids"}, {})]

\* _adopt_from_workspace: the type is imported once the workspace "lists" it.
Adopt(c) == Read \o When(~ Holds(c, "lists"), Add) \o Add

\* _resolve: the project has the type already, or the workspace "owns" the types,
\* or the project's own feature is on or can be turned on, unless that is "denied".
Resolve(c) == Read \o When(~ Holds(c, "found"), Read \o
  (IF Holds(c, "owns") THEN Adopt(c)
   ELSE Read \o (IF Holds(c, "enabled") THEN Add
                 ELSE IF Holds(c, "denied") THEN Denied \o Adopt(c)
                 ELSE Change \o Add)))

Type(c) ==
  CASE c.action = "resolve" -> Need({"project_id", "name"}) \o Resolve(c)
    [] c.action = "import_to_project" -> Need({"project_id", "workitem_type_ids"}) \o Add
    [] OTHER -> Crud(c, {"name"}, "workitem_type_id")

PropertyActions ==
  LET one == {"workitem_property_id"}  option == {"property_id", "option_id"}
      value == Item \cup {"property_id"}  kinds == {"property_type", "relation_type"}
      scope == {"project_id", "workitem_type_id"} IN
  [list |-> Reads({}, scope),
   retrieve |-> Reads(one, scope),
   create |-> Writes({"display_name", "property_type"}, {"relation_type", "options"} \cup scope),
   update |-> Writes(one, kinds \cup scope),
   delete |-> Destroys(one, scope),
   manage_type_properties |-> Writes({"workitem_type_id"}, {"project_id", "attach_ids", "detach_ids"}),
   list_options |-> Reads({"property_id"}, {"project_id"}),
   retrieve_option |-> Reads(option, {"project_id"}),
   create_option |-> Writes({"property_id", "name"}, {"project_id"}),
   update_option |-> Writes(option, {"project_id"}),
   delete_option |-> Destroys(option, {"project_id"}),
   get_value |-> Reads(value, {}),
   set_value |-> Writes(value, {"value", "description_html"}),
   delete_value |-> Destroys(value, {})]

\* The value of one property on one item.
PropertyValue(c) == Need(Item \cup {"property_id"}) \o
  CASE c.action = "get_value" -> Read
    [] c.action = "set_value" ->
         When({"value", "description_html"} \subseteq c.given, Refuse)
           \o NeedOne({"value", "description_html"}) \o Change
    [] c.action = "delete_value" -> Remove

\* The properties a workspace type is linked to; none when the link is "unlinked".
LinkedProperties(c) == Read \o When(~ Holds(c, "unlinked"), Read)

\* From the narrowest scope outwards, as long as the one asked is "empty".
PropertyList(c) ==
  CASE ~ Has(c, "project_id") ->
         IF Has(c, "workitem_type_id") THEN LinkedProperties(c) ELSE Read
    [] ~ Has(c, "workitem_type_id") -> Read
    [] OTHER -> Read \o When(Holds(c, "empty"), Read \o When(Holds(c, "none"), LinkedProperties(c)))

\* A property of a workspace type is made in the catalogue, then linked to it;
\* so it is when the project "denied" the request because the workspace owns types.
PropertyCreate(c) ==
  CASE Has(c, "workitem_type_id") /\ ~ Has(c, "project_id") -> Add \o Add
    [] Has(c, "workitem_type_id") /\ Holds(c, "denied") -> Denied \o Add \o Add
    [] OTHER -> Add

PropertyLinks(c) ==
  When(Has(c, "project_id") /\ Holds(c, "denied"), Denied)
    \o When(Has(c, "attach_ids"), Add) \o When(Has(c, "detach_ids"), Each(Remove))

Property(c) == OneOf({"property_type", "relation_type"}) \o
  CASE c.action \in {"get_value", "set_value", "delete_value"} -> PropertyValue(c)
    [] c.action = "list" -> PropertyList(c)
    [] c.action = "create" ->
         Need({"display_name", "property_type"}) \o OneOf({"options"}) \o PropertyCreate(c)
    [] c.action = "manage_type_properties" ->
         Need({"workitem_type_id"}) \o NeedOne({"attach_ids", "detach_ids"}) \o PropertyLinks(c)
    [] c.action \in {"retrieve", "update", "delete"} -> Need({"workitem_property_id"}) \o Record(c)
    [] OTHER -> Need({"property_id"}) \o
  CASE c.action = "list_options" -> Read
    [] c.action = "create_option" -> Need({"name"}) \o Add
    [] OTHER -> Need({"option_id"}) \o
  CASE c.action = "retrieve_option" -> Read
    [] c.action = "update_option" -> Change
    [] c.action = "delete_option" -> Remove
=============================================================================
