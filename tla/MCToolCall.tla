------------------------------ MODULE MCToolCall ------------------------------
(* Instances of ToolCall for the model checker: the surfaces and the calls.  *)
EXTENDS ToolCall, TLC

Everything == [t \in Tool |-> DOMAIN Catalogue[t]]

\* The curated tools, all of them, and each operation on its own.
MCSurfaces == {Curated, Everything} \cup {EnabledBy({o}) : o \in Operation}

\* One operation on its own.
MCAssigneeSurface == {EnabledBy({<<"workitem", "manage_assignee">>})}

\* The arguments some check looks into.
Constrained ==
  {"status", "priority", "group", "type", "points", "timezone", "network", "state", "access",
   "member_access", "kind", "template_data", "values", "property_type", "relation_type", "options",
   "workitem_identifier", "group_by", "sub_group_by", "url"}

\* What Plane may answer, where a handler branches on it.
Facts(tool, action) ==
  CASE <<tool, action>> = <<"cycle", "archive">> -> {"running"}
    [] tool = "initiative" -> {"native"}
    [] tool = "workitem_comment" /\ action \in {"create", "update"} -> {"unnamed", "mentions", "stranger"}
    [] <<tool, action>> = <<"workitem_attachment", "read">> -> {"absent", "unsupported", "large"}
    [] <<tool, action>> = <<"workitem_attachment", "download_url">> -> {"absent"}
    [] <<tool, action>> = <<"workitem_attachment", "upload_from_url">> -> {"large"}
    [] <<tool, action>> = <<"intake", "update">> -> {"snoozed", "duplicate"}
    [] <<tool, action>> = <<"workitem_type", "resolve">> -> {"found", "owns", "lists", "enabled", "denied"}
    [] <<tool, action>> = <<"workitem_property", "list">> -> {"unlinked", "empty", "none"}
    [] <<tool, action>> \in {<<"workitem_property", "create">>,
                             <<"workitem_property", "manage_type_properties">>} -> {"denied"}
    [] <<tool, action>> = <<"workitem_relation", "create">> -> {"restored"}
    [] <<tool, action>> = <<"page", "set_collection">> -> {"unfiled", "there"}
    [] tool = "template" -> {"of projects", "no fields"}
    [] <<tool, action>> = <<"customer", "create">> -> {"known"}
    [] OTHER -> {}

\* All the required arguments but one at most, and any of the others.
Supplied(d) ==
  {(d.requires \ missing) \cup more :
     missing \in {{}} \cup {{a} : a \in d.requires}, more \in SUBSET (d.optional \ d.requires)}

CallOf(o, given, bad, facts) == [tool |-> o[1], action |-> o[2], given |-> given, bad |-> bad, facts |-> facts]

CallsOf(o) ==
  LET d == Catalogue[o[1]][o[2]] IN
  UNION {{CallOf(o, given, bad, facts) :
            bad \in {{}} \cup {{a} : a \in given \cap Constrained}, facts \in SUBSET Facts(o[1], o[2])} :
         given \in Supplied(d)}
    \cup {CallOf(o, d.requires \cup {extra}, {}, {}) : extra \in {"workspace_slug", "pql"}}
    \cup {CallOf(<<o[1], "none">>, {}, {}, {})}

\* Of a surface of one operation, the calls of that operation and those that
\* name another action of its tool; of the others, every call.
MCCalls ==
  [s \in MCSurfaces |->
     UNION {CallsOf(o) : o \in {p \in Operation : s \in {Curated, Everything} \/ Enabled(s, p[1], p[2])}}]

MCLiteral == [h \in {"inner"} |-> "private"]
=============================================================================
