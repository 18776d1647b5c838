------------------------------- MODULE Toolkit -------------------------------
(***************************************************************************)
(* What the tools under tools/ are written in: the declaration of an       *)
(* action (toolkit/spec.py) and the steps of a handler - the checks of     *)
(* toolkit/runtime.py that answer with a message, and the Plane requests.  *)
(*                                                                         *)
(* A call is [tool, action, given, bad, facts]: the arguments supplied     *)
(* with a value that is not falsy, those of them whose value the check     *)
(* made of it rejects, and what Plane answers that the handler branches    *)
(* on.  A handler is the sequence of steps the call goes through as long   *)
(* as every check passes and every request succeeds.  Of the arguments     *)
(* that are optional a declaration keeps those some control looks at; the  *)
(* others only fill a payload.  A request is known by what it does to      *)
(* Plane's data: reads, adds, changes or removes.                          *)
(***************************************************************************)
EXTENDS Sequences, FiniteSets

\* spec.Action.
Reads(requires, optional) ==
  [requires |-> requires, optional |-> optional, read |-> TRUE, destructive |-> FALSE]
Writes(requires, optional) ==
  [requires |-> requires, optional |-> optional, read |-> FALSE, destructive |-> FALSE]
Destroys(requires, optional) ==
  [requires |-> requires, optional |-> optional, read |-> FALSE, destructive |-> TRUE]

Accepted(declaration) == declaration.requires \cup declaration.optional

Has(c, arg) == arg \in c.given
Holds(c, fact) == fact \in c.facts

\* A step looks into args; the message of a check that fails asks for asks.
Step(kind, args, asks) == <<[kind |-> kind, args |-> args, asks |-> asks]>>
Plain(kind) == Step(kind, {}, {})

\* Checks: all of args are there; one of them is; those that are there have a
\* permitted value; and the refusal that needs no check.
NeedAsking(args, asks) == Step("need", args, asks)
NeedOneAsking(args, asks) == Step("need one", args, asks)
OneOfAsking(args, asks) == Step("one of", args, asks)
RefuseAsking(asks) == Step("refuse", {}, asks)

\* Their usual messages.
Need(args) == NeedAsking(args, args)
NeedOne(args) == NeedOneAsking(args, args)
OneOf(args) == OneOfAsking(args, {})
Refuse == RefuseAsking({})

Checks == {"need", "need one", "one of", "refuse"}

Passes(c, step) ==
  CASE step.kind = "need" -> step.args \subseteq c.given
    [] step.kind = "need one" -> step.args \cap c.given # {}
    [] step.kind = "one of" -> step.args \cap c.bad = {}
    [] step.kind = "refuse" -> FALSE

\* Requests.  One that Plane denies in a way the handler goes on from, with
\* another request, does nothing to the data.
Read == Plain("read")
Add == Plain("add")
Change == Plain("change")
Remove == Plain("remove")
Denied == Plain("denied")

\* A download from Plane's storage, and one from a url of the caller's (SafeFetch).
Download == Plain("download")
Fetch == Plain("fetch")

Effects == {"add", "change", "remove"}
Requests == Effects \cup {"read", "denied", "download"}

When(condition, steps) == IF condition THEN steps ELSE <<>>

\* A request for every id of a list: two ids are enough for one to fail after another.
Each(request) == request \o request

(***************************************************************************)
(* The shape most tools share: list and create, then everything that needs *)
(* the id of one record.                                                   *)
(***************************************************************************)
Record(c) ==
  CASE c.action = "retrieve" -> Read
    [] c.action = "update" -> Change
    [] c.action = "delete" -> Remove

UncheckedCrud(c, fields, id) ==
  CASE c.action = "list" -> Read
    [] c.action = "create" -> Need(fields) \o Add
    [] OTHER -> Record(c)

Crud(c, fields, id) ==
  CASE c.action = "list" -> Read
    [] c.action = "create" -> Need(fields) \o Add
    [] OTHER -> Need({id}) \o Record(c)

\* Members of a group, added and removed by id.
Members(c, adding, removing) ==
  NeedOne({"add_ids", "remove_ids"})
    \o When(Has(c, "add_ids"), adding) \o When(Has(c, "remove_ids"), removing)
=============================================================================
