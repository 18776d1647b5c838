------------------------------ MODULE MCServer ------------------------------
(* Instances of Server for the model checker: what two calls ask for.        *)
EXTENDS Server, TLC

Edit(field, adding, removing) == [op |-> "edit", field |-> field, adding |-> adding, removing |-> removing]
MCResolve == [op |-> "resolve"]

MCFirst == Edit("assignees", {"a"}, {})
MCSecond == {Edit("assignees", {"b"}, {"a"}), Edit("labels", {"a"}, {})}
MCJob == {MCResolve, MCFirst} \cup MCSecond

By(transport, arg, job) == [transport |-> transport, arg |-> arg, job |-> job]

\* Edits by two users of every pair of transports, one of whom edits the same
\* field as the other, then or later, or the other field; and resolves by three
\* calls of one user.
MCSlugs == {<<"w1", "w2">>, <<"w1", "none">>, <<"none", "none">>}
MCRequests ==
  {[c1 |-> By(p[1], a[1], MCFirst), c2 |-> By(p[2], a[2], job),
    c3 |-> By(p[2], a[2], MCFirst)] :
     p \in UNION {s \X s : s \in Servers}, a \in MCSlugs, job \in MCSecond}
    \cup {[c \in Call |-> By(t, "w1", MCResolve)] : t \in {"stdio", "header"}}
=============================================================================
