------------------------------ MODULE ItemEdit ------------------------------
(***************************************************************************)
(* manage_assignee and manage_label of tools/workitem.py: the work item is *)
(* read, the ids of one field are computed from what was read, and that    *)
(* field is written back.  Plane may carry a write out long after the call *)
(* has given it up, or never.  There is one work item in each workspace.   *)
(***************************************************************************)
EXTENDS Connection

CONSTANTS
  Field,    \* "assignees" and "labels"
  Value     \* the ids of members and labels

ASSUME EditAssumption ==
  \A job \in Job : job.op = "edit" =>
    job.field \in Field /\ job.adding \subseteq Value /\ job.removing \subseteq Value

VARIABLES
  item,     \* item[w][f]: the work item in Plane
  write,    \* write[c]: how far the edit of c is, what it read, and the patch
  behind    \* behind[c]: the field of c has been written since c read it

editVars == <<item, write, behind>>

Item == [Field -> SUBSET Value]

\* A patch holds the fields of its payload.
Patch == UNION {[fields -> SUBSET Value] : fields \in SUBSET Field}
Nothing == [f \in {} |-> {}]
Unread == [f \in Field |-> {}]

NoWrite == [status |-> "none", workspace |-> NoWorkspace, read |-> Unread, patch |-> Nothing]

EditTypeOK ==
  /\ item \in [Workspace -> Item]
  /\ write \in [Call -> [status : {"none", "read", "sent"}, workspace : Slug, read : Item, patch : Patch]]
  /\ behind \in [Call -> BOOLEAN]

EditInit ==
  /\ item = [w \in Workspace |-> Unread]
  /\ write = [c \in Call |-> NoWrite]
  /\ behind = [c \in Call |-> FALSE]

Edits(c) == At(c, "connected") /\ access[c].job.op = "edit"
Applied(job, ids) == (ids \ job.removing) \cup job.adding

\* retrieve.
ReadItem(c) ==
  /\ Edits(c) /\ write[c].status = "none"
  /\ write' = [write EXCEPT ![c] = [NoWrite EXCEPT !.status = "read", !.workspace = access[c].workspace,
                                      !.read = item[access[c].workspace]]]
  /\ behind' = [behind EXCEPT ![c] = FALSE]
  /\ UNCHANGED <<item, connectionVars>>

\* The payload of update: the field of the job, and no other.  The work item as
\* it was read would write back its other field too.
PayloadOfItem(c) ==
  [write[c].read EXCEPT ![access[c].job.field] = Applied(access[c].job, @)]

Payload(c) ==
  [f \in {access[c].job.field} |-> Applied(access[c].job, write[c].read[f])]

SendItem(c) ==
  /\ Edits(c) /\ write[c].status = "read"
  /\ write' = [write EXCEPT ![c].status = "sent", ![c].patch = Payload(c)]
  /\ UNCHANGED <<item, behind, connectionVars>>

\* Plane carries the update out.
Written(c, patch) ==
  LET w == write[c].workspace IN
  /\ item' = [item EXCEPT ![w] = [f \in Field |-> IF f \in DOMAIN patch THEN patch[f] ELSE @[f]]]
  /\ behind' = [d \in Call |->
       \/ behind[d]
       \/ /\ d # c /\ write[d].status # "none" /\ write[d].workspace = w
          /\ access[d].job.field \in DOMAIN patch]
  /\ write' = [write EXCEPT ![c] = NoWrite]

Answered(c) == write[c].status = "sent" /\ Edits(c) /\ Written(c, write[c].patch) /\ Return(c)

\* The call is over without an answer, and the request may still be under way.
GiveUp(c) ==
  /\ Edits(c) /\ Return(c)
  /\ write' = [write EXCEPT ![c] = IF @.status = "sent" THEN @ ELSE NoWrite]
  /\ UNCHANGED <<item, behind>>

Abandoned(c) == write[c].status = "sent" /\ At(c, "returned") /\ UNCHANGED connectionVars

WrittenLate(c) == Abandoned(c) /\ Written(c, write[c].patch)
Lost(c) == Abandoned(c) /\ write' = [write EXCEPT ![c] = NoWrite] /\ UNCHANGED <<item, behind>>

EditStep(c) == ReadItem(c) \/ SendItem(c) \/ Answered(c) \/ GiveUp(c) \/ WrittenLate(c) \/ Lost(c)

-----------------------------------------------------------------------------
(***************************************************************************)
(* Edits add up: one field of a work item changes only as the write of one *)
(* edit is carried out, into what that edit makes of the field it read: it *)
(* adds and removes its ids and keeps the others.  That is also what is    *)
(* there at that moment, unless another write of the same field came since *)
(* the edit read it.  Edits of the other field and of other workspaces,    *)
(* repeated edits and those Plane loses are never such a write; a late or  *)
(* an overlapping one may be, and what it has not seen it undoes           *)
(* (manage_assignee and manage_label of tools/workitem.py).                *)
(***************************************************************************)
EditsAddUp ==
  [][\A w \in Workspace, f \in Field : item'[w][f] # item[w][f] =>
       \E c \in Call :
         /\ write[c].status = "sent" /\ write'[c] = NoWrite
         /\ write[c].workspace = w /\ access[c].job.field = f
         /\ item'[w][f] = Applied(access[c].job, write[c].read[f])
         /\ ~ behind[c] => write[c].read[f] = item[w][f]]_<<item, write>>
=============================================================================
