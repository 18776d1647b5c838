--------------------------- MODULE ToolCallProofs ---------------------------
(***************************************************************************)
(* What holds of ToolCall for every surface, every set of calls and every  *)
(* network: the guards cannot be passed, downloads stay on the global      *)
(* network, and every handler checks what it needs before it asks Plane,   *)
(* changes nothing it then refuses, and does no more than its hint says.   *)
(***************************************************************************)
EXTENDS ToolCall, TLAPS

(***************************************************************************)
(* The calls a guard refuses: of an action that is not in force, or with   *)
(* an argument this Plane would ignore.  All that is left for such a call  *)
(* is the refusal.                                                         *)
(***************************************************************************)
Shut ==
  \/ ~ Enabled(surface, call.tool, call.action)
  \/ Trimmed(call)
  \/ Filters(call)

GuardInv ==
  /\ phase \in {"idle", "received"} => sent = <<>>
  /\ Shut => sent = <<>> /\ (phase = "serving" => \E asks : script = RefuseAsking(asks))

(***************************************************************************)
(* A listed tool's guards come before everything else it does, whatever    *)
(* name it was called by (apply_moneta_surface).                           *)
(***************************************************************************)
LEMMA GuardsComeFirst ==
  ASSUME Known, Shut
  PROVE  \E asks : Served(surface, call) = RefuseAsking(asks)
<1>0. Served(surface, call) = Refuse => \E asks : Served(surface, call) = RefuseAsking(asks)
  BY DEF Refuse
<1>1. CASE Barred(surface, call)
  BY <1>0, <1>1 DEF Served
<1>2. CASE Trimmed(call)
  BY <1>0, <1>2 DEF Served
<1>3. CASE Filters(call)
  <2>1. call.tool \in {"workitem", "cycle", "module"}
    BY <1>3 DEF Filters
  <2>2. ~ RestoresRelation(call)
    BY <2>1 DEF RestoresRelation
  <2> QED BY <1>0, <1>3, <2>2 DEF Served
<1>4. CASE ~ Enabled(surface, call.tool, call.action)
  <2>1. call.tool \in DOMAIN surface
    BY DEF Known
  <2>2. Barred(surface, call)
    BY <1>4, <2>1 DEF Enabled, Barred
  <2> QED BY <2>2, <1>1
<1> QED BY <1>2, <1>3, <1>4 DEF Shut

\* What the refusal of a guard is as a script.
LEMMA RefusalStep ==
  ASSUME NEW asks
  PROVE  /\ RefuseAsking(asks) # <<>>
         /\ Head(RefuseAsking(asks)).kind = "refuse"
         /\ ~ Passes(call, Head(RefuseAsking(asks)))
<1>1. RefuseAsking(asks) = <<[kind |-> "refuse", args |-> {}, asks |-> asks]>>
  BY DEF RefuseAsking, Step
<1>2. Head(RefuseAsking(asks)) = [kind |-> "refuse", args |-> {}, asks |-> asks]
  BY <1>1
<1>3. Head(RefuseAsking(asks)).kind = "refuse"
  BY <1>2
<1>4. ~ Passes(call, Head(RefuseAsking(asks)))
  BY <1>3 DEF Passes
<1> QED BY <1>1, <1>3, <1>4

\* A step of any other kind is not one of a call that is shut.
LEMMA ShutFacesRefusal ==
  ASSUME GuardInv, Shut, NEW kinds, Facing(kinds)
  PROVE  /\ ~ Passes(call, Head(script))
         /\ "refuse" \in kinds
<1>1. phase = "serving" /\ Head(script).kind \in kinds
  BY DEF Facing
<1>2. PICK asks : script = RefuseAsking(asks)
  BY <1>1 DEF GuardInv
<1> QED BY <1>1, <1>2, RefusalStep

LEMMA GuardInit == Init => GuardInv
BY DEF Init, GuardInv

LEMMA GuardStep == GuardInv /\ [Next]_vars => GuardInv'
<1> SUFFICES ASSUME GuardInv, [Next]_vars PROVE GuardInv'
  OBVIOUS
<1>1. CASE Receive
  <2>1. sent = <<>> /\ sent' = <<>> /\ phase' = "received"
    BY <1>1 DEF Receive, GuardInv
  <2> QED BY <2>1 DEF GuardInv
<1>2. CASE Reject \/ NotFound
  <2>1. sent = <<>> /\ sent' = <<>> /\ phase' \in {"rejected", "unknown"}
    BY <1>2 DEF Reject, NotFound, GuardInv
  <2> QED BY <2>1 DEF GuardInv
<1>3. CASE Serve
  <2>1. sent = <<>> /\ sent' = <<>> /\ phase' = "serving" /\ Known
    BY <1>3 DEF Serve, GuardInv
  <2>2. script' = Served(surface, call) /\ surface' = surface /\ call' = call
    BY <1>3 DEF Serve
  <2>3. Shut' => Shut
    BY <2>2 DEF Shut
  <2>4. Shut => \E asks : script' = RefuseAsking(asks)
    BY <2>1, <2>2, GuardsComeFirst
  <2> QED BY <2>1, <2>3, <2>4 DEF GuardInv
<1>4. CASE ~ Shut /\ UNCHANGED <<surface, call>> /\ phase = "serving"
                 /\ phase' \in {"serving", "refused", "failed", "answered"}
  <2>1. ~ Shut'
    BY <1>4 DEF Shut
  <2> QED BY <1>4, <2>1 DEF GuardInv
<1>5. CASE Shut /\ UNCHANGED <<surface, call, sent>> /\ phase' \notin {"idle", "received", "serving"}
  <2>1. sent = <<>>
    BY <1>5 DEF GuardInv
  <2> QED BY <1>5, <2>1 DEF GuardInv
<1>6. CASE Check
  <2>1. Facing(Checks) /\ UNCHANGED <<surface, call, sent>>
    BY <1>6 DEF Check, Still
  <2>2. phase = "serving" /\ phase' \in {"serving", "refused"}
    BY <1>6 DEF Check, Facing, Done, Answer
  <2>3. Shut => ~ Passes(call, Head(script))
    BY <2>1, ShutFacesRefusal
  <2>4. Shut => phase' = "refused"
    BY <1>6, <2>3 DEF Check, Answer
  <2> QED BY <2>1, <2>2, <2>4, <1>4, <1>5
<1>7. CASE Connected
  <2>1. Facing({"connect"}) /\ UNCHANGED <<surface, call, sent>>
    BY <1>7 DEF Connected, Still
  <2>2. phase = "serving" /\ phase' \in {"serving", "refused"}
    BY <1>7 DEF Connected, Facing, Done, Answer
  <2>3. ~ Shut
    BY <2>1, ShutFacesRefusal
  <2> QED BY <2>1, <2>2, <2>3, <1>4
<1>8. CASE Send \/ Fail
  <2>1. Facing(Requests) /\ UNCHANGED <<surface, call>>
    BY <1>8 DEF Send, Fail, Still
  <2>2. phase = "serving" /\ phase' \in {"serving", "failed"}
    BY <1>8 DEF Send, Fail, Facing, Done, Answer
  <2>3. "refuse" \notin Requests
    BY DEF Requests, Effects
  <2>4. ~ Shut
    BY <2>1, <2>3, ShutFacesRefusal
  <2> QED BY <2>1, <2>2, <2>4, <1>4
<1>9. CASE Finish
  <2>1. UNCHANGED <<surface, call, sent>> /\ phase = "serving" /\ phase' = "answered"
    BY <1>9 DEF Finish, Answer, Still
  <2> QED BY <2>1, <1>4, <1>5
<1>10. CASE Fetched
  <2>1. Facing({"fetch"}) /\ UNCHANGED <<surface, call>>
    BY <1>10 DEF Fetched
  <2>2. phase = "serving" /\ phase' \in {"serving", "failed"}
    BY <1>10 DEF Fetched, Facing, Done, Answer
  <2>3. ~ Shut
    BY <2>1, ShutFacesRefusal
  <2> QED BY <2>1, <2>2, <2>3, <1>4
<1>11. CASE Begin \/ Follow \/ Rebound \/ UNCHANGED vars
  <2>1. UNCHANGED callVars
    BY <1>11 DEF Begin, Follow, Rebound, Fetching, vars
  <2>2. UNCHANGED <<surface, call, phase, script, sent>>
    BY <2>1 DEF callVars, progress
  <2> QED BY <2>2 DEF GuardInv, Shut
<1> QED
  BY <1>1, <1>2, <1>3, <1>6, <1>7, <1>8, <1>9, <1>10, <1>11 DEF Next, Work

LEMMA GuardInvariant == Spec => []GuardInv
BY GuardInit, GuardStep, PTL DEF Spec

(***************************************************************************)
(* No call, by whatever name, reaches Plane with an action that is not in  *)
(* force: for every surface an operator may configure and every argument.  *)
(***************************************************************************)
THEOREM OnlyEnabledCorrect == Spec => []OnlyEnabledReached
<1>1. GuardInv => OnlyEnabledReached
  BY DEF GuardInv, Shut, OnlyEnabledReached
<1> QED BY <1>1, GuardInvariant, PTL

(***************************************************************************)
(* No call reaches Plane with an argument that would be ignored there.     *)
(***************************************************************************)
THEOREM NothingIgnoredCorrect == Spec => []NothingIgnored
<1>1. GuardInv => NothingIgnored
  BY DEF GuardInv, Shut, Trimmed, Filters, NothingIgnored
<1> QED BY <1>1, GuardInvariant, PTL

-----------------------------------------------------------------------------
(***************************************************************************)
(* A download: the address pinned, and those connected to, are global.     *)
(***************************************************************************)
FetchInv ==
  /\ FetchTypeOK
  /\ fetch.pin \cap Private = {}
  /\ fetch.reached \cap Private = {}

LEMMA FetchInitial == FetchInit => FetchInv
<1> SUFFICES ASSUME FetchInit PROVE FetchInv
  OBVIOUS
<1>1. dns \in [Host -> SUBSET Address]
  BY FetchAssumption DEF FetchInit
<1>2. 0 \in 0 .. MaxRedirects
  BY FetchAssumption
<1>3. fetch = [status |-> "idle", host |-> NoHost, hops |-> 0, pin |-> {}, reached |-> {}]
  BY DEF FetchInit, NoFetch
<1> QED BY <1>1, <1>2, <1>3 DEF FetchInv, FetchTypeOK, Status

LEMMA FetchInductive ==
  ASSUME FetchInv,
         \/ UNCHANGED fetchVars
         \/ \E h \in Host : \E a \in SUBSET Address : Rebind(h, a)
         \/ \E h \in Host \cup {NoHost} : BeginFetch(h)
         \/ FetchStep
         \/ fetch' = [NoFetch EXCEPT !.reached = fetch.reached] /\ UNCHANGED dns
  PROVE  FetchInv'
<1> USE FetchAssumption
<1>0. /\ dns \in [Host -> SUBSET Address]
      /\ fetch \in [status : Status, host : Host \cup {NoHost}, hops : 0 .. MaxRedirects,
                    pin : SUBSET Address, reached : SUBSET Address]
      /\ fetch.pin \cap Private = {} /\ fetch.reached \cap Private = {}
  BY DEF FetchInv, FetchTypeOK
<1>1. CASE UNCHANGED fetchVars
  BY <1>0, <1>1 DEF FetchInv, FetchTypeOK, fetchVars
<1>2. ASSUME NEW h \in Host, NEW a \in SUBSET Address, Rebind(h, a) PROVE FetchInv'
  BY <1>0, <1>2 DEF Rebind, FetchInv, FetchTypeOK
<1>3. ASSUME NEW h \in Host \cup {NoHost}, BeginFetch(h) PROVE FetchInv'
  BY <1>0, <1>3 DEF BeginFetch, FetchInv, FetchTypeOK, Status
<1>4. ASSUME Refused, UNCHANGED dns PROVE FetchInv'
  BY <1>0, <1>4 DEF Refused, FetchInv, FetchTypeOK, Status
<1>5. CASE CheckHop
  <2>1. UNCHANGED dns
    BY <1>5 DEF CheckHop
  <2>2. CASE fetch' = [fetch EXCEPT !.status = "proxied"]
    BY <1>0, <2>1, <2>2 DEF FetchInv, FetchTypeOK, Status
  <2>3. ASSUME fetch.host \in Host, Pin(fetch.host) PROVE FetchInv'
    <3>1. CASE Refused
      BY <1>4, <2>1, <3>1
    <3>2. CASE dns[fetch.host] \cap Private = {} /\
               \E a \in dns[fetch.host] : fetch' = [fetch EXCEPT !.status = "pinned", !.pin = {a}]
      <4>1. PICK a \in dns[fetch.host] : fetch' = [fetch EXCEPT !.status = "pinned", !.pin = {a}]
        BY <3>2
      <4>2. a \in Address /\ a \notin Private
        BY <1>0, <2>3, <3>2, <4>1
      <4> QED BY <1>0, <2>1, <4>1, <4>2 DEF FetchInv, FetchTypeOK, Status
    <3> QED BY <2>3, <3>1, <3>2 DEF Pin
  <2> QED BY <1>0, <1>4, <1>5, <2>1, <2>2, <2>3 DEF CheckHop
<1>6. ASSUME NEW s \in Status, fetch' = [Requested EXCEPT !.status = s], UNCHANGED dns PROVE FetchInv'
  BY <1>0, <1>6 DEF Requested, Target, FetchInv, FetchTypeOK
<1>7. CASE Body \/ HopFails
  BY <1>6, <1>7 DEF Body, HopFails, InFlight, Status
<1>8. ASSUME NEW h \in Host \cup {NoHost}, Redirect(h) PROVE FetchInv'
  <2>1. UNCHANGED dns
    BY <1>8 DEF Redirect, InFlight
  <2>2. CASE fetch.hops = MaxRedirects
    BY <1>6, <1>8, <2>1, <2>2 DEF Redirect, Status
  <2>3. CASE fetch.hops # MaxRedirects
    <3>1. fetch' = [Requested EXCEPT !.status = "hop", !.host = h, !.hops = @ + 1]
      BY <1>8, <2>3 DEF Redirect
    <3>2. fetch.hops + 1 \in 0 .. MaxRedirects
      BY <1>0, <2>3
    <3> QED BY <1>0, <2>1, <3>1, <3>2 DEF Requested, Target, FetchInv, FetchTypeOK, Status
  <2> QED BY <2>2, <2>3
<1>9. CASE fetch' = [NoFetch EXCEPT !.reached = fetch.reached] /\ UNCHANGED dns
  <2>1. 0 \in 0 .. MaxRedirects
    OBVIOUS
  <2> QED BY <1>0, <1>9, <2>1 DEF NoFetch, FetchInv, FetchTypeOK, Status
<1>10. CASE FetchStep
  BY <1>5, <1>7, <1>8, <1>10 DEF FetchStep
<1> QED BY <1>1, <1>2, <1>3, <1>9, <1>10

LEMMA FetchStepInv == FetchInv /\ [Next]_vars => FetchInv'
<1> SUFFICES ASSUME FetchInv, [Next]_vars PROVE FetchInv'
  OBVIOUS
<1>1. CASE Receive \/ Reject \/ NotFound \/ Serve
  BY <1>1, FetchInductive DEF Receive, Reject, NotFound, Serve
<1>2. CASE Check \/ Connected \/ Send \/ Fail \/ Finish
  BY <1>2, FetchInductive DEF Check, Connected, Send, Fail, Finish, Still
<1>3. CASE Begin
  BY <1>3, FetchInductive DEF Begin, Fetching
<1>4. CASE Follow
  BY <1>4, FetchInductive DEF Follow, Fetching
<1>5. CASE Fetched
  BY <1>5, FetchInductive DEF Fetched
<1>6. CASE Rebound
  BY <1>6, FetchInductive DEF Rebound, Fetching
<1>7. CASE UNCHANGED vars
  BY <1>7, FetchInductive DEF vars
<1> QED BY <1>1, <1>2, <1>3, <1>4, <1>5, <1>6, <1>7 DEF Next, Work

LEMMA FetchInvariant == Spec => []FetchInv
<1>1. Init => FetchInv
  BY FetchInitial DEF Init
<1> QED BY <1>1, FetchStepInv, PTL DEF Spec

(***************************************************************************)
(* A download is well typed: whatever is redirected where, it follows no   *)
(* more than MaxRedirects hops.                                            *)
(***************************************************************************)
THEOREM FetchTypeCorrect == Spec => []FetchTypeOK
<1>1. FetchInv => FetchTypeOK
  BY DEF FetchInv
<1> QED BY <1>1, FetchInvariant, PTL

(***************************************************************************)
(* No connection is opened to an address that is not global, for any set   *)
(* of hosts, addresses and proxies, however names are rebound.             *)
(***************************************************************************)
THEOREM OnlyGlobalCorrect == Spec => []OnlyGlobalReached
<1>1. FetchInv => OnlyGlobalReached
  BY DEF FetchInv, OnlyGlobalReached
<1> QED BY <1>1, FetchInvariant, PTL
-----------------------------------------------------------------------------
(* Scripts: what the steps of a call may be, in which order. *)

Kinds == Checks \cup Requests \cup {"connect", "fetch"}

\* A sequence of steps (over its own elements: an argument may be any value).
IsScript(s) ==
  /\ s \in Seq({s[i] : i \in DOMAIN s})
  /\ \A i \in DOMAIN s : s[i].kind \in Kinds

\* The arguments the action of a call requires; those a refusal may ask for,
\* the ones misnamed included; and how severe its requests may be.
Requires(c) == Catalogue[c.tool][c.action].requires

Asked(c) == Askable(c) \cup Misnamed(c)

Allowed(c) ==
  IF <<c.tool, c.action>> = <<"customer", "create">> /\ Holds(c, "known") THEN 2
  ELSE EffectOf(c.action)

Repeatable(c) == <<c.tool, c.action>> \notin Compound

\* The part of a script that changes nothing.
Prelude(c, s) ==
  /\ IsScript(s)
  /\ \A i \in DOMAIN s :
       /\ s[i].kind \notin Effects
       /\ s[i].kind \in Checks => s[i].asks \subseteq Asked(c)

\* The part that only sends requests.
Closing(c, s) ==
  /\ IsScript(s)
  /\ \A i \in DOMAIN s : s[i].kind \in Requests /\ Severity(s[i].kind) <= Allowed(c)

\* A script: it asks for nothing the action does not take, sends nothing the
\* hint does not cover, and once it has changed something it checks nothing,
\* and has nothing left to do unless the operation is several changes.
Lawful(c, s) ==
  /\ IsScript(s)
  /\ \A i \in DOMAIN s :
       /\ s[i].kind \in Checks => s[i].asks \subseteq Asked(c)
       /\ s[i].kind \in Requests => Severity(s[i].kind) <= Allowed(c)
       /\ s[i].kind \in Effects =>
            /\ \A j \in i + 1 .. Len(s) : s[j].kind \in Requests
            /\ Repeatable(c) => i = Len(s)

\* The part that asks nothing of Plane.
Checking(s) == IsScript(s) /\ \A i \in DOMAIN s : s[i].kind \in Checks \cup {"connect"}

\* The call is refused before anything is asked of Plane.
Stops(c, s) ==
  \E i \in DOMAIN s :
    /\ s[i].kind \in Checks /\ ~ Passes(c, s[i])
    /\ \A j \in 1 .. i - 1 : s[j].kind \in Checks \cup {"connect"}

\* What every call's script is.
Fits(c, s) == Lawful(c, s) /\ (Requires(c) \subseteq c.given \/ Stops(c, s))

\* A sequence of steps is a script.
LEMMA IsScriptOver ==
  ASSUME NEW S, NEW s \in Seq(S), \A i \in DOMAIN s : s[i].kind \in Kinds
  PROVE  IsScript(s)
<1> DEFINE T == {s[i] : i \in DOMAIN s}
<1>1. \A i \in 1 .. Len(s) : s[i] \in T
  OBVIOUS
<1>2. Len(s) \in Nat /\ DOMAIN s = 1 .. Len(s)
  OBVIOUS
<1>3. s = [i \in 1 .. Len(s) |-> s[i]]
  OBVIOUS
<1> HIDE DEF T
<1>4. s \in Seq(T)
  BY <1>1, <1>2, <1>3
<1> QED BY <1>4 DEF IsScript, T

\* Two scripts, one after the other: the steps of the first, then those of the
\* second.
LEMMA Joined ==
  ASSUME NEW a, NEW b, IsScript(a), IsScript(b)
  PROVE  /\ IsScript(a \o b)
         /\ Len(a \o b) = Len(a) + Len(b)
         /\ Len(a) \in Nat /\ Len(b) \in Nat
         /\ DOMAIN a = 1 .. Len(a) /\ DOMAIN b = 1 .. Len(b)
         /\ DOMAIN (a \o b) = 1 .. Len(a) + Len(b)
         /\ \A i \in 1 .. Len(a) : (a \o b)[i] = a[i]
         /\ \A i \in Len(a) + 1 .. Len(a) + Len(b) : i - Len(a) \in 1 .. Len(b) /\ (a \o b)[i] = b[i - Len(a)]
<1> DEFINE S == {a[i] : i \in DOMAIN a} \cup {b[i] : i \in DOMAIN b}
<1>1. /\ \A i \in DOMAIN a : a[i].kind \in Kinds
      /\ \A i \in DOMAIN b : b[i].kind \in Kinds
  BY DEF IsScript
<1>2. a \in Seq(S) /\ b \in Seq(S)
  BY DEF IsScript
<1> HIDE DEF S
<1>3. /\ a \o b \in Seq(S)
      /\ Len(a \o b) = Len(a) + Len(b)
      /\ Len(a) \in Nat /\ Len(b) \in Nat
      /\ DOMAIN a = 1 .. Len(a) /\ DOMAIN b = 1 .. Len(b)
      /\ DOMAIN (a \o b) = 1 .. Len(a) + Len(b)
      /\ \A i \in 1 .. Len(a) : (a \o b)[i] = a[i]
      /\ \A i \in Len(a) + 1 .. Len(a) + Len(b) : i - Len(a) \in 1 .. Len(b) /\ (a \o b)[i] = b[i - Len(a)]
  BY <1>2
<1>4. ASSUME NEW i \in DOMAIN (a \o b) PROVE (a \o b)[i].kind \in Kinds
  <2>1. i \in 1 .. Len(a) \/ i \in Len(a) + 1 .. Len(a) + Len(b)
    BY <1>3
  <2>2. CASE i \in 1 .. Len(a)
    BY <1>1, <1>3, <2>2
  <2>3. CASE i \in Len(a) + 1 .. Len(a) + Len(b)
    BY <1>1, <1>3, <2>3
  <2> QED BY <2>1, <2>2, <2>3
<1> QED BY <1>3, <1>4, IsScriptOver

\* What changes nothing, after what changes nothing, changes nothing.
LEMMA PreludeJoined ==
  ASSUME NEW c, NEW a, NEW b, Prelude(c, a), Prelude(c, b)
  PROVE  Prelude(c, a \o b)
<1>1. IsScript(a) /\ IsScript(b)
  BY DEF Prelude
<1>2. ASSUME NEW i \in DOMAIN (a \o b)
      PROVE  (\E j \in DOMAIN a : (a \o b)[i] = a[j]) \/ (\E j \in DOMAIN b : (a \o b)[i] = b[j])
  <2>1. i \in 1 .. Len(a) \/ i \in Len(a) + 1 .. Len(a) + Len(b)
    BY <1>1, Joined
  <2>2. CASE i \in 1 .. Len(a)
    BY <1>1, <2>2, Joined
  <2>3. CASE i \in Len(a) + 1 .. Len(a) + Len(b)
    <3>1. i - Len(a) \in DOMAIN b /\ (a \o b)[i] = b[i - Len(a)]
      BY <1>1, <2>3, Joined
    <3> QED BY <3>1
  <2> QED BY <2>1, <2>2, <2>3
<1> QED BY <1>1, <1>2, Joined DEF Prelude

\* A lawful script stays lawful behind checks and reads.
LEMMA LawfulAfterPrelude ==
  ASSUME NEW c, NEW a, NEW b, Prelude(c, a), Lawful(c, b)
  PROVE  Lawful(c, a \o b)
<1>1. IsScript(a) /\ IsScript(b)
  BY DEF Prelude, Lawful
<1>2. IsScript(a \o b)
  BY <1>1, Joined
<1>3. ASSUME NEW i \in 1 .. Len(a)
      PROVE  /\ (a \o b)[i].kind \in Checks => (a \o b)[i].asks \subseteq Asked(c)
             /\ (a \o b)[i].kind \in Requests => Severity((a \o b)[i].kind) <= Allowed(c)
             /\ (a \o b)[i].kind \notin Effects
  <2>1. (a \o b)[i] = a[i] /\ i \in DOMAIN a
    BY <1>1, Joined
  <2>2. a[i].kind \notin Effects /\ (a[i].kind \in Checks => a[i].asks \subseteq Asked(c))
    BY <2>1 DEF Prelude
  <2>3. a[i].kind \in Requests => Severity(a[i].kind) = 0
    BY <2>2 DEF Requests, Effects, Severity
  <2>4. 0 <= Allowed(c)
    BY DEF Allowed, EffectOf
  <2> QED BY <2>1, <2>2, <2>3, <2>4
<1>4. ASSUME NEW i \in Len(a) + 1 .. Len(a) + Len(b)
      PROVE  /\ (a \o b)[i].kind \in Checks => (a \o b)[i].asks \subseteq Asked(c)
             /\ (a \o b)[i].kind \in Requests => Severity((a \o b)[i].kind) <= Allowed(c)
             /\ (a \o b)[i].kind \in Effects =>
                  /\ \A j \in i + 1 .. Len(a) + Len(b) : (a \o b)[j].kind \in Requests
                  /\ Repeatable(c) => i = Len(a) + Len(b)
  <2>1. (a \o b)[i] = b[i - Len(a)] /\ i - Len(a) \in DOMAIN b
    BY <1>1, Joined
  <2>2. /\ b[i - Len(a)].kind \in Checks => b[i - Len(a)].asks \subseteq Asked(c)
        /\ b[i - Len(a)].kind \in Requests => Severity(b[i - Len(a)].kind) <= Allowed(c)
    BY <2>1 DEF Lawful
  <2>3. ASSUME b[i - Len(a)].kind \in Effects
        PROVE  /\ \A j \in i + 1 .. Len(a) + Len(b) : (a \o b)[j].kind \in Requests
               /\ Repeatable(c) => i = Len(a) + Len(b)
    <3>1. /\ \A j \in (i - Len(a)) + 1 .. Len(b) : b[j].kind \in Requests
          /\ Repeatable(c) => i - Len(a) = Len(b)
      BY <2>1, <2>3 DEF Lawful
    <3>2. Len(a) \in Nat /\ Len(b) \in Nat
      BY <1>1, Joined
    <3>3. ASSUME NEW j \in i + 1 .. Len(a) + Len(b) PROVE (a \o b)[j].kind \in Requests
      <4>1. j \in Len(a) + 1 .. Len(a) + Len(b) /\ j - Len(a) \in (i - Len(a)) + 1 .. Len(b)
        BY <3>2
      <4>2. (a \o b)[j] = b[j - Len(a)]
        BY <1>1, <4>1, Joined
      <4> QED BY <4>1, <4>2, <3>1
    <3> QED BY <3>1, <3>2, <3>3
  <2> QED BY <2>1, <2>2, <2>3
<1>5. DOMAIN (a \o b) = 1 .. Len(a) + Len(b) /\ Len(a \o b) = Len(a) + Len(b)
  BY <1>1, Joined
<1>6. \A i \in 1 .. Len(a) + Len(b) : i \in 1 .. Len(a) \/ i \in Len(a) + 1 .. Len(a) + Len(b)
  BY <1>1, Joined
<1> QED BY <1>2, <1>3, <1>4, <1>5, <1>6 DEF Lawful

\* An operation that is several changes may send more requests after them.
LEMMA LawfulBeforeClosing ==
  ASSUME NEW c, NEW a, NEW b, Lawful(c, a), Closing(c, b), ~ Repeatable(c)
  PROVE  Lawful(c, a \o b)
<1>1. IsScript(a) /\ IsScript(b)
  BY DEF Closing, Lawful
<1>2. IsScript(a \o b)
  BY <1>1, Joined
<1>3. \A j \in Len(a) + 1 .. Len(a) + Len(b) :
        /\ (a \o b)[j].kind \in Requests /\ Severity((a \o b)[j].kind) <= Allowed(c)
        /\ (a \o b)[j].kind \notin Checks
  <2>1. \A j \in 1 .. Len(b) : b[j].kind \in Requests /\ Severity(b[j].kind) <= Allowed(c)
    BY <1>1, Joined DEF Closing
  <2>2. Requests \cap Checks = {}
    BY DEF Requests, Effects, Checks
  <2>3. ASSUME NEW j \in Len(a) + 1 .. Len(a) + Len(b)
        PROVE  (a \o b)[j] = b[j - Len(a)] /\ j - Len(a) \in 1 .. Len(b)
    BY <1>1, Joined
  <2> QED BY <2>1, <2>2, <2>3
<1>4. ASSUME NEW i \in 1 .. Len(a)
      PROVE  /\ (a \o b)[i].kind \in Checks => (a \o b)[i].asks \subseteq Asked(c)
             /\ (a \o b)[i].kind \in Requests => Severity((a \o b)[i].kind) <= Allowed(c)
             /\ (a \o b)[i].kind \in Effects => \A j \in i + 1 .. Len(a) + Len(b) : (a \o b)[j].kind \in Requests
  <2>1. (a \o b)[i] = a[i] /\ i \in DOMAIN a
    BY <1>1, Joined
  <2>2. /\ a[i].kind \in Checks => a[i].asks \subseteq Asked(c)
        /\ a[i].kind \in Requests => Severity(a[i].kind) <= Allowed(c)
        /\ a[i].kind \in Effects => \A j \in i + 1 .. Len(a) : a[j].kind \in Requests
    BY <2>1 DEF Lawful
  <2>3. \A j \in i + 1 .. Len(a) : (a \o b)[j] = a[j]
    BY <1>1, Joined
  <2>4. \A j \in i + 1 .. Len(a) + Len(b) : j \in i + 1 .. Len(a) \/ j \in Len(a) + 1 .. Len(a) + Len(b)
    BY <1>1, Joined
  <2> QED BY <2>1, <2>2, <2>3, <2>4, <1>3
<1>5. DOMAIN (a \o b) = 1 .. Len(a) + Len(b) /\ Len(a \o b) = Len(a) + Len(b)
  BY <1>1, Joined
<1>6. \A i \in 1 .. Len(a) + Len(b) :
        /\ i \in 1 .. Len(a) \/ i \in Len(a) + 1 .. Len(a) + Len(b)
        /\ \A j \in i + 1 .. Len(a) + Len(b) : i \in 1 .. Len(a) \/ j \in Len(a) + 1 .. Len(a) + Len(b)
  BY <1>1, Joined
<1> QED BY <1>2, <1>3, <1>4, <1>5, <1>6 DEF Lawful

\* A script that changes nothing is lawful.
LEMMA PreludeIsLawful ==
  ASSUME NEW c, NEW s, Prelude(c, s)
  PROVE  Lawful(c, s)
<1>1. 0 <= Allowed(c)
  BY DEF Allowed, EffectOf
<1>2. \A k \in Requests : k \notin Effects => Severity(k) = 0
  BY DEF Requests, Effects, Severity
<1> QED BY <1>1, <1>2 DEF Prelude, Lawful

\* A call is refused by the first part, or by the second where the first asks
\* nothing of Plane.
LEMMA StopsJoined ==
  ASSUME NEW c, NEW a, NEW b, IsScript(a), IsScript(b)
  PROVE  /\ Stops(c, a) => Stops(c, a \o b)
         /\ Checking(a) /\ Stops(c, b) => Stops(c, a \o b)
<1>1. ASSUME Stops(c, a) PROVE Stops(c, a \o b)
  <2>1. PICK i \in DOMAIN a : /\ a[i].kind \in Checks /\ ~ Passes(c, a[i])
                              /\ \A j \in 1 .. i - 1 : a[j].kind \in Checks \cup {"connect"}
    BY <1>1 DEF Stops
  <2>2. i \in DOMAIN (a \o b) /\ (a \o b)[i] = a[i] /\ \A j \in 1 .. i - 1 : (a \o b)[j] = a[j]
    BY Joined
  <2> QED BY <2>1, <2>2 DEF Stops
<1>2. ASSUME Checking(a), Stops(c, b) PROVE Stops(c, a \o b)
  <2>1. PICK i \in DOMAIN b : /\ b[i].kind \in Checks /\ ~ Passes(c, b[i])
                              /\ \A j \in 1 .. i - 1 : b[j].kind \in Checks \cup {"connect"}
    BY <1>2 DEF Stops
  <2>2. i \in Nat /\ Len(a) + i \in DOMAIN (a \o b) /\ (a \o b)[Len(a) + i] = b[i]
    <3>1. i \in 1 .. Len(b) /\ Len(a) \in Nat /\ Len(b) \in Nat /\ DOMAIN (a \o b) = 1 .. Len(a) + Len(b)
      BY Joined
    <3>2. Len(a) + i \in Len(a) + 1 .. Len(a) + Len(b) /\ (Len(a) + i) - Len(a) = i
      BY <3>1
    <3>3. (a \o b)[Len(a) + i] = b[(Len(a) + i) - Len(a)]
      BY <3>2, Joined
    <3> QED BY <3>1, <3>2, <3>3
  <2>3. ASSUME NEW j \in 1 .. (Len(a) + i) - 1 PROVE (a \o b)[j].kind \in Checks \cup {"connect"}
    <3>1. CASE j \in 1 .. Len(a)
      BY <3>1, <1>2, Joined DEF Checking
    <3>2. CASE j \notin 1 .. Len(a)
      <4>1. i \in 1 .. Len(b) /\ Len(a) \in Nat /\ Len(b) \in Nat
        BY Joined
      <4>2. j - Len(a) \in 1 .. i - 1 /\ j \in Len(a) + 1 .. Len(a) + Len(b)
        BY <3>2, <4>1
      <4>3. (a \o b)[j] = b[j - Len(a)]
        BY <4>2, Joined
      <4> QED BY <4>2, <4>3, <2>1
    <3> QED BY <3>1, <3>2
  <2> QED BY <2>1, <2>2, <2>3 DEF Stops
<1> QED BY <1>1, <1>2

\* A single step is a script.
LEMMA StepFacts ==
  ASSUME NEW k \in Kinds, NEW args, NEW asks
  PROVE  /\ IsScript(Step(k, args, asks))
         /\ DOMAIN Step(k, args, asks) = {1} /\ Len(Step(k, args, asks)) = 1
         /\ Step(k, args, asks)[1].kind = k /\ Step(k, args, asks)[1].args = args
         /\ Step(k, args, asks)[1].asks = asks
<1> DEFINE r == [kind |-> k, args |-> args, asks |-> asks]
<1>1. Step(k, args, asks) = <<r>>
  BY DEF Step
<1>2. r.kind = k /\ r.args = args /\ r.asks = asks
  OBVIOUS
<1> HIDE DEF r
<1>3. <<r>> \in Seq({r}) /\ DOMAIN <<r>> = {1} /\ Len(<<r>>) = 1 /\ <<r>>[1] = r
  OBVIOUS
<1> QED BY <1>1, <1>2, <1>3, IsScriptOver

\* The checks of arguments, whatever they ask for.
LEMMA NeedPart ==
  ASSUME NEW c, NEW args, NEW asks
  PROVE  /\ asks \subseteq Asked(c) =>
              /\ Prelude(c, NeedAsking(args, asks)) /\ Prelude(c, NeedOneAsking(args, asks))
              /\ Prelude(c, OneOfAsking(args, asks))
         /\ Checking(NeedAsking(args, asks)) /\ Checking(NeedOneAsking(args, asks))
         /\ Checking(OneOfAsking(args, asks))
         /\ ~ args \subseteq c.given => Stops(c, NeedAsking(args, asks))
<1>1. {"need", "need one", "one of"} \subseteq Checks /\ {"need", "need one", "one of"} \subseteq Kinds
  BY DEF Kinds, Checks
<1>2. \A k \in {"need", "need one", "one of"} : k \notin Effects
  BY DEF Effects
<1> DEFINE N == NeedAsking(args, asks)  M == NeedOneAsking(args, asks)  O == OneOfAsking(args, asks)
<1>3. /\ IsScript(N) /\ DOMAIN N = {1} /\ N[1].kind = "need" /\ N[1].args = args /\ N[1].asks = asks
      /\ IsScript(M) /\ DOMAIN M = {1} /\ M[1].kind = "need one" /\ M[1].asks = asks
      /\ IsScript(O) /\ DOMAIN O = {1} /\ O[1].kind = "one of" /\ O[1].asks = asks
  <2>1. IsScript(N) /\ DOMAIN N = {1} /\ N[1].kind = "need" /\ N[1].args = args /\ N[1].asks = asks
    <3>1. "need" \in Kinds
      BY <1>1
    <3>2. N = Step("need", args, asks)
      BY DEF NeedAsking
    <3> HIDE DEF N
    <3> QED BY <3>1, <3>2, StepFacts
  <2>2. IsScript(M) /\ DOMAIN M = {1} /\ M[1].kind = "need one" /\ M[1].asks = asks
    <3>1. PICK k : k = "need one"
      OBVIOUS
    <3>2. k \in Kinds
      BY <1>1, <3>1
    <3>3. M = Step(k, args, asks)
      BY <3>1 DEF NeedOneAsking
    <3> HIDE DEF M
    <3>4. IsScript(M) /\ DOMAIN M = {1} /\ M[1].kind = k /\ M[1].asks = asks
      BY <3>2, <3>3, StepFacts
    <3> QED BY <3>1, <3>4
  <2>3. IsScript(O) /\ DOMAIN O = {1} /\ O[1].kind = "one of" /\ O[1].asks = asks
    <3>1. PICK k : k = "one of"
      OBVIOUS
    <3>2. k \in Kinds
      BY <1>1, <3>1
    <3>3. O = Step(k, args, asks)
      BY <3>1 DEF OneOfAsking
    <3> HIDE DEF O
    <3>4. IsScript(O) /\ DOMAIN O = {1} /\ O[1].kind = k /\ O[1].asks = asks
      BY <3>2, <3>3, StepFacts
    <3> QED BY <3>1, <3>4
  <2> HIDE DEF N, M, O
  <2> QED BY <2>1, <2>2, <2>3
<1>4. ~ args \subseteq c.given => ~ Passes(c, N[1])
  BY <1>3 DEF Passes
<1> HIDE DEF N, M, O
<1>5. asks \subseteq Asked(c) => Prelude(c, N) /\ Prelude(c, M) /\ Prelude(c, O)
  BY <1>2, <1>3 DEF Prelude
<1>7. Checking(N) /\ Checking(M) /\ Checking(O)
  BY <1>1, <1>3 DEF Checking
<1>8. ASSUME ~ args \subseteq c.given PROVE Stops(c, N)
  <2>1. 1 \in DOMAIN N /\ N[1].kind \in Checks /\ ~ Passes(c, N[1])
    BY <1>1, <1>3, <1>4, <1>8
  <2>2. \A j \in 1 .. 1 - 1 : N[j].kind \in Checks \cup {"connect"}
    OBVIOUS
  <2> QED BY <2>1, <2>2 DEF Stops
<1> QED BY <1>5, <1>7, <1>8 DEF N, M, O

\* A script of one step has none before and none after it.
LEMMA NothingAround ==
  \A p : /\ \A j \in 1 .. 1 - 1 : p[j].kind \in Checks \cup {"connect"}
         /\ \A j \in 1 + 1 .. 1 : p[j].kind \in Requests
OBVIOUS

\* A step that looks into no argument, by its kind.
LEMMA PlainStep ==
  ASSUME NEW c, NEW k \in Kinds, NEW asks, asks \subseteq Asked(c)
  PROVE  /\ k \notin Effects => Prelude(c, Step(k, {}, asks))
         /\ k \in Requests /\ Severity(k) <= Allowed(c) =>
              Lawful(c, Step(k, {}, asks)) /\ Closing(c, Step(k, {}, asks))
         /\ k \in Checks \cup {"connect"} => Checking(Step(k, {}, asks))
         /\ k = "refuse" => Stops(c, Step(k, {}, asks))
<1> DEFINE p == Step(k, {}, asks)
<1>1. IsScript(p) /\ DOMAIN p = {1} /\ Len(p) = 1 /\ p[1].kind = k /\ p[1].asks = asks
  BY StepFacts
<1>2. k = "refuse" => ~ Passes(c, p[1])
  BY <1>1 DEF Passes
<1> HIDE DEF p
<1>3. k \notin Effects => Prelude(c, p)
  BY <1>1 DEF Prelude
<1>4. k \in Requests /\ Severity(k) <= Allowed(c) => Lawful(c, p) /\ Closing(c, p)
  BY <1>1, NothingAround DEF Lawful, Closing
<1>5. k \in Checks \cup {"connect"} => Checking(p)
  BY <1>1 DEF Checking
<1>6. k = "refuse" => Stops(c, p)
  BY <1>1, <1>2, NothingAround DEF Stops, Checks
<1> QED BY <1>3, <1>4, <1>5, <1>6 DEF p

\* No steps at all.
LEMMA NoSteps ==
  ASSUME NEW c
  PROVE  Prelude(c, <<>>) /\ Closing(c, <<>>) /\ Checking(<<>>)
<1>1. <<>> \in Seq({}) /\ DOMAIN <<>> = {}
  OBVIOUS
<1>2. IsScript(<<>>)
  BY <1>1, IsScriptOver
<1> QED BY <1>1, <1>2 DEF Prelude, Closing, Checking

\* Parts of the same sort are one part.
LEMMA PartsJoined ==
  ASSUME NEW c, NEW a, NEW b
  PROVE  /\ Closing(c, a) /\ Closing(c, b) => Closing(c, a \o b)
         /\ Checking(a) /\ Checking(b) => Checking(a \o b)
<1>1. ASSUME IsScript(a), IsScript(b), NEW i \in DOMAIN (a \o b)
      PROVE  (\E j \in DOMAIN a : (a \o b)[i] = a[j]) \/ (\E j \in DOMAIN b : (a \o b)[i] = b[j])
  <2>1. i \in 1 .. Len(a) \/ i \in Len(a) + 1 .. Len(a) + Len(b)
    BY <1>1, Joined
  <2>2. CASE i \in 1 .. Len(a)
    BY <1>1, <2>2, Joined
  <2>3. CASE i \in Len(a) + 1 .. Len(a) + Len(b)
    <3>1. i - Len(a) \in DOMAIN b /\ (a \o b)[i] = b[i - Len(a)]
      BY <1>1, <2>3, Joined
    <3> QED BY <3>1
  <2> QED BY <2>1, <2>2, <2>3
<1>2. Closing(c, a) /\ Closing(c, b) => Closing(c, a \o b)
  BY <1>1, Joined DEF Closing
<1>3. Checking(a) /\ Checking(b) => Checking(a \o b)
  BY <1>1, Joined DEF Checking
<1> QED BY <1>2, <1>3

(***************************************************************************)
(* How scripts are put together.                                           *)
(***************************************************************************)
LEMMA Joining ==
  ASSUME NEW c
  PROVE  /\ \A a, b : Prelude(c, a) /\ Prelude(c, b) => Prelude(c, a \o b)
         /\ \A a, b : Prelude(c, a) /\ Lawful(c, b) => Lawful(c, a \o b)
         /\ \A a, b : Lawful(c, a) /\ Closing(c, b) /\ ~ Repeatable(c) => Lawful(c, a \o b)
         /\ \A a : Prelude(c, a) => Lawful(c, a)
         /\ \A a, b : Closing(c, a) /\ Closing(c, b) => Closing(c, a \o b)
         /\ \A a, b : Checking(a) /\ Checking(b) => Checking(a \o b)
         /\ \A a, b : Prelude(c, a) /\ Lawful(c, b) /\ Stops(c, a) => Stops(c, a \o b)
         /\ \A a, b : Lawful(c, a) /\ Closing(c, b) /\ Stops(c, a) => Stops(c, a \o b)
         /\ \A a, b : Prelude(c, a) /\ Lawful(c, b) /\ Checking(a) /\ Stops(c, b) => Stops(c, a \o b)
<1>1. \A s : Prelude(c, s) \/ Lawful(c, s) \/ Closing(c, s) => IsScript(s)
  BY DEF Prelude, Lawful, Closing
<1>2. ASSUME NEW a, NEW b, IsScript(a), IsScript(b), Stops(c, a) PROVE Stops(c, a \o b)
  BY <1>2, StopsJoined
<1>3. ASSUME NEW a, NEW b, IsScript(a), IsScript(b), Checking(a), Stops(c, b) PROVE Stops(c, a \o b)
  BY <1>3, StopsJoined
<1> QED BY <1>1, <1>2, <1>3, PreludeJoined, LawfulAfterPrelude, LawfulBeforeClosing, PreludeIsLawful, PartsJoined

(***************************************************************************)
(* What each kind of step is, as a script of its own.                      *)
(***************************************************************************)
LEMMA Steps ==
  ASSUME NEW c
  PROVE  /\ \A args :
              /\ args \subseteq Asked(c) => Prelude(c, Need(args)) /\ Prelude(c, NeedOne(args))
              /\ Prelude(c, OneOf(args))
              /\ Checking(Need(args)) /\ Checking(NeedOne(args)) /\ Checking(OneOf(args))
              /\ ~ args \subseteq c.given => Stops(c, Need(args))
         /\ \A args, asks :
              asks \subseteq Asked(c) =>
                /\ Prelude(c, NeedAsking(args, asks)) /\ Prelude(c, NeedOneAsking(args, asks))
                /\ Prelude(c, OneOfAsking(args, asks))
         /\ \A asks :
              asks \subseteq Asked(c) =>
                /\ Prelude(c, RefuseAsking(asks)) /\ Stops(c, RefuseAsking(asks))
                /\ Checking(RefuseAsking(asks)) /\ Lawful(c, RefuseAsking(asks))
         /\ Prelude(c, Refuse) /\ Stops(c, Refuse) /\ Checking(Refuse) /\ Checking(<<>>)
         /\ Prelude(c, Read) /\ Prelude(c, Download) /\ Prelude(c, Fetch) /\ Prelude(c, Denied) /\ Prelude(c, <<>>)
         /\ Lawful(c, Read) /\ Lawful(c, Refuse) /\ Lawful(c, <<>>)
         /\ Closing(c, Read) /\ Closing(c, <<>>)
         /\ Allowed(c) >= 1 => Lawful(c, Add) /\ Closing(c, Add)
         /\ Allowed(c) = 2 => Lawful(c, Change) /\ Closing(c, Change) /\ Lawful(c, Remove) /\ Closing(c, Remove)
<1>0. {} \subseteq Asked(c)
  OBVIOUS
<1>1. \A args :
        /\ args \subseteq Asked(c) => Prelude(c, Need(args)) /\ Prelude(c, NeedOne(args))
        /\ Prelude(c, OneOf(args))
        /\ Checking(Need(args)) /\ Checking(NeedOne(args)) /\ Checking(OneOf(args))
        /\ ~ args \subseteq c.given => Stops(c, Need(args))
  BY <1>0, NeedPart DEF Need, NeedOne, OneOf
<1>11. \A args, asks :
         asks \subseteq Asked(c) =>
           /\ Prelude(c, NeedAsking(args, asks)) /\ Prelude(c, NeedOneAsking(args, asks))
           /\ Prelude(c, OneOfAsking(args, asks))
  BY NeedPart
<1>2. {"refuse", "read", "denied", "download", "fetch", "add", "change", "remove"} \subseteq Kinds
  BY DEF Kinds, Checks, Requests, Effects
<1>3. {"refuse", "read", "denied", "download", "fetch"} \cap Effects = {} /\ "refuse" \in Checks
  BY DEF Effects, Checks
<1>4. /\ Severity("read") = 0 /\ Severity("add") = 1 /\ Severity("change") = 2 /\ Severity("remove") = 2
      /\ {"read", "add", "change", "remove"} \subseteq Requests
      /\ 0 <= Allowed(c)
  BY DEF Severity, Requests, Effects, Allowed, EffectOf
<1>12. ASSUME NEW asks, asks \subseteq Asked(c)
       PROVE  /\ Prelude(c, RefuseAsking(asks)) /\ Stops(c, RefuseAsking(asks))
              /\ Checking(RefuseAsking(asks)) /\ Lawful(c, RefuseAsking(asks))
  <2>1. /\ Prelude(c, RefuseAsking(asks)) /\ Stops(c, RefuseAsking(asks))
        /\ Checking(RefuseAsking(asks))
    BY <1>2, <1>3, <1>12, PlainStep DEF RefuseAsking
  <2> QED BY <2>1, PreludeIsLawful
<1>5. /\ Prelude(c, Refuse) /\ Stops(c, Refuse) /\ Checking(Refuse)
      /\ Prelude(c, Read) /\ Prelude(c, Download) /\ Prelude(c, Fetch) /\ Prelude(c, Denied)
  BY <1>0, <1>2, <1>3, <1>12, PlainStep DEF Refuse, Read, Download, Fetch, Denied, Plain
<1>6. Closing(c, Read)
  BY <1>0, <1>2, <1>4, PlainStep DEF Read, Plain
<1>7. Allowed(c) >= 1 => Lawful(c, Add) /\ Closing(c, Add)
  BY <1>0, <1>2, <1>4, PlainStep DEF Add, Plain
<1>8. Allowed(c) = 2 => Lawful(c, Change) /\ Closing(c, Change)
  <2>1. Allowed(c) = 2 => Severity("change") <= Allowed(c)
    BY <1>4
  <2> QED BY <1>0, <2>1, <1>2, <1>4, PlainStep DEF Change, Plain
<1>9. Allowed(c) = 2 => Lawful(c, Remove) /\ Closing(c, Remove)
  <2>1. Allowed(c) = 2 => Severity("remove") <= Allowed(c)
    BY <1>4
  <2> QED BY <1>0, <2>1, <1>2, <1>4, PlainStep DEF Remove, Plain
<1>10. Prelude(c, <<>>) /\ Closing(c, <<>>) /\ Checking(<<>>) /\ Lawful(c, <<>>) /\ Lawful(c, Read) /\ Lawful(c, Refuse)
  BY <1>5, NoSteps, PreludeIsLawful
<1> QED BY <1>1, <1>5, <1>6, <1>7, <1>8, <1>9, <1>10, <1>11, <1>12

-----------------------------------------------------------------------------
(* The handlers. *)

\* A call of a tool and of an action of its table, and what a refusal may ask
\* for: all the action takes, or that and less, or more.
Takes(c, tool, table) ==
  c.tool = tool /\ c.action \in DOMAIN table /\ Requires(c) = table[c.action].requires

Declares(c, tool, table) == Takes(c, tool, table) /\ Asked(c) = Accepted(table[c.action])

DeclaresBut(c, tool, table, unsupported) ==
  Takes(c, tool, table) /\ Asked(c) = Accepted(table[c.action]) \ unsupported

DeclaresWith(c, tool, table, misnamed) ==
  Takes(c, tool, table) /\ Accepted(table[c.action]) \cup misnamed \subseteq Asked(c)

(***************************************************************************)
(* Every action of every handler: it checks what its table requires before *)
(* it asks Plane, asks for nothing else, and does no more than its name    *)
(* says.                                                                   *)
(***************************************************************************)
LEMMA HandlerFits ==
  \A c : c.tool \in Tool /\ c.action \in DOMAIN Catalogue[c.tool] => Fits(c, Handler(c))
<1> USE Joining, Steps DEF Fits, Takes, Declares, DeclaresBut, DeclaresWith, Accepted, Reads, Writes, Destroys, When,
        Allowed, EffectOf, ReadNames, AddNames, Repeatable, Compound
<1>1. ASSUME NEW c, Declares(c, "customer", CustomerActions) PROVE Fits(c, Customer(c))
  <2>1. CASE c.action = "manage_workitems"
    BY <1>1, <2>1 DEF Customer, CustomerActions, Each
  <2>2. CASE c.action \in {"list", "create", "list_workitems"}
    BY <1>1, <2>2 DEF Customer, CustomerActions, Crud, Record
  <2>3. CASE c.action \in {"retrieve", "update", "delete"}
    BY <1>1, <2>3 DEF Customer, CustomerActions, Crud, Record
  <2>4. c.action \in DOMAIN CustomerActions
    BY <1>1
  <2> QED BY <2>1, <2>2, <2>3, <2>4 DEF CustomerActions
<1>2. ASSUME NEW c, Declares(c, "customer_property", CustomerPropertyActions)
      PROVE  Fits(c, CustomerProperty(c))
  BY <1>2 DEF CustomerProperty, CustomerPropertyActions, Crud, Record
<1>3. ASSUME NEW c, Declares(c, "customer_request", CustomerRequestActions)
      PROVE  Fits(c, CustomerRequest(c))
  BY <1>3 DEF CustomerRequest, CustomerRequestActions, Crud, Record
<1>4. ASSUME NEW c, Declares(c, "cycle", CycleActions) PROVE Fits(c, Cycle(c))
  BY <1>4 DEF Cycle, CycleActions, Record, Members, Each
<1>5. ASSUME NEW c, Declares(c, "get_pql_reference", PqlReferenceActions)
      PROVE  Fits(c, PqlReference(c))
  BY <1>5 DEF PqlReference, PqlReferenceActions
<1>6. ASSUME NEW c, Declares(c, "initiative", InitiativeActions)
      PROVE  Fits(c, Initiative(c))
  BY <1>6 DEF Initiative, InitiativeActions, Record
<1>7. ASSUME NEW c, Declares(c, "intake", IntakeActions) PROVE Fits(c, Intake(c))
  BY <1>7 DEF Intake, IntakeActions, Crud, Record, Item
<1>8. ASSUME NEW c, Declares(c, "label", LabelActions) PROVE Fits(c, Label(c))
  BY <1>8 DEF Label, LabelActions, Crud, Record
<1>9. ASSUME NEW c, DeclaresBut(c, "member", MemberActions, Unsupported["member"])
      PROVE  Fits(c, Member(c))
  BY <1>9 DEF Member, MemberActions, Unsupported
<1>10. ASSUME NEW c, Declares(c, "milestone", MilestoneActions)
      PROVE  Fits(c, Milestone(c))
  BY <1>10 DEF Milestone, MilestoneActions, Crud, Record, Members
<1>11. ASSUME NEW c, Declares(c, "module", ModuleActions) PROVE Fits(c, Module(c))
  BY <1>11 DEF Module, ModuleActions, Crud, Record, Members, Each
<1>12. ASSUME NEW c, Declares(c, "page", PageActions) PROVE Fits(c, Page(c))
  BY <1>12 DEF Page, PageActions, Record, SetCollection
<1>13. ASSUME NEW c, Declares(c, "project", ProjectActions) PROVE Fits(c, Project(c))
  BY <1>13 DEF Project, ProjectActions, Crud, Record
<1>14. ASSUME NEW c, Declares(c, "project_estimate", ProjectEstimateActions)
      PROVE  Fits(c, ProjectEstimate(c))
  BY <1>14 DEF ProjectEstimate, ProjectEstimateActions, Record
<1>15. ASSUME NEW c, Declares(c, "release", ReleaseActions) PROVE Fits(c, Release(c))
  BY <1>15 DEF Release, ReleaseActions, Crud, Record, Members
<1>16. ASSUME NEW c, Declares(c, "release_label", ReleaseLabelActions)
      PROVE  Fits(c, ReleaseLabel(c))
  BY <1>16 DEF ReleaseLabel, ReleaseLabelActions, Crud, Record
<1>17. ASSUME NEW c, Declares(c, "release_tag", ReleaseTagActions)
      PROVE  Fits(c, ReleaseTag(c))
  BY <1>17 DEF ReleaseTag, ReleaseTagActions, Crud, Record
<1>18. ASSUME NEW c, Declares(c, "state", StateActions) PROVE Fits(c, State(c))
  BY <1>18 DEF State, StateActions, Record, StateFields
<1>19. ASSUME NEW c, Declares(c, "work_log", WorkLogActions) PROVE Fits(c, WorkLog(c))
  BY <1>19 DEF WorkLog, WorkLogActions, Crud, Record, Item
<1>20. ASSUME NEW c, DeclaresWith(c, "workitem", WorkItemActions, Misnamed(c)) PROVE Fits(c, WorkItem(c))
  <2>1. CASE c.action = "manage_assignee"
    <3>1. /\ Requires(c) = Item
          /\ Item \cup {"add_assignee_id", "remove_assignee_id"} \subseteq Asked(c)
      BY <1>20, <2>1 DEF WorkItemActions, Misnamed
    <3> QED BY <1>20, <2>1, <3>1 DEF WorkItem, Item
  <2>2. CASE c.action # "manage_assignee"
    BY <1>20, <2>2 DEF WorkItem, WorkItemActions, Record, Item
  <2> QED BY <2>1, <2>2
<1>21. ASSUME NEW c, Declares(c, "workitem_activity", ActivityActions)
      PROVE  Fits(c, Activity(c))
  BY <1>21 DEF Activity, ActivityActions, Crud, Record, Item
<1>22. ASSUME NEW c, Declares(c, "workitem_attachment", AttachmentActions)
      PROVE  Fits(c, Attachment(c))
  BY <1>22 DEF Attachment, AttachmentActions, Item
<1>23. ASSUME NEW c, Declares(c, "workitem_comment", CommentActions)
      PROVE  Fits(c, Comment(c))
  BY <1>23 DEF Comment, CommentActions, Crud, Record, Posted, MentionCheck, Item
<1>24. ASSUME NEW c, Declares(c, "workitem_link", LinkActions) PROVE Fits(c, Link(c))
  BY <1>24 DEF Link, LinkActions, Crud, Record, Item
<1>25. ASSUME NEW c, Declares(c, "workitem_property", PropertyActions)
      PROVE  Fits(c, Property(c))
  BY <1>25 DEF Property, PropertyActions, Record, PropertyValue, Item, PropertyList,
       LinkedProperties, PropertyCreate, PropertyLinks, Each
<1>26. ASSUME NEW c, DeclaresWith(c, "workitem_relation", RelationActions, {})
      PROVE  Fits(c, Relation(c))
  BY <1>26 DEF Relation, RelationActions, Each, Item
<1>27. ASSUME NEW c, Declares(c, "workitem_type", TypeActions) PROVE Fits(c, Type(c))
  BY <1>27 DEF Type, TypeActions, Crud, Record, Resolve, Adopt
<1>28. ASSUME NEW c, Declares(c, "workspace", WorkspaceActions)
      PROVE  Fits(c, Workspace(c))
  BY <1>28 DEF Workspace, WorkspaceActions
<1>29. ASSUME NEW c, Declares(c, "template", TemplateActions) PROVE Fits(c, Template(c))
  <2>1. CASE c.action = "create"
    <3> HIDE DEF Allowed
    <3>1. /\ Requires(c) = {"kind", "name", "template_data"}
          /\ Asked(c) = {"kind", "name", "template_data", "project_id"}
      BY <1>29, <2>1 DEF TemplateActions
    <3>2. Allowed(c) >= 1
      BY <1>29, <2>1 DEF Allowed
    <3> QED BY <2>1, <3>1, <3>2 DEF Template
  <2>2. CASE c.action = "list"
    <3>1. /\ Requires(c) = {"kind"}
          /\ Asked(c) = {"kind", "project_id"}
      BY <1>29, <2>2 DEF TemplateActions
    <3> QED BY <1>29, <2>2, <3>1 DEF Template
  <2>3. CASE c.action = "update"
    <3>1. /\ Requires(c) = {"kind", "template_id"}
          /\ Asked(c) = {"kind", "template_id", "project_id", "name", "description", "template_data"}
      BY <1>29, <2>3 DEF TemplateActions
    <3> QED BY <1>29, <2>3, <3>1 DEF Template
  <2>4. CASE c.action = "delete"
    <3>1. /\ Requires(c) = {"kind", "template_id"}
          /\ Asked(c) = {"kind", "template_id", "project_id"}
      BY <1>29, <2>4 DEF TemplateActions
    <3> QED BY <1>29, <2>4, <3>1 DEF Template
  <2> QED BY <1>29, <2>1, <2>2, <2>3, <2>4 DEF TemplateActions
<1>30. ASSUME NEW c, Declares(c, "collection", CollectionActions)
      PROVE  Fits(c, Collection(c))
  BY <1>30 DEF Collection, CollectionActions, Crud, Record
<1> HIDE Joining, Steps DEF Fits, Takes, Declares, DeclaresBut, DeclaresWith, Accepted, Reads, Writes, Destroys, When,
        Allowed, EffectOf, ReadNames, AddNames, Repeatable, Compound
<1>31. SUFFICES ASSUME NEW c, c.tool \in Tool, c.action \in DOMAIN Catalogue[c.tool] PROVE Fits(c, Handler(c))
  OBVIOUS
<1> USE DEF Handler, Catalogue, Declares, Takes, Requires, Asked, Askable, Misnamed
<1>32. CASE c.tool = "customer"
  BY <1>1, <1>31, <1>32 DEF Unsupported
<1>33. CASE c.tool = "customer_property"
  BY <1>2, <1>31, <1>33 DEF Unsupported
<1>34. CASE c.tool = "customer_request"
  BY <1>3, <1>31, <1>34 DEF Unsupported
<1>35. CASE c.tool = "cycle"
  BY <1>4, <1>31, <1>35 DEF Unsupported
<1>36. CASE c.tool = "get_pql_reference"
  BY <1>5, <1>31, <1>36 DEF Unsupported
<1>37. CASE c.tool = "initiative"
  BY <1>6, <1>31, <1>37 DEF Unsupported
<1>38. CASE c.tool = "intake"
  BY <1>7, <1>31, <1>38 DEF Unsupported
<1>39. CASE c.tool = "label"
  BY <1>8, <1>31, <1>39 DEF Unsupported
<1>40. CASE c.tool = "member"
  <2>1. "member" \in DOMAIN Unsupported
    BY DEF Unsupported
  <2> QED BY <1>9, <1>31, <1>40, <2>1 DEF DeclaresBut
<1>41. CASE c.tool = "milestone"
  BY <1>10, <1>31, <1>41 DEF Unsupported
<1>42. CASE c.tool = "module"
  BY <1>11, <1>31, <1>42 DEF Unsupported
<1>43. CASE c.tool = "page"
  BY <1>12, <1>31, <1>43 DEF Unsupported
<1>44. CASE c.tool = "project"
  BY <1>13, <1>31, <1>44 DEF Unsupported
<1>45. CASE c.tool = "project_estimate"
  BY <1>14, <1>31, <1>45 DEF Unsupported
<1>46. CASE c.tool = "release"
  BY <1>15, <1>31, <1>46 DEF Unsupported
<1>47. CASE c.tool = "release_label"
  BY <1>16, <1>31, <1>47 DEF Unsupported
<1>48. CASE c.tool = "release_tag"
  BY <1>17, <1>31, <1>48 DEF Unsupported
<1>49. CASE c.tool = "state"
  BY <1>18, <1>31, <1>49 DEF Unsupported
<1>50. CASE c.tool = "work_log"
  BY <1>19, <1>31, <1>50 DEF Unsupported
<1>51. CASE c.tool = "workitem"
  BY <1>20, <1>31, <1>51 DEF Unsupported, DeclaresWith
<1>52. CASE c.tool = "workitem_activity"
  BY <1>21, <1>31, <1>52 DEF Unsupported
<1>53. CASE c.tool = "workitem_attachment"
  BY <1>22, <1>31, <1>53 DEF Unsupported
<1>54. CASE c.tool = "workitem_comment"
  BY <1>23, <1>31, <1>54 DEF Unsupported
<1>55. CASE c.tool = "workitem_link"
  BY <1>24, <1>31, <1>55 DEF Unsupported
<1>56. CASE c.tool = "workitem_property"
  BY <1>25, <1>31, <1>56 DEF Unsupported
<1>57. CASE c.tool = "workitem_relation"
  <2>1. "workitem_relation" \in DOMAIN Unsupported
    BY DEF Unsupported
  <2>2. Unsupported["workitem_relation"] \subseteq Misnamed(c)
    BY <1>57
  <2> QED BY <1>26, <1>31, <1>57, <2>1, <2>2 DEF DeclaresWith
<1>58. CASE c.tool = "workitem_type"
  BY <1>27, <1>31, <1>58 DEF Unsupported
<1>59. CASE c.tool = "workspace"
  BY <1>28, <1>31, <1>59 DEF Unsupported
<1>60. CASE c.tool = "template"
  BY <1>29, <1>31, <1>60 DEF Unsupported
<1>61. CASE c.tool = "collection"
  BY <1>30, <1>31, <1>61 DEF Unsupported
<1> HIDE DEF Handler, Declares, Takes, Requires, Asked, Askable, Misnamed
<1> QED BY <1>31, <1>32, <1>33, <1>34, <1>35, <1>36, <1>37, <1>38, <1>39, <1>40, <1>41,
       <1>42, <1>43, <1>44, <1>45, <1>46, <1>47, <1>48, <1>49, <1>50, <1>51, <1>52,
       <1>53, <1>54, <1>55, <1>56, <1>57, <1>58, <1>59, <1>60, <1>61 DEF Tool

(***************************************************************************)
(* What a call of a listed tool goes through: a refusal, the relations     *)
(* route, or the connection and the handler.                               *)
(***************************************************************************)
LEMMA ServedFits ==
  ASSUME NEW surf, NEW c, c.tool \in Tool, c.tool \in DOMAIN surf, surf[c.tool] \subseteq DOMAIN Catalogue[c.tool]
  PROVE  Fits(c, Served(surf, c))
<1>1. Fits(c, Refuse) /\ Fits(c, RefuseAsking(Instead(c)))
  <2>1. Instead(c) \subseteq Misnamed(c)
    BY DEF Instead, Misnamed
  <2>2. Instead(c) \subseteq Asked(c)
    BY <2>1 DEF Asked
  <2> QED BY <2>2, Steps DEF Fits
<1>2. Prelude(c, Connect(c)) /\ Checking(Connect(c))
  <2>1. "connect" \in Kinds /\ "connect" \notin Effects
    BY DEF Kinds, Effects
  <2>2. {} \subseteq Asked(c)
    OBVIOUS
  <2> QED BY <2>1, <2>2, PlainStep, NoSteps DEF Connect, When, Plain
<1>3. ASSUME RestoresRelation(c) PROVE Fits(c, Connect(c) \o Add)
  <2>1. c.tool = "workitem_relation" /\ c.action = "create"
    BY <1>3 DEF RestoresRelation
  <2>2. Requires(c) \subseteq c.given
    <3>1. Requires(c) \subseteq {"project_id", "workitem_id", "workitem_ids", "relation_type"}
      BY <2>1 DEF Requires, Catalogue, RelationActions, Writes, Item
    <3> QED BY <1>3, <3>1 DEF RestoresRelation
  <2>3. Allowed(c) >= 1
    BY <2>1 DEF Allowed, EffectOf, AddNames, ReadNames
  <2> QED BY <1>2, <2>2, <2>3, Joining, Steps DEF Fits
<1>4. ASSUME ~ Barred(surf, c) PROVE Fits(c, Connect(c) \o Handler(c))
  <2>1. Fits(c, Handler(c))
    BY <1>4, HandlerFits DEF Barred
  <2> QED BY <1>2, <2>1, Joining DEF Fits
<1> QED BY <1>1, <1>3, <1>4 DEF Served

-----------------------------------------------------------------------------
(* Going on with a script. *)

\* What is left of a script, step by step.
LEMMA Going ==
  ASSUME NEW s, IsScript(s), s # <<>>
  PROVE  /\ IsScript(Tail(s))
         /\ DOMAIN s = 1 .. Len(s) /\ 1 \in DOMAIN s /\ Len(s) \in Nat
         /\ Head(s) = s[1] /\ Len(Tail(s)) = Len(s) - 1
         /\ DOMAIN Tail(s) = 1 .. Len(s) - 1
         /\ Len(s) = 1 => Tail(s) = <<>>
         /\ \A i \in DOMAIN Tail(s) : i + 1 \in DOMAIN s /\ Tail(s)[i] = s[i + 1]
<1> DEFINE T == {s[i] : i \in DOMAIN s}
<1>1. s \in Seq(T) /\ \A i \in DOMAIN s : s[i].kind \in Kinds
  BY DEF IsScript
<1> HIDE DEF T
<1>2. /\ Tail(s) \in Seq(T)
      /\ DOMAIN s = 1 .. Len(s) /\ 1 \in DOMAIN s /\ Len(s) \in Nat
      /\ Head(s) = s[1] /\ Len(Tail(s)) = Len(s) - 1
      /\ DOMAIN Tail(s) = 1 .. Len(s) - 1
  BY <1>1
<1>3. \A i \in DOMAIN Tail(s) : i + 1 \in DOMAIN s /\ Tail(s)[i] = s[i + 1]
  BY <1>1, <1>2
<1>4. \A i \in DOMAIN Tail(s) : Tail(s)[i].kind \in Kinds
  BY <1>1, <1>3
<1>5. Len(s) = 1 => Tail(s) = <<>>
  BY <1>1, <1>2
<1> QED BY <1>2, <1>3, <1>4, <1>5, IsScriptOver

\* A lawful script stays lawful; after a change it holds no more than
\* requests, and nothing at all unless the operation is several changes.
LEMMA LawfulGoesOn ==
  ASSUME NEW c, NEW s, Lawful(c, s), s # <<>>
  PROVE  /\ Lawful(c, Tail(s))
         /\ Head(s).kind \in Kinds
         /\ Head(s).kind \in Checks => Head(s).asks \subseteq Asked(c)
         /\ Head(s).kind \in Requests => Severity(Head(s).kind) <= Allowed(c)
         /\ Head(s).kind \in Effects =>
              /\ \A i \in DOMAIN Tail(s) : Tail(s)[i].kind \in Requests
              /\ Repeatable(c) => Tail(s) = <<>>
<1>1. IsScript(s)
  BY DEF Lawful
<1>2. Head(s).kind \in Kinds
  BY <1>1, Going DEF IsScript
<1>3. /\ Head(s).kind \in Checks => Head(s).asks \subseteq Asked(c)
      /\ Head(s).kind \in Requests => Severity(Head(s).kind) <= Allowed(c)
  BY <1>1, Going DEF Lawful
<1>4. ASSUME Head(s).kind \in Effects
      PROVE  /\ \A i \in DOMAIN Tail(s) : Tail(s)[i].kind \in Requests
             /\ Repeatable(c) => Tail(s) = <<>>
  <2>1. /\ \A j \in 1 + 1 .. Len(s) : s[j].kind \in Requests
        /\ Repeatable(c) => 1 = Len(s)
    BY <1>1, <1>4, Going DEF Lawful
  <2>2. ASSUME NEW i \in DOMAIN Tail(s) PROVE Tail(s)[i].kind \in Requests
    <3>1. Tail(s)[i] = s[i + 1] /\ i + 1 \in 1 + 1 .. Len(s)
      BY <1>1, Going
    <3> QED BY <2>1, <3>1
  <2>3. ASSUME Repeatable(c) PROVE Tail(s) = <<>>
    BY <1>1, <2>1, <2>3, Going
  <2> QED BY <2>2, <2>3
<1>5. ASSUME NEW i \in DOMAIN Tail(s)
      PROVE  /\ Tail(s)[i].kind \in Checks => Tail(s)[i].asks \subseteq Asked(c)
             /\ Tail(s)[i].kind \in Requests => Severity(Tail(s)[i].kind) <= Allowed(c)
             /\ Tail(s)[i].kind \in Effects =>
                  /\ \A j \in i + 1 .. Len(Tail(s)) : Tail(s)[j].kind \in Requests
                  /\ Repeatable(c) => i = Len(Tail(s))
  <2>1. Tail(s)[i] = s[i + 1] /\ i + 1 \in DOMAIN s /\ i \in Nat /\ Len(s) \in Nat /\ Len(Tail(s)) = Len(s) - 1
    BY <1>1, Going
  <2>2. /\ s[i + 1].kind \in Checks => s[i + 1].asks \subseteq Asked(c)
        /\ s[i + 1].kind \in Requests => Severity(s[i + 1].kind) <= Allowed(c)
        /\ s[i + 1].kind \in Effects =>
             /\ \A j \in (i + 1) + 1 .. Len(s) : s[j].kind \in Requests
             /\ Repeatable(c) => i + 1 = Len(s)
    BY <2>1 DEF Lawful
  <2>3. \A j \in i + 1 .. Len(Tail(s)) : Tail(s)[j] = s[j + 1] /\ j + 1 \in (i + 1) + 1 .. Len(s)
    BY <1>1, <2>1, Going
  <2>4. ASSUME Tail(s)[i].kind \in Effects
        PROVE  /\ \A j \in i + 1 .. Len(Tail(s)) : Tail(s)[j].kind \in Requests
               /\ Repeatable(c) => i = Len(Tail(s))
    <3>1. s[i + 1].kind \in Effects
      BY <2>1, <2>4
    <3>2. \A j \in i + 1 .. Len(Tail(s)) : Tail(s)[j].kind \in Requests
      BY <2>2, <2>3, <3>1
    <3>3. Repeatable(c) => i = Len(Tail(s))
      BY <2>1, <2>2, <3>1
    <3> QED BY <3>2, <3>3
  <2> QED BY <2>1, <2>2, <2>4
<1>6. IsScript(Tail(s))
  BY <1>1, Going
<1> QED BY <1>2, <1>3, <1>4, <1>5, <1>6 DEF Lawful

\* A call that is going to be refused is not past the check that refuses it.
LEMMA StopsGoesOn ==
  ASSUME NEW c, NEW s, IsScript(s), Stops(c, s)
  PROVE  /\ s # <<>>
         /\ Head(s).kind \in Checks \cup {"connect"}
         /\ Head(s).kind = "connect" \/ Passes(c, Head(s)) => Stops(c, Tail(s))
<1>1. PICK i \in DOMAIN s : /\ s[i].kind \in Checks /\ ~ Passes(c, s[i])
                            /\ \A j \in 1 .. i - 1 : s[j].kind \in Checks \cup {"connect"}
  BY DEF Stops
<1>2. s # <<>>
  <2>1. DOMAIN <<>> = {}
    OBVIOUS
  <2> QED BY <1>1, <2>1
<1>3. i \in Nat /\ 1 <= i /\ i <= Len(s) /\ Head(s) = s[1] /\ Len(s) \in Nat
  BY <1>1, <1>2, Going
<1>4. Head(s).kind \in Checks \cup {"connect"}
  <2>1. i = 1 \/ 1 \in 1 .. i - 1
    BY <1>3
  <2> QED BY <1>1, <1>3, <2>1
<1>5. ASSUME Head(s).kind = "connect" \/ Passes(c, Head(s)) PROVE Stops(c, Tail(s))
  <2>1. "connect" \notin Checks
    BY DEF Checks
  <2>2. i # 1
    BY <1>1, <1>3, <1>5, <2>1
  <2>3. i - 1 \in DOMAIN Tail(s) /\ Tail(s)[i - 1] = s[i]
    <3>1. i - 1 \in DOMAIN Tail(s) /\ (i - 1) + 1 = i
      BY <1>2, <1>3, <2>2, Going
    <3>2. Tail(s)[i - 1] = s[(i - 1) + 1]
      BY <1>2, <3>1, Going
    <3> QED BY <3>1, <3>2
  <2>4. ASSUME NEW j \in 1 .. (i - 1) - 1 PROVE Tail(s)[j].kind \in Checks \cup {"connect"}
    <3>1. j \in DOMAIN Tail(s) /\ j + 1 \in 1 .. i - 1
      BY <1>2, <1>3, Going
    <3>2. Tail(s)[j] = s[j + 1]
      BY <1>2, <3>1, Going
    <3> QED BY <1>1, <3>1, <3>2
  <2> QED BY <1>1, <2>3, <2>4 DEF Stops
<1> QED BY <1>2, <1>4, <1>5

\* The hint of a tool is at least what each of its actions in force does.
LEMMA HintCovers ==
  ASSUME NEW surf, NEW tool, NEW action,
         tool \in DOMAIN surf, action \in surf[tool], surf[tool] \subseteq DOMAIN Catalogue[tool]
  PROVE  /\ EffectOf(action) <= ToolEffect(surf, tool)
         /\ EffectOf(action) \in 0 .. 2 /\ ToolEffect(surf, tool) \in 0 .. 2
<1> DEFINE effects == {EffectOf(a) : a \in surf[tool] \cap DOMAIN Catalogue[tool]}
           most == CHOOSE e \in effects : \A f \in effects : f <= e
<1>1. EffectOf(action) \in effects /\ effects \subseteq {0, 1, 2}
  BY DEF EffectOf
<1>2. ToolEffect(surf, tool) = most
  <2>1. effects # {}
    BY <1>1
  <2> QED BY <2>1 DEF ToolEffect
<1> HIDE DEF effects
<1>3. \E e \in effects : \A f \in effects : f <= e
  <2>1. CASE 2 \in effects
    BY <1>1, <2>1
  <2>2. CASE 2 \notin effects /\ 1 \in effects
    <3>1. effects \subseteq {0, 1}
      BY <1>1, <2>2
    <3> QED BY <2>2, <3>1
  <2>3. CASE effects \subseteq {0}
    <3>1. 0 \in effects
      BY <1>1, <2>3
    <3> QED BY <2>3, <3>1
  <2> QED BY <1>1, <2>1, <2>2, <2>3
<1>4. most \in effects /\ \A f \in effects : f <= most
  BY <1>3
<1> HIDE DEF most
<1>5. most \in {0, 1, 2} /\ EffectOf(action) \in {0, 1, 2} /\ EffectOf(action) <= most
  BY <1>1, <1>4
<1> QED BY <1>2, <1>5

-----------------------------------------------------------------------------
(* A call under way. *)

Lacks == phase # "idle" /\ ~ Requires(call) \subseteq call.given

(***************************************************************************)
(* A call and its script: what it is still to do is lawful, what was sent  *)
(* is covered by the hint of its action.  One that lacks an argument is    *)
(* going to be refused before anything is asked of Plane; one that has     *)
(* changed something has no check left.                                    *)
(***************************************************************************)
CallInv ==
  /\ surface \in Surfaces
  /\ phase \in {"idle", "received", "serving"} \cup Answers
  /\ phase = "idle" => call = NoCall /\ name = "none"
  /\ phase # "idle" => /\ call.tool \in Tool /\ call.bad \subseteq call.given
                       /\ name \in {"retired"} \cup Tool \cup DOMAIN Alias
  /\ IsScript(script) /\ sent \in Seq(Requests)
  /\ phase \in {"idle", "received", "rejected", "unknown"} => sent = <<>> /\ fetch.status = "idle"
  /\ phase = "serving" => Lawful(call, script)
  /\ \A i \in DOMAIN sent : Severity(sent[i]) <= Allowed(call)
  /\ Lacks => sent = <<>> /\ fetch.status = "idle" /\ (phase = "serving" => Stops(call, script))
  /\ phase = "serving" /\ Changed # {} =>
       /\ \A i \in DOMAIN script : script[i].kind \in Requests
       /\ Repeatable(call) => script = <<>>
  /\ phase = "refused" => Changed = {}
  /\ phase = "failed" /\ Changed # {} => ~ Repeatable(call)
  /\ phase # "refused" => lacking = {}
  /\ phase = "refused" => lacking \subseteq Asked(call)

\* What the next step of a call may be.
LEMMA NextStep ==
  ASSUME CallInv, NEW kinds, Facing(kinds)
  PROVE  /\ Lawful(call, script) /\ script # <<>> /\ Head(script).kind \in kinds
         /\ Changed # {} => Head(script).kind \in Requests /\ ~ Repeatable(call)
         /\ Lacks => Head(script).kind \in Checks \cup {"connect"}
<1>1. phase = "serving" /\ script # <<>> /\ Head(script).kind \in kinds /\ Lawful(call, script) /\ IsScript(script)
  BY DEF CallInv, Facing
<1>2. 1 \in DOMAIN script /\ Head(script) = script[1]
  BY <1>1, Going
<1>3. Changed # {} => Head(script).kind \in Requests /\ ~ Repeatable(call)
  BY <1>1, <1>2 DEF CallInv
<1>4. Lacks => Stops(call, script)
  BY <1>1 DEF CallInv
<1>5. Lacks => Head(script).kind \in Checks \cup {"connect"}
  BY <1>1, <1>4, StopsGoesOn
<1> QED BY <1>1, <1>3, <1>5

\* A step that is done leaves the call on its way.
LEMMA GoesOn ==
  ASSUME CallInv, NEW kinds, Facing(kinds), Done,
         UNCHANGED <<surface, call, name, lacking>>, fetch'.status \in {"idle", fetch.status},
         Head(script).kind \in Checks => Passes(call, Head(script)),
         \/ UNCHANGED sent /\ Head(script).kind \notin Effects
         \/ sent' = Append(sent, Head(script).kind) /\ Head(script).kind \in Requests
  PROVE  CallInv'
<1> DEFINE k == Head(script).kind
<1>1. /\ phase = "serving" /\ phase' = "serving" /\ script # <<>> /\ script' = Tail(script)
      /\ Lawful(call, script) /\ IsScript(script)
      /\ Changed # {} => k \in Requests /\ ~ Repeatable(call)
      /\ Lacks => k \in Checks \cup {"connect"}
      /\ surface' = surface /\ call' = call /\ name' = name /\ lacking' = lacking
  BY NextStep DEF CallInv, Facing, Done
<1>2. /\ Lawful(call, script') /\ IsScript(script')
      /\ k \in Requests => Severity(k) <= Allowed(call)
      /\ k \in Effects => /\ \A i \in DOMAIN script' : script'[i].kind \in Requests
                          /\ Repeatable(call) => script' = <<>>
  BY <1>1, LawfulGoesOn, Going
<1>3. /\ sent' \in Seq(Requests)
      /\ \A i \in DOMAIN sent' : Severity(sent'[i]) <= Allowed(call)
      /\ Changed' # {} => Changed # {} \/ k \in Effects
  <2>1. sent \in Seq(Requests) /\ \A i \in DOMAIN sent : Severity(sent[i]) <= Allowed(call)
    BY DEF CallInv
  <2>2. CASE UNCHANGED sent
    BY <2>1, <2>2 DEF Changed
  <2>3. CASE sent' = Append(sent, k) /\ k \in Requests
    <3>1. /\ sent' \in Seq(Requests)
          /\ \A i \in DOMAIN sent' : (i \in DOMAIN sent /\ sent'[i] = sent[i]) \/ sent'[i] = k
      BY <2>1, <2>3
    <3> QED BY <1>2, <2>1, <2>3, <3>1 DEF Changed
  <2> QED BY <2>2, <2>3
<1>4. Lacks' => Lacks
  BY <1>1 DEF Lacks
<1>5. ASSUME Lacks PROVE sent' = <<>> /\ fetch'.status = "idle" /\ Stops(call, script')
  <2>1. k \notin Requests
    BY <1>1, <1>5 DEF Checks, Requests, Effects
  <2>2. sent = <<>> /\ fetch.status = "idle" /\ Stops(call, script)
    BY <1>1, <1>5 DEF CallInv
  <2> QED BY <1>1, <1>5, <2>1, <2>2, StopsGoesOn
<1>6. ASSUME Changed' # {}
      PROVE  /\ \A i \in DOMAIN script' : script'[i].kind \in Requests
             /\ Repeatable(call) => script' = <<>>
  <2>1. CASE k \in Effects
    BY <1>2, <2>1
  <2>2. CASE Changed # {}
    <3>1. ~ Repeatable(call) /\ \A i \in DOMAIN script : script[i].kind \in Requests
      BY <1>1, <2>2 DEF CallInv
    <3> QED BY <1>1, <3>1, Going
  <2> QED BY <1>3, <1>6, <2>1, <2>2
<1> HIDE DEF k
<1>7. /\ surface \in Surfaces /\ lacking = {}
      /\ call.tool \in Tool /\ call.bad \subseteq call.given
      /\ name \in {"retired"} \cup Tool \cup DOMAIN Alias
  BY <1>1 DEF CallInv
<1> QED BY <1>1, <1>2, <1>3, <1>4, <1>5, <1>6, <1>7 DEF CallInv

\* An answer ends it.
LEMMA Ends ==
  ASSUME CallInv, phase = "serving", NEW answer \in {"refused", "failed", "answered"}, Answer(answer),
         UNCHANGED <<surface, call, name, sent>>, fetch'.status \in {"idle", fetch.status},
         answer = "refused" => Changed = {} /\ lacking' \subseteq Asked(call),
         answer = "failed" /\ Changed # {} => ~ Repeatable(call),
         answer # "refused" => UNCHANGED lacking
  PROVE  CallInv'
<1>1. /\ phase' = answer /\ script' = script /\ sent' = sent
      /\ surface' = surface /\ call' = call /\ name' = name
  BY DEF Answer
<1>2. Changed' = Changed
  BY <1>1 DEF Changed
<1>3. Lacks' => Lacks /\ sent = <<>> /\ fetch.status = "idle"
  BY <1>1 DEF Lacks, CallInv
<1>4. phase' \in Answers /\ phase' \notin {"idle", "received", "serving", "rejected", "unknown"}
  BY <1>1 DEF Answers
<1>5. /\ surface \in Surfaces /\ IsScript(script) /\ sent \in Seq(Requests) /\ lacking = {}
      /\ call.tool \in Tool /\ call.bad \subseteq call.given
      /\ name \in {"retired"} \cup Tool \cup DOMAIN Alias
      /\ \A i \in DOMAIN sent : Severity(sent[i]) <= Allowed(call)
  BY DEF CallInv
<1> QED BY <1>1, <1>2, <1>3, <1>4, <1>5 DEF CallInv

LEMMA CallInitial == Init => CallInv
<1> SUFFICES ASSUME Init PROVE CallInv
  OBVIOUS
<1>1. /\ surface \in Surfaces /\ phase = "idle" /\ call = NoCall /\ name = "none"
      /\ script = <<>> /\ sent = <<>> /\ lacking = {} /\ fetch.status = "idle"
  BY DEF Init, FetchInit, NoFetch
<1>2. IsScript(<<>>) /\ <<>> \in Seq(Requests) /\ DOMAIN <<>> = {}
  BY NoSteps DEF Prelude
<1>3. Changed = {}
  BY <1>1, <1>2 DEF Changed
<1>4. ~ Lacks
  BY <1>1 DEF Lacks
<1> QED BY <1>1, <1>2, <1>3, <1>4 DEF CallInv

LEMMA CallStep == CallInv /\ [Next]_vars => CallInv'
<1> SUFFICES ASSUME CallInv, [Next]_vars PROVE CallInv'
  OBVIOUS
<1>1. CASE Receive
  <2>1. /\ phase = "idle" /\ phase' = "received" /\ UNCHANGED <<surface, script, sent, lacking>>
        /\ fetch' = fetch
    BY <1>1 DEF Receive, fetchVars
  <2>2. PICK c \in Calls[surface] : \E n \in Names(c) : call' = Chosen(c) /\ name' = n
    BY <1>1 DEF Receive
  <2>3. /\ call'.tool \in Tool /\ call'.bad \subseteq call'.given
        /\ name' \in {"retired"} \cup Tool \cup DOMAIN Alias
    <3>1. c.tool \in Tool /\ c.bad \subseteq c.given
      BY <2>2, ToolCallAssumption DEF CallInv
    <3>2. PICK n \in Names(c) : call' = Chosen(c) /\ name' = n
      BY <2>2
    <3>3. n \in {"retired"} \cup Tool \cup DOMAIN Alias
      BY <3>1 DEF Names
    <3>4. Chosen(c).tool = c.tool /\ Chosen(c).bad = c.bad /\ Chosen(c).given = c.given
      BY DEF Chosen
    <3> QED BY <3>1, <3>2, <3>3, <3>4
  <2>4. sent = <<>> /\ DOMAIN <<>> = {} /\ Changed' = {}
    BY <2>1 DEF CallInv, Changed
  <2> QED BY <2>1, <2>2, <2>3, <2>4 DEF CallInv
<1>2. CASE Reject \/ NotFound
  <2>1. /\ phase = "received" /\ phase' \in {"rejected", "unknown"}
        /\ UNCHANGED <<surface, call, name, script, sent, lacking>> /\ fetch' = fetch
    BY <1>2 DEF Reject, NotFound, fetchVars
  <2>2. phase' \in Answers /\ sent = <<>> /\ fetch.status = "idle"
    BY <2>1 DEF Answers, CallInv
  <2> QED BY <2>1, <2>2 DEF CallInv
<1>3. CASE Serve
  <2>1. /\ phase = "received" /\ phase' = "serving" /\ script' = Served(surface, call)
        /\ UNCHANGED <<surface, call, name, sent, lacking>> /\ fetch' = fetch
        /\ call.tool \in DOMAIN surface
    BY <1>3 DEF Serve, Known, fetchVars
  <2>2. Fits(call, script')
    <3>1. call.tool \in Tool /\ surface[call.tool] \subseteq DOMAIN Catalogue[call.tool]
      BY <2>1, ToolCallAssumption DEF CallInv
    <3> QED BY <2>1, <3>1, ServedFits
  <2>3. IsScript(script')
    BY <2>2 DEF Fits, Lawful
  <2>4. sent = <<>> /\ fetch.status = "idle" /\ Changed' = {}
    BY <2>1 DEF CallInv, Changed
  <2>5. Lacks' => Stops(call, script')
    BY <2>1, <2>2 DEF Fits, Lacks
  <2> QED BY <2>1, <2>2, <2>3, <2>4, <2>5 DEF CallInv, Fits
<1>4. CASE Check
  <2>1. Facing(Checks) /\ UNCHANGED <<surface, call, name, sent>> /\ fetch' = fetch
    BY <1>4 DEF Check, Still, fetchVars
  <2>2. Checks \cap Requests = {} /\ Checks \cap Effects = {}
    BY DEF Checks, Requests, Effects
  <2>3. CASE Passes(call, Head(script))
    <3>1. Done /\ UNCHANGED lacking
      BY <1>4, <2>3 DEF Check
    <3>2. Head(script).kind \notin Effects
      BY <2>1, <2>2, NextStep
    <3> QED BY <2>1, <2>3, <3>1, <3>2, GoesOn
  <2>4. CASE ~ Passes(call, Head(script))
    <3>1. Answer("refused") /\ lacking' = Head(script).asks \ call.given
      BY <1>4, <2>4 DEF Check
    <3>2. Changed = {}
      BY <2>1, <2>2, NextStep
    <3>3. lacking' \subseteq Asked(call)
      <4>1. Lawful(call, script) /\ script # <<>> /\ Head(script).kind \in Checks
        BY <2>1, NextStep
      <4>2. Head(script).kind \in Checks => Head(script).asks \subseteq Asked(call)
        BY <4>1, LawfulGoesOn
      <4> QED BY <2>2, <3>1, <4>1, <4>2
    <3>4. phase = "serving"
      BY <2>1 DEF Facing
    <3> QED BY <2>1, <3>1, <3>2, <3>3, <3>4, Ends
  <2> QED BY <2>3, <2>4
<1>5. CASE Connected
  <2>1. Facing({"connect"}) /\ UNCHANGED <<surface, call, name, sent, lacking>> /\ fetch' = fetch
    BY <1>5 DEF Connected, Still, fetchVars
  <2>2. "connect" \notin Checks /\ "connect" \notin Requests /\ "connect" \notin Effects
    BY DEF Checks, Requests, Effects
  <2>3. Head(script).kind = "connect" /\ Changed = {} /\ phase = "serving"
    BY <2>1, <2>2, NextStep DEF Facing
  <2>4. CASE Done
    BY <2>1, <2>2, <2>3, <2>4, GoesOn
  <2>5. CASE Answer("refused")
    <3>1. lacking' \subseteq Asked(call)
      BY <2>1, <2>3 DEF CallInv
    <3> QED BY <2>1, <2>3, <2>5, <3>1, Ends
  <2> QED BY <1>5, <2>4, <2>5 DEF Connected
<1>6. CASE Send
  <2>1. /\ Facing(Requests) /\ Done /\ sent' = Append(sent, Head(script).kind)
        /\ UNCHANGED <<surface, call, name, lacking>> /\ fetch' = fetch
    BY <1>6 DEF Send, Still, fetchVars
  <2>2. Head(script).kind \in Requests /\ Head(script).kind \notin Checks
    BY <2>1, NextStep DEF Requests, Effects, Checks
  <2> QED BY <2>1, <2>2, GoesOn
<1>7. CASE Fail
  <2>1. /\ Facing(Requests) /\ Answer("failed")
        /\ UNCHANGED <<surface, call, name, sent, lacking>> /\ fetch' = fetch
    BY <1>7 DEF Fail, Still, fetchVars
  <2>2. phase = "serving" /\ (Changed # {} => ~ Repeatable(call))
    BY <2>1, NextStep DEF Facing
  <2> QED BY <2>1, <2>2, Ends
<1>8. CASE Finish
  <2>1. /\ phase = "serving" /\ Answer("answered")
        /\ UNCHANGED <<surface, call, name, sent, lacking>> /\ fetch' = fetch
    BY <1>8 DEF Finish, Still, fetchVars
  <2> QED BY <2>1, Ends
<1>9. CASE Fetched
  <2>1. /\ Facing({"fetch"}) /\ fetch'.status = "idle"
        /\ UNCHANGED <<surface, call, name, sent, lacking>>
    BY <1>9 DEF Fetched, NoFetch
  <2>2. "fetch" \notin Checks /\ "fetch" \notin Requests /\ "fetch" \notin Effects
    BY DEF Checks, Requests, Effects
  <2>3. Head(script).kind = "fetch" /\ Changed = {} /\ phase = "serving"
    BY <2>1, <2>2, NextStep DEF Facing
  <2>4. CASE Done
    BY <2>1, <2>2, <2>3, <2>4, GoesOn
  <2>5. CASE Answer("failed")
    BY <2>1, <2>3, <2>5, Ends
  <2> QED BY <1>9, <2>4, <2>5 DEF Fetched
<1>10. CASE Begin \/ Follow \/ Rebound
  <2>1. Facing({"fetch"}) /\ UNCHANGED callVars
    BY <1>10 DEF Begin, Follow, Rebound, Fetching
  <2>2. phase = "serving" /\ ~ Lacks
    BY <2>1, NextStep DEF Facing, Checks
  <2>3. UNCHANGED <<surface, call, name, phase, script, sent, lacking>>
    BY <2>1 DEF callVars, progress
  <2>4. Changed' = Changed /\ ~ Lacks'
    BY <2>2, <2>3 DEF Changed, Lacks
  <2> QED BY <2>2, <2>3, <2>4 DEF CallInv
<1>11. CASE UNCHANGED vars
  BY <1>11 DEF vars, callVars, progress, fetchVars, CallInv, Changed, Lacks
<1> QED
  BY <1>1, <1>2, <1>3, <1>4, <1>5, <1>6, <1>7, <1>8, <1>9, <1>10, <1>11 DEF Next, Work

LEMMA CallInvariant == Spec => []CallInv
BY CallInitial, CallStep, PTL DEF Spec

(***************************************************************************)
(* Type correctness: of the call, its name, its script and the requests    *)
(* Plane carried out.                                                      *)
(***************************************************************************)
THEOREM ToolCallTypeCorrect == Spec => []TypeOK
<1>1. CallInv /\ FetchInv => TypeOK
  <2> SUFFICES ASSUME CallInv, FetchInv PROVE TypeOK
    OBVIOUS
  <2>1. call.tool \in Tool \cup {"none"} /\ call.bad \subseteq call.given
    BY ToolCallAssumption DEF CallInv, NoCall
  <2>2. \A i \in DOMAIN script : script[i].kind \in Checks \cup Requests \cup {"connect", "fetch"}
    BY DEF CallInv, IsScript, Kinds
  <2>3. \A i \in DOMAIN sent : sent[i] \in Requests
    BY DEF CallInv
  <2>4. name \in {"none", "retired"} \cup Tool \cup DOMAIN Alias
    BY DEF CallInv
  <2> QED BY <2>1, <2>2, <2>3, <2>4 DEF CallInv, FetchInv, TypeOK
<1> QED BY <1>1, CallInvariant, FetchInvariant, PTL

(***************************************************************************)
(* Whoever refuses a call - the middleware, a guard, any check of any      *)
(* handler - does so before the first change to Plane's data.              *)
(***************************************************************************)
THEOREM RefusalChangesNothingCorrect == Spec => []RefusalChangesNothing
<1>1. CallInv => RefusalChangesNothing
  BY DEF CallInv, RefusalChangesNothing, Changed
<1> QED BY <1>1, CallInvariant, PTL

(***************************************************************************)
(* No handler asks anything of Plane, or fetches a url, for a call that    *)
(* lacks an argument its ACTIONS table declares as required: for any set   *)
(* of arguments, on any surface, by any name.                              *)
(***************************************************************************)
THEOREM NothingLackingCorrect == Spec => []NothingLacking
<1>1. CallInv => NothingLacking
  BY DEF CallInv, Lacks, Requires, NothingLacking
<1> QED BY <1>1, CallInvariant, PTL

(***************************************************************************)
(* What a refusal asks for, the action takes and this Plane supports - but *)
(* for the names two refusals are known to get wrong: no caller is sent    *)
(* round in a circle by any other check of any handler.                    *)
(***************************************************************************)
THEOREM CorrectableCorrect == Spec => []Correctable
<1>1. CallInv => Correctable
  BY DEF CallInv, Asked, Correctable
<1> QED BY <1>1, CallInvariant, PTL

(***************************************************************************)
(* On every surface an operator may configure, no tool does more to        *)
(* Plane's data than the hint published for it says, but for the upsert.   *)
(***************************************************************************)
THEOREM WithinHintsCorrect == Spec => []WithinHints
<1>1. CallInv /\ GuardInv => WithinHints
  <2> SUFFICES ASSUME CallInv, GuardInv, ~ Upserts, NEW i \in DOMAIN sent
               PROVE  Severity(sent[i]) <= ToolEffect(surface, call.tool)
    BY DEF WithinHints
  <2>1. sent # <<>> /\ phase # "idle"
    <3>1. DOMAIN <<>> = {}
      OBVIOUS
    <3> QED BY <3>1 DEF CallInv
  <2>2. call.tool \in DOMAIN surface /\ call.action \in surface[call.tool]
    BY <2>1 DEF GuardInv, Shut, Enabled
  <2>3. surface[call.tool] \subseteq DOMAIN Catalogue[call.tool]
    BY <2>2, ToolCallAssumption DEF CallInv
  <2>4. /\ EffectOf(call.action) <= ToolEffect(surface, call.tool)
        /\ EffectOf(call.action) \in 0 .. 2 /\ ToolEffect(surface, call.tool) \in 0 .. 2
    BY <2>2, <2>3, HintCovers
  <2>5. Severity(sent[i]) <= EffectOf(call.action)
    BY DEF CallInv, Allowed, Upserts
  <2>6. Severity(sent[i]) \in 0 .. 2
    <3>1. sent[i] \in Requests
      BY DEF CallInv
    <3> QED BY <3>1 DEF Requests, Effects, Severity
  <2> QED BY <2>4, <2>5, <2>6
<1> QED BY <1>1, CallInvariant, GuardInvariant, PTL

(***************************************************************************)
(* A call that fails half done is one of the operations known to be        *)
(* several changes; any other can be repeated from the start.              *)
(***************************************************************************)
THEOREM HalfDoneIsKnownCorrect == Spec => []HalfDoneIsKnown
<1>1. CallInv => HalfDoneIsKnown
  BY DEF CallInv, Repeatable, HalfDoneIsKnown
<1> QED BY <1>1, CallInvariant, PTL
=============================================================================
