------------------------------ MODULE SafeFetch ------------------------------
(***************************************************************************)
(* fetch_validated_get of attachments.py: the download of a url a caller   *)
(* gave, one hop after the other.  Names are resolved anew at every hop    *)
(* and what they resolve to may change at any time; a hop is a request to  *)
(* one of the addresses the check saw, or to the proxy configured for the  *)
(* host.                                                                   *)
(***************************************************************************)
EXTENDS Naturals, FiniteSets

CONSTANTS
  Host,          \* the hosts urls name; an unusable url names NoHost
  NoHost,        \* no http(s) scheme, or no host
  Address,       \* what a name can resolve to
  Private,       \* the addresses that are not global
  Literal,       \* Literal[h] is the address an IP literal h stands for
  Proxied,       \* the hosts reached through HTTP_PROXY, HTTPS_PROXY
  MaxRedirects   \* max_redirects

ASSUME FetchAssumption ==
  /\ Private \subseteq Address
  /\ DOMAIN Literal \subseteq Host /\ \A h \in DOMAIN Literal : Literal[h] \in Address
  /\ Proxied \subseteq Host
  /\ MaxRedirects \in Nat

VARIABLES
  dns,     \* dns[h]: the addresses getaddrinfo answers
  fetch    \* the download: status, the host of the current url, the hops
           \* followed, the address pinned and the addresses connected to

fetchVars == <<dns, fetch>>

Status == {"idle", "hop", "pinned", "proxied", "fetched", "refused"}
NoFetch == [status |-> "idle", host |-> NoHost, hops |-> 0, pin |-> {}, reached |-> {}]

FetchTypeOK ==
  /\ dns \in [Host -> SUBSET Address]
  /\ fetch \in [status : Status, host : Host \cup {NoHost}, hops : 0 .. MaxRedirects,
                pin : SUBSET Address, reached : SUBSET Address]

FetchInit ==
  /\ dns = [h \in Host |-> IF h \in DOMAIN Literal THEN {Literal[h]} ELSE Address \ Private]
  /\ fetch = NoFetch

\* The name server changes its answer.
Rebind(h, answer) ==
  /\ h \notin DOMAIN Literal
  /\ dns' = [dns EXCEPT ![h] = answer]
  /\ UNCHANGED fetch

BeginFetch(h) ==
  /\ fetch.status = "idle"
  /\ fetch' = [fetch EXCEPT !.status = "hop", !.host = h]
  /\ UNCHANGED dns

Refused == fetch' = [fetch EXCEPT !.status = "refused"]

\* _resolve_and_validate: every address is checked and one of them is pinned.
Pin(h) ==
  IF dns[h] = {} \/ dns[h] \cap Private # {} THEN Refused
  ELSE \E a \in dns[h] : fetch' = [fetch EXCEPT !.status = "pinned", !.pin = {a}]

\* The part of _fetch_one_hop before the request.  The proxy resolves the name
\* itself: only an IP literal can be checked for it.
CheckHop ==
  /\ fetch.status = "hop"
  /\ IF fetch.host = NoHost THEN Refused
     ELSE IF fetch.host \notin Proxied THEN Pin(fetch.host)
     ELSE IF fetch.host \in DOMAIN Literal /\ Literal[fetch.host] \in Private THEN Refused
     ELSE fetch' = [fetch EXCEPT !.status = "proxied"]
  /\ UNCHANGED dns

\* The addresses a request goes to: the pinned one; those behind a proxy are its
\* own.  By name, it would be looked up again.
TargetByName == IF fetch.status = "pinned" THEN dns[fetch.host] ELSE {}

Target == fetch.pin

Requested == [fetch EXCEPT !.reached = @ \cup Target, !.pin = {}]
InFlight == fetch.status \in {"pinned", "proxied"} /\ UNCHANGED dns

\* A body within the limit.
Body == InFlight /\ fetch' = [Requested EXCEPT !.status = "fetched"]

\* No answer in time, an error, a body over the limit, a redirect to nowhere.
HopFails == InFlight /\ fetch' = [Requested EXCEPT !.status = "refused"]

\* A limit that is off by one, and one that counts nothing.
RedirectOnceMore(h) ==
  /\ InFlight
  /\ fetch' = IF fetch.hops > MaxRedirects THEN [Requested EXCEPT !.status = "refused"]
              ELSE [Requested EXCEPT !.status = "hop", !.host = h, !.hops = @ + 1]

RedirectForEver(h) ==
  /\ InFlight
  /\ fetch' = [Requested EXCEPT !.status = "hop", !.host = h]

Redirect(h) ==
  /\ InFlight
  /\ fetch' = IF fetch.hops = MaxRedirects THEN [Requested EXCEPT !.status = "refused"]
              ELSE [Requested EXCEPT !.status = "hop", !.host = h, !.hops = @ + 1]

FetchStep == CheckHop \/ Body \/ HopFails \/ \E h \in Host \cup {NoHost} : Redirect(h)

-----------------------------------------------------------------------------
(***************************************************************************)
(* However names are rebound and wherever redirects lead, no connection    *)
(* is opened to an address that is not global: the address checked is the  *)
(* address used, at every hop (_resolve_and_validate, _fetch_one_hop).     *)
(***************************************************************************)
OnlyGlobalReached == fetch.reached \cap Private = {}
=============================================================================
