----------------------------- MODULE Connection -----------------------------
(***************************************************************************)
(* Who a call acts as and where: the verification of its token             *)
(* (auth/plane_header_auth_provider.py, auth/plane_oauth_provider.py,      *)
(* moneta/cognito.py), the per-call workspace_slug in its ContextVar       *)
(* (moneta/inject.py), and the client built from both (client.py,          *)
(* moneta/workspace.py, build_plane_client of moneta/apitoken.py).  Calls  *)
(* run concurrently; those of the Cognito server share one stored session, *)
(* which may be refreshed, or end, between any two reads of it.            *)
(***************************************************************************)
EXTENDS Naturals

CONSTANTS
  Call,           \* the calls
  Job,            \* what a call may ask for
  Workspace,      \* Plane workspaces, by slug
  NoWorkspace,    \* no slug, or a blank one
  Environment,    \* PLANE_WORKSPACE_SLUG
  EnvironmentKey, \* PLANE_API_KEY: "environment", or "none" where it is not set
  MaxGeneration   \* bounds the refreshes of the stored session

ASSUME ConnectionAssumption ==
  /\ NoWorkspace \notin Workspace
  /\ Environment \in Workspace \cup {NoWorkspace}
  /\ EnvironmentKey \in {"environment", "none"}
  /\ MaxGeneration \in Nat \ {0}

VARIABLES
  access,     \* access[c]: how far the call is, and what it was found to be
  session,    \* the stored Cognito session: its token set, 0 once it is gone
  override    \* override[c]: the ContextVar as the task of c sees it

connectionVars == <<access, session, override>>

Slug == Workspace \cup {NoWorkspace}
Generation == 0 .. MaxGeneration

\* The transports one server process serves together (__main__.main, moneta/http.py).
Servers == {{"stdio"}, {"header", "oauth"}, {"cognito", "header"}}
Transport == UNION Servers

\* The token of the request, the keys of the client, the session's id_token.
Credentials == [bearer : {"none", "plane token", "access token", "id token"},
                key : {"none", "own", "minted", "environment"}]
NoCredentials == [bearer |-> "none", key |-> "none"]

Phases == {"presented", "validated", "mapped", "granted", "called", "connected", "rejected", "refused", "returned"}

Access ==
  [phase : Phases, transport : Transport, arg : Slug, job : Job, claim : Slug,
   validated : Generation, identity : Generation, workspace : Slug, sends : Credentials]

ConnectionTypeOK ==
  /\ access \in [Call -> Access]
  /\ session \in [tokens : Generation, identified : BOOLEAN]
  /\ override \in [Call -> Slug]

\* What a call brings along.
Request == [transport : Transport, arg : Slug, job : Job]

NewCall(request) ==
  [phase |-> "presented", transport |-> request.transport, arg |-> request.arg, job |-> request.job,
   claim |-> NoWorkspace, validated |-> 0, identity |-> 0, workspace |-> NoWorkspace,
   sends |-> NoCredentials]

ConnectionInit(requests) ==
  /\ access = [c \in Call |-> NewCall(requests[c])]
  /\ session = [tokens |-> 1, identified |-> TRUE]
  /\ override = [c \in Call |-> NoWorkspace]

At(c, phase) == access[c].phase = phase
Is(c, transport) == access[c].transport = transport
Becomes(c, changes) == access' = [access EXCEPT ![c] = changes]
Rejected(c) == Becomes(c, [access[c] EXCEPT !.phase = "rejected"])
Granted(c, slug) == Becomes(c, [access[c] EXCEPT !.phase = "granted", !.claim = slug])
ReadsOnly == UNCHANGED <<session, override>>

-----------------------------------------------------------------------------
(* Verification. *)

\* No token and no claims.
NoToken(c) ==
  /\ At(c, "presented") /\ Is(c, "stdio")
  /\ Granted(c, NoWorkspace) /\ ReadsOnly

\* PlaneHeaderAuthProvider.verify_token: x-workspace-slug, and a key Plane knows.
VerifyKey(c) ==
  /\ At(c, "presented") /\ Is(c, "header")
  /\ Rejected(c) \/ \E slug \in Workspace : Granted(c, slug)
  /\ ReadsOnly

\* PlaneOAuthTokenVerifier.verify_token: the user, then the first installation,
\* which may lack a workspace.
VerifyPlaneToken(c) ==
  /\ At(c, "presented") /\ Is(c, "oauth")
  /\ Rejected(c) \/ \E slug \in Slug : Granted(c, slug)
  /\ ReadsOnly

\* OAuthProxy.load_access_token: the token and the session it stands for are valid.
Validate(c) ==
  /\ At(c, "presented") /\ Is(c, "cognito")
  /\ \/ Rejected(c)
     \/ /\ session.tokens > 0
        /\ Becomes(c, [access[c] EXCEPT !.phase = "validated", !.validated = session.tokens])
  /\ ReadsOnly

\* _resolve_upstream_claims: the mapping is read again, then the token set, whose
\* id_token the claims are taken from.  A read may also fail.
Map(c) ==
  /\ At(c, "validated")
  /\ \/ Rejected(c)
     \/ session.tokens > 0 /\ Becomes(c, [access[c] EXCEPT !.phase = "mapped"])
  /\ ReadsOnly

\* Without the id_token the call is let through as whatever the access token says.
IdentifyAnyway(c) ==
  /\ At(c, "mapped")
  /\ Becomes(c, [access[c] EXCEPT !.phase = "granted",
                   !.identity = IF session.identified THEN session.tokens ELSE 0])
  /\ ReadsOnly

Identify(c) ==
  /\ At(c, "mapped")
  /\ \/ Rejected(c)
     \/ /\ session.tokens > 0 /\ session.identified
        /\ Becomes(c, [access[c] EXCEPT !.phase = "granted", !.identity = session.tokens])
  /\ ReadsOnly

\* The session is refreshed, by a token set that may lack an id_token, or ends:
\* it expires, or is signed out of.
Refresh ==
  /\ session.tokens \in 1 .. MaxGeneration - 1
  /\ \E identified \in BOOLEAN :
       session' = [tokens |-> session.tokens + 1, identified |-> identified]
  /\ UNCHANGED <<access, override>>

End ==
  /\ session.tokens > 0
  /\ session' = [session EXCEPT !.tokens = 0]
  /\ UNCHANGED <<access, override>>

-----------------------------------------------------------------------------
(* The client of a call. *)

\* _inject_workspace: the argument is set in the context of the task.  In a
\* variable of the process every call would see it.
InjectForAll(c) ==
  /\ At(c, "granted")
  /\ override' = [d \in Call |-> access[c].arg]
  /\ Becomes(c, [access[c] EXCEPT !.phase = "called"])
  /\ UNCHANGED session

Inject(c) ==
  /\ At(c, "granted")
  /\ override' = [override EXCEPT ![c] = access[c].arg]
  /\ Becomes(c, [access[c] EXCEPT !.phase = "called"])
  /\ UNCHANGED session

FirstNamed(slug, other) == IF slug # NoWorkspace THEN slug ELSE other

\* workspace_for: the argument, then the workspace the connection is bound to; the
\* environment's only where no token binds it.
WorkspaceFor(c) ==
  IF Is(c, "header") \/ Is(c, "oauth") THEN FirstNamed(override[c], access[c].claim)
  ELSE FirstNamed(override[c], FirstNamed(access[c].claim, Environment))

\* _connected_via: the auth_method the token claims, "oauth" where it claims none.
ConnectedVia(c) ==
  IF Is(c, "stdio") THEN "environment" ELSE IF Is(c, "header") THEN "api_key_header" ELSE "oauth"

\* bearer_for: the upstream id_token where the claims hold one, else the token.
BearerFor(c) ==
  IF access[c].identity > 0 THEN "id token" ELSE IF Is(c, "oauth") THEN "plane token" ELSE "access token"

\* api_key and access_token: every call starts from the environment's key, which
\* only a key in the place of the token replaces.
ApiKey(c) == IF ConnectedVia(c) = "api_key_header" THEN "own" ELSE EnvironmentKey
AccessToken(c) == IF ConnectedVia(c) = "oauth" THEN BearerFor(c) ELSE "none"

\* plane_api_key: Cognito claims name an identity to mint for; minting may fail.
PlaneApiKey(c) ==
  IF AccessToken(c) # "none" /\ Is(c, "cognito") THEN {"minted", "none"} ELSE {"none"}

\* build_plane_client: the token with the key minted for it, the token, or the key.
\* Looking at the key before the token would find the environment's.
PlaneClientKeyFirst(key, token, minted) ==
  IF minted # "none" /\ token # "none" THEN [bearer |-> token, key |-> minted]
  ELSE IF key # "none" THEN [bearer |-> "none", key |-> key] ELSE [bearer |-> token, key |-> "none"]

PlaneClient(key, token, minted) ==
  IF minted # "none" /\ token # "none" THEN [bearer |-> token, key |-> minted]
  ELSE IF token # "none" THEN [bearer |-> token, key |-> "none"]
  ELSE [bearer |-> "none", key |-> key]

\* plane_request_auth: what a call sends where it goes past the client, to mint a
\* key or list the workspaces; the key is dropped where there is a token.
PlaneRequestAuth(c) ==
  [bearer |-> AccessToken(c), key |-> IF AccessToken(c) # "none" THEN "none" ELSE ApiKey(c)]

Connect(c) ==
  /\ At(c, "called")
  /\ IF WorkspaceFor(c) = NoWorkspace THEN Becomes(c, [access[c] EXCEPT !.phase = "refused"])
     ELSE \E minted \in PlaneApiKey(c) :
            Becomes(c, [access[c] EXCEPT !.phase = "connected", !.workspace = WorkspaceFor(c),
                          !.sends = PlaneClient(ApiKey(c), AccessToken(c), minted)])
  /\ UNCHANGED <<session, override>>

Verify(c) == NoToken(c) \/ VerifyKey(c) \/ VerifyPlaneToken(c) \/ Validate(c) \/ Map(c) \/ Identify(c)
ConnectionStep(c) == Verify(c) \/ Inject(c) \/ Connect(c)

\* The tool returned, failed or was refused: the context is reset and the client
\* is forgotten.
Return(c) ==
  /\ access[c].phase \in {"connected", "refused"}
  /\ Becomes(c, [NewCall(access[c]) EXCEPT !.phase = "returned"])
  /\ override' = [override EXCEPT ![c] = NoWorkspace]
  /\ UNCHANGED session
-----------------------------------------------------------------------------
(***************************************************************************)
(* A call acts in the workspace it names; else in the one its token binds  *)
(* it to; and in the server's own only where tokens bind to none.  What    *)
(* other calls name at the same time does not matter (moneta/inject.py,    *)
(* workspace_for).                                                         *)
(***************************************************************************)
RightWorkspace ==
  \A c \in Call : At(c, "connected") =>
    access[c].workspace =
      IF access[c].arg # NoWorkspace THEN access[c].arg
      ELSE IF access[c].transport \in {"header", "oauth"} THEN access[c].claim ELSE Environment

(***************************************************************************)
(* A call with a Cognito session acts as the user of an id_token, and one  *)
(* no older than the session it was validated against; never by its        *)
(* access token, whose subject would become another Plane account          *)
(* (load_access_token, bearer_for), whenever the session is refreshed or   *)
(* ends.                                                                   *)
(***************************************************************************)
ActsAsItself ==
  \A c \in Call : At(c, "connected") /\ Is(c, "cognito") =>
    access[c].sends.bearer = "id token" /\ access[c].identity >= access[c].validated

(***************************************************************************)
(* The server's own key, which every call starts from, goes with none that *)
(* came over the network, whether by the client or past it, and whether a  *)
(* key could be minted or not: Plane would take the call for the server's  *)
(* user.  Nor does a call go out with nothing to know it by (client.py,    *)
(* build_plane_client, plane_request_auth).                                *)
(***************************************************************************)
KeyIsNotShared ==
  \A c \in Call : At(c, "connected") =>
    \A sent \in {access[c].sends, PlaneRequestAuth(c)} :
      /\ sent.key = "environment" => Is(c, "stdio")
      /\ sent # NoCredentials
=============================================================================
