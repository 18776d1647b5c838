---------------------------- MODULE ServerProofs ----------------------------
(***************************************************************************)
(* What holds of Server for any number of calls, workspaces, fields and    *)
(* types: calls act as themselves, where they should; edits add up; the    *)
(* type resolve answers with is usable, and it makes no second one unless  *)
(* calls overlap.                                                          *)
(***************************************************************************)
EXTENDS Server, TLAPS

-----------------------------------------------------------------------------
(***************************************************************************)
(* Connections.                                                            *)
(***************************************************************************)

(***************************************************************************)
(* What is known of a call, from the record a kept of it, the ContextVar o *)
(* its task sees and the stored session s.                                 *)
(***************************************************************************)
Workspaced(a, o) ==
  /\ a.transport \in {"stdio", "cognito"} => a.claim = NoWorkspace
  /\ a.phase = "called" => o = a.arg
  /\ a.phase = "connected" =>
       a.workspace # NoWorkspace /\
       a.workspace = IF a.arg # NoWorkspace THEN a.arg
                     ELSE IF a.transport \in {"header", "oauth"} THEN a.claim ELSE Environment

\* Credentials are those of the call, or of the server where it is the user's own.
Attributed(sent, transport) ==
  /\ sent.key = "environment" => transport = "stdio"
  /\ sent.bearer # "none" \/ sent.key # "none"
  /\ transport = "cognito" => sent.bearer = "id token"

Identified(a, s) ==
  /\ a.phase \in {"validated", "mapped"} =>
       a.transport = "cognito" /\ (s.tokens > 0 => a.validated <= s.tokens)
  /\ a.phase \in {"granted", "called", "connected"} /\ a.transport = "cognito" =>
       a.identity > 0 /\ a.validated <= a.identity
  /\ a.transport = "stdio" => EnvironmentKey # "none"
  /\ a.phase = "connected" => Attributed(a.sends, a.transport)

CallInv(a, o, s) == Workspaced(a, o) /\ Identified(a, s)

ConnectionInv ==
  /\ ConnectionTypeOK
  /\ \A c \in Call : CallInv(access[c], override[c], session)

(***************************************************************************)
(* A step of one call that keeps the session: only its own record and its  *)
(* own context change, and the job it was sent with stays.                 *)
(***************************************************************************)
Own(c) ==
  \E a \in Access, o \in Slug :
    /\ a.job = access[c].job
    /\ access' = [access EXCEPT ![c] = a]
    /\ override' = [override EXCEPT ![c] = o]
    /\ UNCHANGED session
    /\ CallInv(a, o, session)

LEMMA OwnStep ==
  ASSUME ConnectionInv, NEW c \in Call, Own(c)
  PROVE  ConnectionInv' /\ \A d \in Call : access'[d].job = access[d].job
<1>1. PICK a \in Access, o \in Slug :
        /\ a.job = access[c].job
        /\ access' = [access EXCEPT ![c] = a]
        /\ override' = [override EXCEPT ![c] = o]
        /\ UNCHANGED session
        /\ CallInv(a, o, session)
  BY DEF Own
<1>2. access \in [Call -> Access] /\ override \in [Call -> Slug]
  BY DEF ConnectionInv, ConnectionTypeOK
<1>3. ConnectionTypeOK'
  BY <1>1, <1>2 DEF ConnectionInv, ConnectionTypeOK
<1>4. access'[c] = a /\ override'[c] = o
  BY <1>1, <1>2
<1>5. \A d \in Call \ {c} : access'[d] = access[d] /\ override'[d] = override[d]
  BY <1>1, <1>2
<1>6. ASSUME NEW d \in Call PROVE CallInv(access'[d], override'[d], session')
  <2>1. session' = session
    BY <1>1
  <2>2. CASE d = c
    BY <1>1, <1>4, <2>1, <2>2
  <2>3. CASE d # c
    BY <1>5, <2>1, <2>3 DEF ConnectionInv
  <2> QED BY <2>2, <2>3
<1>7. \A d \in Call : CallInv(access[d], override[d], session)'
  BY <1>6
<1>8. \A d \in Call : access'[d].job = access[d].job
  BY <1>1, <1>4, <1>5
<1> QED BY <1>3, <1>7, <1>8 DEF ConnectionInv

\* A record changed without its context.
LEMMA Recorded ==
  ASSUME ConnectionInv, NEW c \in Call, NEW a \in Access, a.job = access[c].job,
         Becomes(c, a), UNCHANGED <<session, override>>, CallInv(a, override[c], session)
  PROVE  Own(c)
<1>1. override \in [Call -> Slug]
  BY DEF ConnectionInv, ConnectionTypeOK
<1>2. override' = [override EXCEPT ![c] = override[c]] /\ override[c] \in Slug
  BY <1>1
<1> QED BY <1>2 DEF Own, Becomes

LEMMA CallTyped ==
  ASSUME ConnectionInv, NEW c \in Call
  PROVE  /\ access[c] \in Access /\ override[c] \in Slug
         /\ session.tokens \in Nat /\ session.tokens \in Generation
         /\ CallInv(access[c], override[c], session)
BY ConnectionAssumption DEF ConnectionInv, ConnectionTypeOK, Generation

LEMMA GrantedOwn ==
  ASSUME ConnectionInv, NEW c \in Call, NEW slug \in Slug, At(c, "presented"),
         access[c].transport # "cognito",
         access[c].transport = "stdio" => slug = NoWorkspace,
         Granted(c, slug), ReadsOnly
  PROVE  Own(c)
<1> DEFINE a == [access[c] EXCEPT !.phase = "granted", !.claim = slug]
<1>1. a \in Access /\ a.job = access[c].job
  BY CallTyped DEF Access, Phases
<1>2. CallInv(a, override[c], session)
  BY CallTyped DEF CallInv, Workspaced, Identified, Access
<1>3. Becomes(c, a)
  BY DEF Granted
<1> QED BY <1>1, <1>2, <1>3, Recorded DEF ReadsOnly

LEMMA RejectedOwn ==
  ASSUME ConnectionInv, NEW c \in Call, Rejected(c), ReadsOnly
  PROVE  Own(c)
<1> DEFINE a == [access[c] EXCEPT !.phase = "rejected"]
<1>1. a \in Access /\ a.job = access[c].job
  BY CallTyped DEF Access, Phases
<1>2. CallInv(a, override[c], session)
  BY CallTyped DEF CallInv, Workspaced, Identified, Access
<1>3. Becomes(c, a)
  BY DEF Rejected
<1> QED BY <1>1, <1>2, <1>3, Recorded DEF ReadsOnly

LEMMA VerifyOwn ==
  ASSUME ConnectionInv, NEW c \in Call, Verify(c)
  PROVE  Own(c)
<1>0. NoWorkspace \in Slug /\ Workspace \subseteq Slug
  BY DEF Slug
<1>1. CASE NoToken(c)
  BY <1>0, <1>1, GrantedOwn DEF NoToken, Is
<1>2. CASE VerifyKey(c)
  <2>1. CASE Rejected(c)
    BY <1>2, <2>1, RejectedOwn DEF VerifyKey
  <2>2. ASSUME NEW slug \in Workspace, Granted(c, slug) PROVE Own(c)
    BY <1>0, <1>2, <2>2, GrantedOwn DEF VerifyKey, Is
  <2> QED BY <1>2, <2>1, <2>2 DEF VerifyKey
<1>3. CASE VerifyPlaneToken(c)
  <2>1. CASE Rejected(c)
    BY <1>3, <2>1, RejectedOwn DEF VerifyPlaneToken
  <2>2. ASSUME NEW slug \in Slug, Granted(c, slug) PROVE Own(c)
    BY <1>3, <2>2, GrantedOwn DEF VerifyPlaneToken, Is
  <2> QED BY <1>3, <2>1, <2>2 DEF VerifyPlaneToken
<1>4. CASE Validate(c)
  <2> DEFINE a == [access[c] EXCEPT !.phase = "validated", !.validated = session.tokens]
  <2>1. CASE Rejected(c)
    BY <1>4, <2>1, RejectedOwn DEF Validate
  <2>2. CASE Becomes(c, a)
    <3>1. access[c].transport = "cognito" /\ access[c].phase = "presented" /\ ReadsOnly
      BY <1>4 DEF Validate, At, Is
    <3>2. a \in Access /\ a.job = access[c].job
      BY CallTyped DEF Access, Phases
    <3>3. /\ a.phase = "validated" /\ a.transport = "cognito" /\ a.claim = access[c].claim
          /\ a.validated = session.tokens /\ session.tokens \in Nat
      BY <3>1, CallTyped DEF Access
    <3>4. Workspaced(access[c], override[c])
      BY CallTyped DEF CallInv
    <3>5. Becomes(c, a)
      BY <2>2
    <3> HIDE DEF a
    <3>6. CallInv(a, override[c], session)
      BY <3>1, <3>3, <3>4 DEF CallInv, Workspaced, Identified
    <3> QED BY <3>1, <3>2, <3>5, <3>6, Recorded DEF ReadsOnly
  <2> QED BY <1>4, <2>1, <2>2 DEF Validate
<1>5. CASE Map(c)
  <2> DEFINE a == [access[c] EXCEPT !.phase = "mapped"]
  <2>1. CASE Rejected(c)
    BY <1>5, <2>1, RejectedOwn DEF Map
  <2>2. CASE Becomes(c, a)
    <3>1. access[c].phase = "validated" /\ ReadsOnly
      BY <1>5 DEF Map, At
    <3>2. a \in Access /\ a.job = access[c].job
      BY CallTyped DEF Access, Phases
    <3>3. CallInv(a, override[c], session)
      BY <3>1, CallTyped DEF CallInv, Workspaced, Identified, Access
    <3> QED BY <2>2, <3>1, <3>2, <3>3, Recorded DEF ReadsOnly
  <2> QED BY <1>5, <2>1, <2>2 DEF Map
<1>6. CASE Identify(c)
  <2> DEFINE a == [access[c] EXCEPT !.phase = "granted", !.identity = session.tokens]
  <2>1. CASE Rejected(c)
    BY <1>6, <2>1, RejectedOwn DEF Identify
  <2>2. CASE session.tokens > 0 /\ Becomes(c, a)
    <3>1. access[c].phase = "mapped" /\ ReadsOnly
      BY <1>6 DEF Identify, At
    <3>2. a \in Access /\ a.job = access[c].job
      BY CallTyped DEF Access, Phases
    <3>3. CallInv(a, override[c], session)
      BY <2>2, <3>1, CallTyped DEF CallInv, Workspaced, Identified, Access
    <3> QED BY <2>2, <3>1, <3>2, <3>3, Recorded DEF ReadsOnly
  <2> QED BY <1>6, <2>1, <2>2 DEF Identify
<1> QED BY <1>1, <1>2, <1>3, <1>4, <1>5, <1>6 DEF Verify

LEMMA InjectOwn ==
  ASSUME ConnectionInv, NEW c \in Call, Inject(c)
  PROVE  Own(c)
<1> DEFINE a == [access[c] EXCEPT !.phase = "called"]
<1>1. a \in Access /\ a.job = access[c].job /\ access[c].arg \in Slug
  BY CallTyped DEF Access, Phases
<1>2. access[c].phase = "granted"
  BY DEF Inject, At
<1>3. CallInv(a, access[c].arg, session)
  BY <1>2, CallTyped DEF CallInv, Workspaced, Identified, Access
<1>4. access' = [access EXCEPT ![c] = a]
  BY DEF Inject, Becomes
<1>5. override' = [override EXCEPT ![c] = access[c].arg] /\ UNCHANGED session
  BY DEF Inject
<1>6. \E b \in Access, o \in Slug :
        /\ b.job = access[c].job
        /\ access' = [access EXCEPT ![c] = b]
        /\ override' = [override EXCEPT ![c] = o]
        /\ UNCHANGED session
        /\ CallInv(b, o, session)
  BY <1>1, <1>3, <1>4, <1>5
<1> QED BY <1>6 DEF Own

\* What each transport starts from: a token, or a key in its place.
LEMMA StartsFrom ==
  ASSUME ConnectionInv, NEW c \in Call
  PROVE  \/ Is(c, "stdio") /\ AccessToken(c) = "none" /\ ApiKey(c) = EnvironmentKey /\ EnvironmentKey # "none"
         \/ Is(c, "header") /\ AccessToken(c) = "none" /\ ApiKey(c) = "own"
         \/ /\ Is(c, "oauth") \/ Is(c, "cognito")
            /\ AccessToken(c) = BearerFor(c) /\ BearerFor(c) \in {"plane token", "access token", "id token"}
            /\ access[c].identity > 0 => BearerFor(c) = "id token"
<1>1. access[c].transport \in {"stdio", "header", "oauth", "cognito"}
  BY CallTyped DEF Access, Transport, Servers
<1>2. Is(c, "stdio") => EnvironmentKey # "none"
  BY CallTyped DEF CallInv, Identified, Is
<1>3. BearerFor(c) \in {"plane token", "access token", "id token"}
      /\ (access[c].identity > 0 => BearerFor(c) = "id token")
  BY DEF BearerFor
<1>4. CASE Is(c, "stdio")
  BY <1>2, <1>4 DEF AccessToken, ApiKey, ConnectedVia
<1>5. CASE Is(c, "header")
  BY <1>5 DEF AccessToken, ApiKey, ConnectedVia, Is
<1>6. CASE Is(c, "oauth") \/ Is(c, "cognito")
  BY <1>3, <1>6 DEF AccessToken, ConnectedVia, Is
<1> QED BY <1>1, <1>4, <1>5, <1>6 DEF Is

(***************************************************************************)
(* The environment's key, which build_plane_client is always handed, stays *)
(* behind where there is a token; and there is one, or another key, on     *)
(* every call that comes over the network.                                 *)
(***************************************************************************)
LEMMA Sends ==
  ASSUME ConnectionInv, NEW c \in Call, NEW minted \in PlaneApiKey(c)
  PROVE  LET sends == PlaneClient(ApiKey(c), AccessToken(c), minted) IN
         /\ sends \in Credentials
         /\ (Is(c, "cognito") => access[c].identity > 0) => Attributed(sends, access[c].transport)
<1> DEFINE sends == PlaneClient(ApiKey(c), AccessToken(c), minted)
<1>1. minted \in {"minted", "none"} /\ (AccessToken(c) = "none" => minted = "none")
  BY DEF PlaneApiKey
<1>2. CASE AccessToken(c) = "none"
  <2>1. sends = [bearer |-> "none", key |-> ApiKey(c)]
    BY <1>1, <1>2 DEF PlaneClient
  <2>2. CASE Is(c, "stdio") /\ ApiKey(c) = EnvironmentKey /\ EnvironmentKey # "none"
    <3>1. sends = [bearer |-> "none", key |-> "environment"]
      BY <2>1, <2>2, ConnectionAssumption
    <3> QED BY <2>2, <3>1 DEF Credentials, Attributed, Is
  <2>3. CASE Is(c, "header") /\ ApiKey(c) = "own"
    BY <2>1, <2>3 DEF Credentials, Attributed, Is
  <2> QED BY <1>2, <2>2, <2>3, StartsFrom
<1>3. CASE AccessToken(c) # "none"
  <2>1. PICK k \in {"minted", "none"} : sends = [bearer |-> AccessToken(c), key |-> k]
    BY <1>1, <1>3 DEF PlaneClient
  <2>2. AccessToken(c) \in {"plane token", "access token", "id token"}
        /\ (access[c].identity > 0 => AccessToken(c) = "id token")
    BY <1>3, StartsFrom
  <2> HIDE DEF sends
  <2>3. PICK b : b = AccessToken(c)
    OBVIOUS
  <2>4. sends = [bearer |-> b, key |-> k] /\ b \in {"plane token", "access token", "id token"}
    BY <2>1, <2>2, <2>3
  <2>5. sends \in Credentials /\ sends.bearer = b /\ sends.key # "environment" /\ b # "none"
    BY <2>4 DEF Credentials
  <2>6. ASSUME Is(c, "cognito") => access[c].identity > 0
        PROVE  Attributed(sends, access[c].transport)
    <3>1. access[c].transport = "cognito" => b = "id token"
      BY <2>2, <2>3, <2>6 DEF Is
    <3> QED BY <2>5, <3>1 DEF Attributed
  <2> USE DEF sends
  <2> QED BY <2>5, <2>6
<1> QED BY <1>2, <1>3

LEMMA ConnectOwn ==
  ASSUME ConnectionInv, NEW c \in Call, Connect(c)
  PROVE  Own(c)
<1>0. UNCHANGED <<session, override>>
  BY DEF Connect
<1>1. access[c].phase = "called"
  BY DEF Connect, At
<1>2. CASE WorkspaceFor(c) = NoWorkspace
  <2> DEFINE a == [access[c] EXCEPT !.phase = "refused"]
  <2>1. a \in Access /\ a.job = access[c].job
    BY CallTyped DEF Access, Phases
  <2>2. CallInv(a, override[c], session)
    BY CallTyped DEF CallInv, Workspaced, Identified, Access
  <2>3. Becomes(c, a)
    BY <1>2 DEF Connect
  <2> QED BY <1>0, <2>1, <2>2, <2>3, Recorded
<1>3. CASE WorkspaceFor(c) # NoWorkspace
  <2>1. PICK minted \in PlaneApiKey(c) :
          Becomes(c, [access[c] EXCEPT !.phase = "connected", !.workspace = WorkspaceFor(c),
                        !.sends = PlaneClient(ApiKey(c), AccessToken(c), minted)])
    BY <1>3 DEF Connect
  <2> DEFINE sends == PlaneClient(ApiKey(c), AccessToken(c), minted)
             a == [access[c] EXCEPT !.phase = "connected", !.workspace = WorkspaceFor(c), !.sends = sends]
  <2>2. access[c] \in Access /\ override[c] \in Slug /\ override[c] = access[c].arg
    BY <1>1, CallTyped DEF CallInv, Workspaced
  <2>3. WorkspaceFor(c) =
          IF access[c].arg # NoWorkspace THEN access[c].arg
          ELSE IF access[c].transport \in {"header", "oauth"} THEN access[c].claim ELSE Environment
    <3>1. access[c].transport \in {"stdio", "header", "oauth", "cognito"}
      BY <2>2 DEF Access, Transport, Servers
    <3>2. access[c].transport \in {"stdio", "cognito"} => access[c].claim = NoWorkspace
      BY CallTyped DEF CallInv, Workspaced
    <3> QED BY <2>2, <3>1, <3>2 DEF WorkspaceFor, FirstNamed, Is
  <2>4. WorkspaceFor(c) \in Slug
    BY <2>2, <2>3, ConnectionAssumption DEF Access, Slug
  <2>5. access[c].transport = "cognito" => access[c].identity > 0 /\ access[c].validated <= access[c].identity
    BY <1>1, CallTyped DEF CallInv, Identified
  <2>6. Is(c, "cognito") => access[c].identity > 0
    BY <2>5 DEF Is
  <2>7. sends \in Credentials /\ Attributed(sends, access[c].transport)
    BY <2>6, Sends
  <2>9. a \in Access /\ a.job = access[c].job
    BY <2>2, <2>4, <2>7 DEF Access, Phases
  <2>10. /\ a.phase = "connected" /\ a.sends = sends /\ a.workspace = WorkspaceFor(c)
         /\ a.transport = access[c].transport /\ a.arg = access[c].arg /\ a.claim = access[c].claim
         /\ a.identity = access[c].identity /\ a.validated = access[c].validated
    BY <2>2 DEF Access
  <2>11. Workspaced(access[c], override[c])
    BY CallTyped DEF CallInv
  <2>12. Becomes(c, a)
    BY <2>1
  <2> HIDE DEF a, sends
  <2>13. Workspaced(a, override[c])
    BY <1>3, <2>3, <2>10, <2>11 DEF Workspaced
  <2>14. Identified(a, session)
    <3>1. Identified(access[c], session)
      BY CallTyped DEF CallInv
    <3> QED BY <2>5, <2>7, <2>10, <3>1 DEF Identified
  <2> QED BY <1>0, <2>9, <2>12, <2>13, <2>14, Recorded DEF CallInv
<1> QED BY <1>2, <1>3

LEMMA ReturnOwn ==
  ASSUME ConnectionInv, NEW c \in Call, Return(c)
  PROVE  Own(c)
<1> DEFINE a == [NewCall(access[c]) EXCEPT !.phase = "returned"]
<1>1. a \in Access /\ a.job = access[c].job
  <2>1. 0 \in Generation /\ NoWorkspace \in Slug /\ NoCredentials \in Credentials
    BY ConnectionAssumption DEF Generation, Slug, NoCredentials, Credentials
  <2> QED BY <2>1, CallTyped DEF Access, Phases, NewCall
<1>2. CallInv(a, NoWorkspace, session)
  <2>1. a.phase = "returned" /\ a.claim = NoWorkspace /\ a.transport = access[c].transport
    BY DEF NewCall
  <2>2. access[c].transport = "stdio" => EnvironmentKey # "none"
    BY CallTyped DEF CallInv, Identified
  <2> HIDE DEF a
  <2> QED BY <2>1, <2>2 DEF CallInv, Workspaced, Identified
<1>3. access' = [access EXCEPT ![c] = a]
  BY DEF Return, Becomes
<1>4. override' = [override EXCEPT ![c] = NoWorkspace] /\ UNCHANGED session /\ NoWorkspace \in Slug
  BY DEF Return, Slug
<1>5. \E b \in Access, o \in Slug :
        /\ b.job = access[c].job
        /\ access' = [access EXCEPT ![c] = b]
        /\ override' = [override EXCEPT ![c] = o]
        /\ UNCHANGED session
        /\ CallInv(b, o, session)
  BY <1>1, <1>2, <1>3, <1>4
<1> QED BY <1>5 DEF Own

LEMMA ConnectionOwn ==
  ASSUME ConnectionInv, NEW c \in Call, ConnectionStep(c)
  PROVE  Own(c)
BY VerifyOwn, InjectOwn, ConnectOwn DEF ConnectionStep

\* Within one session tokens are only replaced by newer ones.
LEMMA SessionStep ==
  ASSUME ConnectionInv, Refresh \/ End
  PROVE  ConnectionInv'
<1>1. UNCHANGED <<access, override>>
  BY DEF Refresh, End
<1>2. session'.tokens \in Generation /\ (session'.tokens > 0 => session.tokens > 0 /\ session'.tokens > session.tokens)
      /\ session' \in [tokens : Generation, identified : BOOLEAN]
  <2>0. session \in [tokens : Generation, identified : BOOLEAN] /\ MaxGeneration \in Nat \ {0}
    BY ConnectionAssumption DEF ConnectionInv, ConnectionTypeOK
  <2>1. CASE Refresh
    <3>1. session.tokens \in 1 .. MaxGeneration - 1
      BY <2>1 DEF Refresh
    <3>2. PICK b \in BOOLEAN : session' = [tokens |-> session.tokens + 1, identified |-> b]
      BY <2>1 DEF Refresh
    <3>3. session.tokens + 1 \in Generation
      BY <2>0, <3>1 DEF Generation
    <3> QED BY <2>0, <3>1, <3>2, <3>3
  <2>2. CASE End
    <3>1. session' = [session EXCEPT !.tokens = 0]
      BY <2>2 DEF End
    <3>2. 0 \in Generation
      BY <2>0 DEF Generation
    <3> QED BY <2>0, <3>1, <3>2
  <2> QED BY <2>1, <2>2
<1>3. ConnectionTypeOK'
  BY <1>1, <1>2 DEF ConnectionInv, ConnectionTypeOK
<1>4. ASSUME NEW c \in Call PROVE CallInv(access[c], override[c], session')
  <2>1. access[c].validated \in Nat /\ session.tokens \in Nat /\ session'.tokens \in Nat
    BY <1>2, CallTyped, ConnectionAssumption DEF Access, Generation
  <2>2. Workspaced(access[c], override[c]) /\ Identified(access[c], session)
    BY CallTyped DEF CallInv
  <2>3. session'.tokens > 0 /\ (session.tokens > 0 => access[c].validated <= session.tokens) =>
          access[c].validated <= session'.tokens
    BY <1>2, <2>1
  <2> QED BY <2>2, <2>3 DEF CallInv, Identified
<1> QED BY <1>1, <1>3, <1>4 DEF ConnectionInv

LEMMA ConnectionInitial == Init => ConnectionInv
<1> SUFFICES ASSUME Init PROVE ConnectionInv
  OBVIOUS
<1>1. PICK r \in Requests : ConnectionInit(r)
  BY DEF Init
<1>2. r \in [Call -> Request]
  BY <1>1, RequestAssumption
<1>3. 0 \in Generation /\ 1 \in Generation /\ NoWorkspace \in Slug /\ NoCredentials \in Credentials
  BY ConnectionAssumption DEF Generation, Slug, NoCredentials, Credentials
<1>4. ASSUME NEW c \in Call
      PROVE  NewCall(r[c]) \in Access /\ CallInv(NewCall(r[c]), NoWorkspace, session)
  <2>1. r[c] \in Request /\ (r[c].transport = "stdio" => EnvironmentKey # "none")
    BY <1>1, <1>2, RequestAssumption
  <2> QED BY <1>3, <2>1 DEF Request, NewCall, Access, Phases, CallInv, Workspaced, Identified
<1>5. \A c \in Call : access[c] = NewCall(r[c]) /\ override[c] = NoWorkspace
  BY <1>1 DEF ConnectionInit
<1>6. ConnectionTypeOK
  BY <1>1, <1>3, <1>4 DEF ConnectionInit, ConnectionTypeOK
<1> QED BY <1>4, <1>5, <1>6 DEF ConnectionInv

(***************************************************************************)
(* Every step of the server is a step of one call on its own record and    *)
(* context, of the session, or of neither; jobs stay as they were asked.   *)
(***************************************************************************)
LEMMA ConnectionInductive ==
  ASSUME ConnectionInv, [Next]_vars
  PROVE  ConnectionInv' /\ \A d \in Call : access'[d].job = access[d].job
<1>1. ASSUME UNCHANGED connectionVars
      PROVE  ConnectionInv' /\ \A d \in Call : access'[d].job = access[d].job
  BY <1>1 DEF connectionVars, ConnectionInv, ConnectionTypeOK
<1>2. ASSUME NEW c \in Call, Return(c)
      PROVE  ConnectionInv' /\ \A d \in Call : access'[d].job = access[d].job
  BY <1>2, ReturnOwn, OwnStep
<1>3. CASE UNCHANGED vars
  BY <1>1, <1>3 DEF vars
<1>4. CASE Elsewhere
  <2>1. CASE Refresh \/ End
    BY <2>1, SessionStep DEF Refresh, End
  <2>2. ASSUME NEW w, Govern(w)
        PROVE  ConnectionInv' /\ \A d \in Call : access'[d].job = access[d].job
    BY <1>1, <2>2 DEF Govern
  <2> QED BY <1>4, <2>1, <2>2 DEF Elsewhere
<1>5. ASSUME NEW c \in Call, Serve(c)
      PROVE  ConnectionInv' /\ \A d \in Call : access'[d].job = access[d].job
  <2>1. CASE ConnectionStep(c)
    BY <2>1, ConnectionOwn, OwnStep
  <2>2. CASE EditStep(c)
    <3>1. UNCHANGED connectionVars \/ Return(c)
      BY <2>2 DEF EditStep, ReadItem, SendItem, Answered, GiveUp, WrittenLate, Lost, Abandoned
    <3> QED BY <1>1, <1>2, <3>1
  <2>3. CASE ResolveStep(c)
    <3>1. UNCHANGED connectionVars \/ Return(c)
      BY <2>3 DEF ResolveStep, List, AskWorkspace, AskProject, Enable, Create, ListCatalogue,
                  AddToCatalogue, Import, Fails, Asks, Ends, Makes
    <3> QED BY <1>1, <1>2, <3>1
  <2> QED BY <1>2, <1>5, <2>1, <2>2, <2>3 DEF Serve
<1> QED BY <1>3, <1>4, <1>5 DEF Next

LEMMA ConnectionInvariant == Spec => []ConnectionInv
<1>1. ConnectionInv /\ [Next]_vars => ConnectionInv'
  BY ConnectionInductive
<1> QED BY <1>1, ConnectionInitial, PTL DEF Spec

(***************************************************************************)
(* Every call acts in the workspace it names, or the one its own token     *)
(* binds it to, for any number of concurrent calls.                        *)
(***************************************************************************)
THEOREM RightWorkspaceCorrect == Spec => []RightWorkspace
<1>1. ConnectionInv => RightWorkspace
  BY DEF ConnectionInv, CallInv, Workspaced, RightWorkspace, At
<1> QED BY <1>1, ConnectionInvariant, PTL

(***************************************************************************)
(* A call with a Cognito session acts by an id_token at least as new as    *)
(* the session it was validated against.                                   *)
(***************************************************************************)
THEOREM ActsAsItselfCorrect == Spec => []ActsAsItself
<1>1. ConnectionInv => ActsAsItself
  <2> SUFFICES ASSUME ConnectionInv, NEW c \in Call, At(c, "connected") /\ Is(c, "cognito")
               PROVE  access[c].sends.bearer = "id token" /\ access[c].identity >= access[c].validated
    BY DEF ActsAsItself
  <2>1. Identified(access[c], session) /\ access[c] \in Access
    BY CallTyped DEF CallInv
  <2>2. access[c].validated \in Nat /\ access[c].identity \in Nat
    BY <2>1, ConnectionAssumption DEF Access, Generation
  <2> QED BY <2>1, <2>2 DEF Identified, Attributed, At, Is
<1> QED BY <1>1, ConnectionInvariant, PTL

(***************************************************************************)
(* The environment's key, handed on for every call, goes out with stdio    *)
(* calls only, by the client or past it; and no call goes out unknown.     *)
(***************************************************************************)
THEOREM KeyIsNotSharedCorrect == Spec => []KeyIsNotShared
<1>1. ConnectionInv => KeyIsNotShared
  <2> SUFFICES ASSUME ConnectionInv, NEW c \in Call, At(c, "connected")
               PROVE  /\ access[c].sends.key = "environment" => Is(c, "stdio")
                      /\ access[c].sends # NoCredentials
                      /\ PlaneRequestAuth(c).key = "environment" => Is(c, "stdio")
                      /\ PlaneRequestAuth(c) # NoCredentials
    BY DEF KeyIsNotShared
  <2>1. Attributed(access[c].sends, access[c].transport)
    BY CallTyped DEF CallInv, Identified, At
  <2>2. access[c].sends # NoCredentials
    <3>1. access[c].sends.bearer # "none" \/ access[c].sends.key # "none"
      BY <2>1 DEF Attributed
    <3>2. NoCredentials.bearer = "none" /\ NoCredentials.key = "none"
      BY DEF NoCredentials
    <3> QED BY <3>1, <3>2
  <2>3. (PlaneRequestAuth(c).key = "environment" => Is(c, "stdio")) /\ PlaneRequestAuth(c) # NoCredentials
    <3>1. CASE AccessToken(c) = "none"
      <4>1. PlaneRequestAuth(c) = [bearer |-> "none", key |-> ApiKey(c)]
        BY <3>1 DEF PlaneRequestAuth
      <4>2. ApiKey(c) # "none" /\ (ApiKey(c) = "environment" => Is(c, "stdio"))
        BY <3>1, StartsFrom
      <4> QED BY <4>1, <4>2 DEF NoCredentials
    <3>2. CASE AccessToken(c) # "none"
      <4>1. PlaneRequestAuth(c) = [bearer |-> AccessToken(c), key |-> "none"]
        BY <3>2 DEF PlaneRequestAuth
      <4> QED BY <3>2, <4>1 DEF NoCredentials
    <3> QED BY <3>1, <3>2
  <2> QED BY <2>1, <2>2, <2>3 DEF Attributed, Is
<1> QED BY <1>1, ConnectionInvariant, PTL

-----------------------------------------------------------------------------
(***************************************************************************)
(* Edits.                                                                  *)
(***************************************************************************)

(***************************************************************************)
(* What is known of an edit: its record x, whether another has overtaken   *)
(* it (b), the job j of its call and the work items i.                     *)
(***************************************************************************)
EditKnown(x, b, j, i) ==
  /\ x.status # "none" =>
       /\ j.op = "edit" /\ j.field \in Field /\ x.workspace \in Workspace
       /\ ~ b => i[x.workspace][j.field] = x.read[j.field]
  /\ x.status = "sent" =>
       DOMAIN x.patch = {j.field} /\ x.patch[j.field] = Applied(j, x.read[j.field])

EditInv ==
  /\ EditTypeOK
  /\ \A c \in Call : EditKnown(write[c], behind[c], access[c].job, item)

Write == [status : {"none", "read", "sent"}, workspace : Slug, read : Item, patch : Patch]

LEMMA NoWriteTyped == NoWrite \in Write
<1>1. NoWorkspace \in Slug /\ Unread \in Item
  BY DEF Slug, Unread, Item
<1>2. Nothing \in Patch
  <2>1. {} \in SUBSET Field /\ Nothing \in [{} -> SUBSET Value]
    BY DEF Nothing
  <2> QED BY <2>1 DEF Patch
<1> QED BY <1>1, <1>2 DEF NoWrite, Write

LEMMA EditTyped ==
  ASSUME EditInv
  PROVE  /\ item \in [Workspace -> Item]
         /\ write \in [Call -> Write]
         /\ behind \in [Call -> BOOLEAN]
BY DEF EditInv, EditTypeOK, Write

\* What an edit writes are values of its field.
LEMMA AppliedTyped ==
  ASSUME NEW job \in Job, job.op = "edit", NEW ids \in SUBSET Value
  PROVE  job.field \in Field /\ Applied(job, ids) \in SUBSET Value
BY EditAssumption DEF Applied

(***************************************************************************)
(* A step of one edit that writes nothing.                                 *)
(***************************************************************************)
LEMMA EditOwn ==
  ASSUME EditInv, NEW c \in Call, NEW x \in Write, NEW b \in BOOLEAN,
         write' = [write EXCEPT ![c] = x], behind' = [behind EXCEPT ![c] = b], item' = item,
         \A d \in Call : access'[d].job = access[d].job,
         EditKnown(x, b, access[c].job, item)
  PROVE  EditInv'
<1>1. EditTypeOK'
  BY EditTyped DEF EditTypeOK, Write
<1>2. ASSUME NEW d \in Call PROVE EditKnown(write'[d], behind'[d], access'[d].job, item')
  <2>1. CASE d = c
    BY <2>1, EditTyped
  <2>2. CASE d # c
    BY <2>2, EditTyped DEF EditInv
  <2> QED BY <2>1, <2>2
<1> QED BY <1>1, <1>2 DEF EditInv

(***************************************************************************)
(* Plane carries a write out: one field of one work item becomes what the  *)
(* edit computed from what it read, and the other edits of it are behind.  *)
(***************************************************************************)
LEMMA WrittenField ==
  ASSUME EditInv, ConnectionInv, NEW c \in Call, write[c].status = "sent", Written(c, write[c].patch)
  PROVE  LET w == write[c].workspace
             g == access[c].job.field
         IN  /\ w \in Workspace /\ g \in Field
             /\ item' \in [Workspace -> Item]
             /\ item'[w][g] = Applied(access[c].job, write[c].read[g])
             /\ \A v \in Workspace, f \in Field : (v # w \/ f # g) => item'[v][f] = item[v][f]
<1> DEFINE w == write[c].workspace
           g == access[c].job.field
           p == write[c].patch
           new == [f \in Field |-> IF f \in DOMAIN p THEN p[f] ELSE item[w][f]]
<1>1. write[c] \in Write /\ access[c].job \in Job /\ EditKnown(write[c], behind[c], access[c].job, item)
  BY EditTyped, CallTyped DEF EditInv, Access
<1>2. access[c].job.op = "edit" /\ w \in Workspace /\ g \in Field /\ DOMAIN p = {g}
      /\ p[g] = Applied(access[c].job, write[c].read[g])
  BY <1>1 DEF EditKnown
<1>3. write[c].read \in Item
  BY <1>1 DEF Write
<1>4. p[g] \in SUBSET Value
  <2>1. write[c].read[g] \in SUBSET Value
    BY <1>2, <1>3 DEF Item
  <2> QED BY <1>1, <1>2, <2>1, AppliedTyped
<1>5. item \in [Workspace -> Item]
  BY EditTyped
<1>6. item' = [item EXCEPT ![w] = new]
  BY <1>2, <1>5 DEF Written
<1>7. new \in Item
  BY <1>2, <1>4, <1>5 DEF Item
<1>8. new[g] = p[g] /\ \A f \in Field : f # g => new[f] = item[w][f]
  BY <1>2
<1> HIDE DEF new, p
<1>9. item' \in [Workspace -> Item]
  BY <1>5, <1>6, <1>7
<1>10. item'[w] = new /\ \A v \in Workspace : v # w => item'[v] = item[v]
  BY <1>2, <1>5, <1>6
<1> QED BY <1>2, <1>8, <1>9, <1>10

LEMMA WrittenStep ==
  ASSUME EditInv, ConnectionInv, NEW c \in Call, write[c].status = "sent", Written(c, write[c].patch),
         \A d \in Call : access'[d].job = access[d].job
  PROVE  EditInv'
<1> DEFINE w == write[c].workspace
           g == access[c].job.field
<1>1. /\ w \in Workspace /\ g \in Field /\ item' \in [Workspace -> Item]
      /\ \A v \in Workspace, f \in Field : (v # w \/ f # g) => item'[v][f] = item[v][f]
  BY WrittenField
<1>2. write' = [write EXCEPT ![c] = NoWrite]
  BY DEF Written
<1>3. DOMAIN write[c].patch = {g}
  BY DEF EditInv, EditKnown
<1>4. behind' \in [Call -> BOOLEAN]
  BY EditTyped DEF Written
<1>5. EditTypeOK'
  BY <1>1, <1>2, <1>4, EditTyped, NoWriteTyped DEF EditTypeOK, Write
<1>6. ASSUME NEW d \in Call PROVE EditKnown(write'[d], behind'[d], access'[d].job, item')
  <2>1. CASE d = c
    <3>1. write'[d] = NoWrite
      BY <1>2, <2>1, EditTyped
    <3> QED BY <3>1 DEF EditKnown, NoWrite
  <2>2. CASE d # c
    <3>1. write'[d] = write[d] /\ access'[d].job = access[d].job
      BY <1>2, <2>2, EditTyped
    <3>2. EditKnown(write[d], behind[d], access[d].job, item)
      BY DEF EditInv
    <3>3. CASE write[d].status = "none"
      BY <3>1, <3>3 DEF EditKnown
    <3>4. CASE write[d].status # "none"
      <4>1. access[d].job.op = "edit" /\ access[d].job.field \in Field /\ write[d].workspace \in Workspace
        BY <3>2, <3>4 DEF EditKnown
      <4>2. behind'[d] <=> behind[d] \/ (write[d].workspace = w /\ access[d].job.field = g)
        BY <1>3, <2>2, <3>4, EditTyped DEF Written
      <4>3. ~ behind'[d] => item'[write[d].workspace][access[d].job.field] = write[d].read[access[d].job.field]
        BY <1>1, <3>2, <3>4, <4>1, <4>2 DEF EditKnown
      <4> QED BY <3>1, <3>2, <4>1, <4>3 DEF EditKnown
    <3> QED BY <3>3, <3>4
  <2> QED BY <2>1, <2>2
<1> QED BY <1>5, <1>6 DEF EditInv

LEMMA EditUnchanged ==
  ASSUME EditInv, UNCHANGED editVars, \A d \in Call : access'[d].job = access[d].job
  PROVE  EditInv'
BY DEF EditInv, EditTypeOK, editVars

LEMMA EditStepInductive ==
  ASSUME EditInv, ConnectionInv, NEW c \in Call, EditStep(c),
         \A d \in Call : access'[d].job = access[d].job
  PROVE  EditInv'
<1>0. write \in [Call -> Write] /\ behind \in [Call -> BOOLEAN] /\ item \in [Workspace -> Item]
  BY EditTyped
<1>1. CASE ReadItem(c)
  <2> DEFINE w == access[c].workspace
             x == [NoWrite EXCEPT !.status = "read", !.workspace = w, !.read = item[w]]
  <2>1. access[c] \in Access /\ access[c].job \in Job /\ access[c].job.op = "edit" /\ w \in Workspace
    BY <1>1, CallTyped DEF ReadItem, Edits, At, Access, Slug, CallInv, Workspaced
  <2>2. access[c].job.field \in Field
    BY <2>1, EditAssumption
  <2>3. x \in Write /\ x.status = "read" /\ x.workspace = w /\ x.read = item[w]
    BY <1>0, <2>1, NoWriteTyped DEF Write, NoWrite, Slug
  <2>4. write' = [write EXCEPT ![c] = x] /\ behind' = [behind EXCEPT ![c] = FALSE] /\ item' = item
    BY <1>1 DEF ReadItem
  <2> HIDE DEF x
  <2>5. EditKnown(x, FALSE, access[c].job, item)
    BY <2>1, <2>2, <2>3 DEF EditKnown
  <2> QED BY <2>3, <2>4, <2>5, EditOwn
<1>2. CASE SendItem(c)
  <2> DEFINE x == [write[c] EXCEPT !.status = "sent", !.patch = Payload(c)]
             g == access[c].job.field
  <2>1. write[c] \in Write /\ write[c].status = "read" /\ EditKnown(write[c], behind[c], access[c].job, item)
    BY <1>0, <1>2 DEF SendItem, EditInv
  <2>2. access[c].job \in Job /\ access[c].job.op = "edit" /\ g \in Field /\ write[c].workspace \in Workspace
    BY <2>1, CallTyped DEF EditKnown, Access
  <2>3. write[c].read[g] \in SUBSET Value
    BY <2>1, <2>2 DEF Write, Item
  <2>4. Payload(c) \in [{g} -> SUBSET Value] /\ Payload(c)[g] = Applied(access[c].job, write[c].read[g])
    BY <2>2, <2>3, AppliedTyped DEF Payload
  <2>5. Payload(c) \in Patch /\ DOMAIN Payload(c) = {g}
    <3>1. {g} \in SUBSET Field
      BY <2>2
    <3> QED BY <2>4, <3>1 DEF Patch
  <2>6. x \in Write /\ x.status = "sent" /\ x.workspace = write[c].workspace /\ x.read = write[c].read
        /\ x.patch = Payload(c)
    BY <2>1, <2>5 DEF Write
  <2>7. write' = [write EXCEPT ![c] = x] /\ behind' = [behind EXCEPT ![c] = behind[c]] /\ item' = item
    BY <1>0, <1>2 DEF SendItem
  <2> HIDE DEF x
  <2>8. EditKnown(x, behind[c], access[c].job, item)
    BY <2>1, <2>2, <2>4, <2>5, <2>6 DEF EditKnown
  <2>9. behind[c] \in BOOLEAN
    BY <1>0
  <2> QED BY <2>6, <2>7, <2>8, <2>9, EditOwn
<1>3. CASE Answered(c)
  BY <1>3, WrittenStep DEF Answered
<1>4. CASE WrittenLate(c)
  BY <1>4, WrittenStep DEF WrittenLate, Abandoned
<1>5. ASSUME write' = [write EXCEPT ![c] = NoWrite], UNCHANGED <<item, behind>> PROVE EditInv'
  <2>1. EditKnown(NoWrite, behind[c], access[c].job, item)
    BY DEF EditKnown, NoWrite
  <2>2. behind' = [behind EXCEPT ![c] = behind[c]] /\ behind[c] \in BOOLEAN /\ item' = item
    BY <1>0, <1>5
  <2> QED BY <1>5, <2>1, <2>2, NoWriteTyped, EditOwn
<1>6. CASE GiveUp(c)
  <2>1. CASE write[c].status = "sent"
    <3>1. UNCHANGED editVars
      BY <1>0, <1>6, <2>1 DEF GiveUp, editVars
    <3> QED BY <3>1, EditUnchanged
  <2>2. CASE write[c].status # "sent"
    BY <1>5, <1>6, <2>2 DEF GiveUp
  <2> QED BY <2>1, <2>2
<1>7. CASE Lost(c)
  BY <1>5, <1>7 DEF Lost
<1> QED BY <1>1, <1>2, <1>3, <1>4, <1>6, <1>7 DEF EditStep

LEMMA EditInitial == Init => EditInv
<1> SUFFICES ASSUME Init PROVE EditInv
  OBVIOUS
<1>1. /\ item = [w \in Workspace |-> Unread]
      /\ write = [c \in Call |-> NoWrite]
      /\ behind = [c \in Call |-> FALSE]
  BY DEF Init, EditInit
<1>2. EditTypeOK
  <2>1. Unread \in Item
    BY DEF Unread, Item
  <2> QED BY <1>1, <2>1, NoWriteTyped DEF EditTypeOK, Write
<1>3. ASSUME NEW c \in Call PROVE EditKnown(write[c], behind[c], access[c].job, item)
  BY <1>1 DEF EditKnown, NoWrite
<1> QED BY <1>2, <1>3 DEF EditInv

LEMMA EditInductive ==
  ASSUME EditInv, ConnectionInv, [Next]_vars
  PROVE  EditInv'
<1>1. \A d \in Call : access'[d].job = access[d].job
  BY ConnectionInductive
<1>2. CASE UNCHANGED editVars
  BY <1>1, <1>2, EditUnchanged
<1>3. ASSUME NEW c \in Call, EditStep(c) PROVE EditInv'
  BY <1>1, <1>3, EditStepInductive
<1>4. UNCHANGED editVars \/ \E c \in Call : EditStep(c)
  BY DEF Next, Elsewhere, Serve, vars
<1> QED BY <1>2, <1>3, <1>4

LEMMA EditInvariant == Spec => [](EditInv /\ ConnectionInv)
<1>1. EditInv /\ ConnectionInv /\ [Next]_vars => (EditInv /\ ConnectionInv)'
  BY EditInductive, ConnectionInductive
<1> QED BY <1>1, EditInitial, ConnectionInitial, PTL DEF Spec

(***************************************************************************)
(* Edits add up, for any number of concurrent, repeated and late ones: a   *)
(* field becomes what the edit being written makes of what it read, which  *)
(* is what is there unless another write of that field came in between.    *)
(***************************************************************************)
THEOREM EditsAddUpCorrect == Spec => EditsAddUp
<1> DEFINE Changed(w, f) ==
      \E c \in Call :
         /\ write[c].status = "sent" /\ write'[c] = NoWrite
         /\ write[c].workspace = w /\ access[c].job.field = f
         /\ item'[w][f] = Applied(access[c].job, write[c].read[f])
         /\ ~ behind[c] => write[c].read[f] = item[w][f]
    Adds == \A w \in Workspace, f \in Field : item'[w][f] # item[w][f] => Changed(w, f)
<1>1. EditInv /\ ConnectionInv /\ [Next]_vars => [Adds]_<<item, write>>
  <2> SUFFICES ASSUME EditInv, ConnectionInv, [Next]_vars,
                      NEW w \in Workspace, NEW f \in Field, item'[w][f] # item[w][f]
               PROVE  Changed(w, f)
    OBVIOUS
  <2>1. \E c \in Call : EditStep(c)
    BY DEF Next, Elsewhere, Serve, vars, editVars
  <2>2. PICK c \in Call : write[c].status = "sent" /\ Written(c, write[c].patch)
    BY <2>1 DEF EditStep, ReadItem, SendItem, Answered, GiveUp, WrittenLate, Lost, Abandoned
  <2>3. write[c].workspace = w /\ access[c].job.field = f
        /\ item'[w][f] = Applied(access[c].job, write[c].read[f])
    BY <2>2, WrittenField
  <2>4. ~ behind[c] => item[w][f] = write[c].read[f]
    BY <2>2, <2>3 DEF EditInv, EditKnown
  <2>5. write'[c] = NoWrite
    BY <2>2, EditTyped DEF Written
  <2> QED BY <2>2, <2>3, <2>4, <2>5
<1>2. [Adds]_<<item, write>> => [\A w \in Workspace, f \in Field : item'[w][f] # item[w][f] =>
       \E c \in Call :
         /\ write[c].status = "sent" /\ write'[c] = NoWrite
         /\ write[c].workspace = w /\ access[c].job.field = f
         /\ item'[w][f] = Applied(access[c].job, write[c].read[f])
         /\ ~ behind[c] => write[c].read[f] = item[w][f]]_<<item, write>>
  OBVIOUS
<1> QED BY <1>1, <1>2, EditInvariant, PTL DEF Spec, EditsAddUp

-----------------------------------------------------------------------------
(***************************************************************************)
(* The resolution of work-item types.  With it, Server is well typed.      *)
(***************************************************************************)

(***************************************************************************)
(* Only a workspace that has taken types over has the flag on, or a type   *)
(* in its catalogue: g is its governance, t are its types.                 *)
(***************************************************************************)
Governed(g, t) == (g.flag \/ t.catalogue # {}) => g.locked

(***************************************************************************)
(* What is known of a resolve, from its record r, the record a of its call *)
(* and its workspace: the lockout it was told of stays; what it has found  *)
(* is there; and unless another call has overtaken it, or it saw only one  *)
(* page of several, what it did not find is still not there.               *)
(***************************************************************************)
Absent == {"ask workspace", "ask project", "enable", "create", "list catalogue"}

Found(r, a, g, t) ==
  /\ r.stage # "list" => a.phase = "connected" /\ a.job.op = "resolve"
  /\ r.stage \in {"list catalogue", "add", "import"} => g.locked
  /\ r.stage = "import" => r.found \in t.catalogue
  /\ r.stage = "done" => r.found \in t.project

NotFound(r, t) ==
  ~ Paged /\ ~ r.overtaken =>
    /\ r.stage \in Absent => t.project \subseteq t.catalogue
    /\ r.stage = "add" => t.catalogue = {} /\ t.project = {}

ResolveKnown(r, a, g, t) == Found(r, a, g, t) /\ NotFound(r, t)

Knows(c) == ResolveKnown(resolve[c], access[c], governance[In(c)], types[In(c)])

ResolveInv ==
  /\ ResolveTypeOK
  /\ \A w \in Workspace : Governed(governance[w], types[w])
  /\ \A c \in Call : Knows(c)

Governance == [locked : BOOLEAN, flag : BOOLEAN, enabled : BOOLEAN]
Types == [catalogue : SUBSET Type, project : SUBSET Type]
Resolve == [stage : Stages, found : Type \cup {NoType}, overtaken : BOOLEAN]

LEMMA ResolveTyped ==
  ASSUME ResolveInv
  PROVE  /\ governance \in [Workspace -> Governance]
         /\ types \in [Workspace -> Types]
         /\ resolve \in [Call -> Resolve]
BY DEF ResolveInv, ResolveTypeOK, Governance, Types, Resolve

\* The lockout stays, and types are not removed.
Grows(g, h, t, u) ==
  /\ g.locked => h.locked
  /\ t.catalogue \subseteq u.catalogue
  /\ t.project \subseteq u.project

\* Nothing new is there, but what the project takes from the catalogue.
Steady(t, u) ==
  /\ t.project \subseteq t.catalogue => u.project \subseteq u.catalogue
  /\ t.catalogue = {} /\ t.project = {} => u.catalogue = {} /\ u.project = {}

LEMMA GrowsReflexive ==
  ASSUME NEW g, NEW t
  PROVE  Grows(g, g, t, t) /\ Steady(t, t)
BY DEF Grows, Steady

LEMMA KnownKept ==
  ASSUME NEW r, NEW s, NEW a, NEW g, NEW h, NEW t, NEW u, ResolveKnown(r, a, g, t),
         s.stage = r.stage, s.found = r.found, Grows(g, h, t, u),
         ~ s.overtaken => ~ r.overtaken /\ Steady(t, u)
  PROVE  ResolveKnown(s, a, h, u)
<1>1. Found(s, a, h, u)
  BY DEF ResolveKnown, Found, Grows
<1>2. NotFound(s, u)
  BY DEF ResolveKnown, NotFound, Steady
<1> QED BY <1>1, <1>2 DEF ResolveKnown

LEMMA NothingKnown ==
  ASSUME NEW r, NEW a, NEW g, NEW t, r.stage = "list"
  PROVE  ResolveKnown(r, a, g, t)
BY DEF ResolveKnown, Found, NotFound, Absent

\* A call that is past its first request is in a workspace.
LEMMA InWorkspace ==
  ASSUME ConnectionInv, NEW c \in Call, At(c, "connected")
  PROVE  In(c) \in Workspace
BY CallTyped DEF At, In, Access, Slug, CallInv, Workspaced

(***************************************************************************)
(* A step that is not one of resolve, or that changes what one call knows. *)
(***************************************************************************)
LEMMA OthersKnow ==
  ASSUME ConnectionInv, ResolveInv, NEW d \in Call,
         \A w \in Workspace : Grows(governance[w], governance'[w], types[w], types'[w]),
         resolve[d].stage # "list" => access'[d] = access[d],
         resolve'[d].stage = resolve[d].stage, resolve'[d].found = resolve[d].found,
         resolve[d].stage # "list" /\ ~ resolve'[d].overtaken =>
           ~ resolve[d].overtaken /\ Steady(types[In(d)], types'[In(d)])
  PROVE  Knows(d)'
<1>1. CASE resolve[d].stage = "list"
  BY <1>1, NothingKnown DEF Knows
<1>2. CASE resolve[d].stage # "list"
  <2>1. Knows(d)
    BY DEF ResolveInv
  <2>2. In(d) \in Workspace
    BY <1>2, <2>1, InWorkspace DEF Knows, ResolveKnown, Found, At
  <2>3. In(d)' = In(d)
    BY <1>2 DEF In
  <2>4. Grows(governance[In(d)], governance'[In(d)], types[In(d)], types'[In(d)])
    BY <2>2
  <2>5. ResolveKnown(resolve'[d], access[d], governance'[In(d)], types'[In(d)])
    BY <1>2, <2>1, <2>4, KnownKept DEF Knows
  <2> QED BY <1>2, <2>3, <2>5 DEF Knows
<1> QED BY <1>1, <1>2

\* Own requests that change neither types nor governance.
LEMMA AskStep ==
  ASSUME ConnectionInv, ResolveInv, NEW c \in Call, NEW r \in Resolve,
         resolve' = [resolve EXCEPT ![c] = r], UNCHANGED <<governance, types>>,
         \A d \in Call \ {c} : access'[d] = access[d],
         ResolveKnown(r, access'[c], governance[In(c)'], types[In(c)'])
  PROVE  ResolveInv'
<1>1. ResolveTypeOK'
  BY ResolveTyped DEF ResolveTypeOK, Governance, Types, Resolve
<1>2. \A w \in Workspace : Governed(governance[w], types[w])'
  BY DEF ResolveInv
<1>3. \A w \in Workspace : Grows(governance[w], governance'[w], types[w], types'[w])
  BY GrowsReflexive
<1>4. ASSUME NEW d \in Call PROVE Knows(d)'
  <2>1. CASE d = c
    BY <2>1, ResolveTyped DEF Knows
  <2>2. CASE d # c
    <3>1. resolve'[d] = resolve[d] /\ access'[d] = access[d]
      BY <2>2, ResolveTyped
    <3>2. Steady(types[In(d)], types'[In(d)])
      BY GrowsReflexive
    <3> QED BY <1>3, <3>1, <3>2, OthersKnow
  <2> QED BY <2>1, <2>2
<1> QED BY <1>1, <1>2, <1>4 DEF ResolveInv

LEMMA NoResolveTyped == NoResolve \in Resolve /\ NoResolve.stage = "list"
BY DEF NoResolve, Resolve, Stages

LEMMA ReturnAlone ==
  ASSUME ConnectionInv, NEW c \in Call, Return(c)
  PROVE  \A d \in Call \ {c} : access'[d] = access[d]
BY DEF Return, Becomes, ConnectionInv, ConnectionTypeOK

LEMMA EndsStep ==
  ASSUME ConnectionInv, ResolveInv, NEW c \in Call, Ends(c), UNCHANGED <<governance, types>>
  PROVE  ResolveInv'
<1>1. ResolveKnown(NoResolve, access'[c], governance[In(c)'], types[In(c)'])
  BY NoResolveTyped, NothingKnown
<1> QED BY <1>1, NoResolveTyped, ReturnAlone, AskStep DEF Ends

\* Where a call stands, as its invariant says it.
LEMMA Standing ==
  ASSUME ConnectionInv, ResolveInv, NEW c \in Call, NEW stage, Resolves(c, stage)
  PROVE  /\ At(c, "connected") /\ access[c].job.op = "resolve" /\ resolve[c].stage = stage
         /\ In(c) \in Workspace
         /\ resolve[c] \in Resolve /\ governance[In(c)] \in Governance /\ types[In(c)] \in Types
         /\ Governed(governance[In(c)], types[In(c)])
         /\ Found(resolve[c], access[c], governance[In(c)], types[In(c)])
         /\ NotFound(resolve[c], types[In(c)])
<1>1. At(c, "connected") /\ access[c].job.op = "resolve" /\ resolve[c].stage = stage
  BY DEF Resolves
<1>2. In(c) \in Workspace
  BY <1>1, InWorkspace
<1>3. Knows(c) /\ Governed(governance[In(c)], types[In(c)])
  BY <1>2 DEF ResolveInv
<1> QED BY <1>1, <1>2, <1>3, ResolveTyped DEF Knows, ResolveKnown

\* The next request of a call that has asked.
LEMMA MovesStep ==
  ASSUME ConnectionInv, ResolveInv, NEW c \in Call, NEW before, Resolves(c, before),
         NEW stage \in Stages, NEW found \in Type \cup {NoType},
         Moves(c, stage, found), Asks,
         LET r == [resolve[c] EXCEPT !.stage = stage, !.found = found] IN
         Found(r, access[c], governance[In(c)], types[In(c)]) /\ NotFound(r, types[In(c)])
  PROVE  ResolveInv'
<1> DEFINE r == [resolve[c] EXCEPT !.stage = stage, !.found = found]
<1>1. r \in Resolve /\ resolve' = [resolve EXCEPT ![c] = r]
  BY ResolveTyped DEF Moves, Resolve
<1>2. access' = access /\ UNCHANGED <<governance, types>>
  BY DEF Asks, connectionVars
<1>3. In(c)' = In(c)
  BY <1>2 DEF In
<1>4. ResolveKnown(r, access'[c], governance[In(c)'], types[In(c)'])
  BY <1>2, <1>3 DEF ResolveKnown
<1> HIDE DEF r
<1> QED BY <1>1, <1>2, <1>4, AskStep

LEMMA WithTyped ==
  ASSUME NEW held \in Types, NEW scope \in {"catalogue", "project"}, NEW t \in Type
  PROVE  LET more == With(held, scope, t) IN
         /\ more \in Types
         /\ scope = "catalogue" => more.catalogue = held.catalogue \cup {t} /\ more.project = held.project
         /\ scope = "project" => more.project = held.project \cup {t} /\ more.catalogue = held.catalogue
<1>1. CASE scope = "catalogue"
  <2>1. With(held, scope, t) = [held EXCEPT !.catalogue = @ \cup {t}]
    BY <1>1 DEF With
  <2> QED BY <1>1, <2>1 DEF Types
<1>2. CASE scope = "project"
  <2>1. With(held, scope, t) = [held EXCEPT !.project = @ \cup {t}]
    BY <1>2 DEF With
  <2> QED BY <1>2, <2>1 DEF Types
<1> QED BY <1>1, <1>2

\* A type made by a call that may not have learnt of it.
LEMMA MakesStep ==
  ASSUME ConnectionInv, ResolveInv, NEW c \in Call, NEW before, Resolves(c, before),
         NEW scope \in {"catalogue", "project"}, NEW stage \in {"import", "done"}, Makes(c, scope, stage),
         scope = "catalogue" => governance[In(c)].locked /\ stage = "import",
         scope = "project" => stage = "done"
  PROVE  ResolveInv'
<1> DEFINE w == In(c)
           overtakes == [d \in Call |-> [resolve[d] EXCEPT
             !.overtaken = @ \/ (At(d, "connected") /\ In(d) = In(c) /\ resolve[d].stage # "list")]]
<1>1. PICK t \in Type \ Of(w) :
        /\ types' = [types EXCEPT ![w] = With(@, scope, t)]
        /\ UNCHANGED governance
        /\ \/ resolve' = [overtakes EXCEPT ![c] = [resolve[c] EXCEPT !.stage = stage, !.found = t]]
              /\ UNCHANGED connectionVars
           \/ resolve' = [overtakes EXCEPT ![c] = NoResolve] /\ Return(c)
  BY DEF Makes
<1>2. w \in Workspace /\ types[w] \in Types /\ resolve[c] \in Resolve /\ Governed(governance[w], types[w])
      /\ access[c].phase = "connected" /\ access[c].job.op = "resolve"
  BY Standing DEF At
<1>3. overtakes \in [Call -> Resolve]
  BY ResolveTyped DEF Resolve
<1>4. \A d \in Call : /\ overtakes[d].stage = resolve[d].stage /\ overtakes[d].found = resolve[d].found
                      /\ ~ overtakes[d].overtaken =>
                           ~ resolve[d].overtaken /\ ~ (At(d, "connected") /\ In(d) = w /\ resolve[d].stage # "list")
  BY ResolveTyped DEF Resolve
<1> HIDE DEF overtakes
<1>5. types'[w] \in Types /\ types[w].catalogue \subseteq types'[w].catalogue
      /\ types[w].project \subseteq types'[w].project
      /\ (scope = "catalogue" => t \in types'[w].catalogue)
      /\ (scope = "project" => t \in types'[w].project /\ types'[w].catalogue = types[w].catalogue)
  <2>1. types \in [Workspace -> Types]
    BY ResolveTyped
  <2>2. types' = [types EXCEPT ![w] = With(@, scope, t)]
    BY <1>1, Zenon
  <2>3. types'[w] = With(types[w], scope, t)
    BY <1>2, <2>1, <2>2
  <2> QED BY <1>2, <2>3, WithTyped
<1>6. types' \in [Workspace -> Types] /\ \A v \in Workspace : v # w => types'[v] = types[v]
  BY <1>1, <1>2, <1>5, ResolveTyped
<1>7. \A v \in Workspace : Governed(governance'[v], types'[v])
  BY <1>1, <1>5, <1>6 DEF ResolveInv, Governed
<1>8. \A v \in Workspace : Grows(governance[v], governance'[v], types[v], types'[v])
  BY <1>1, <1>5, <1>6 DEF Grows
<1>9. resolve' \in [Call -> Resolve]
  <2>1. [resolve[c] EXCEPT !.stage = stage, !.found = t] \in Resolve
    BY <1>2 DEF Resolve, Stages
  <2> QED BY <1>1, <1>3, <2>1, NoResolveTyped
<1>10. ResolveTypeOK'
  BY <1>1, <1>6, <1>9, ResolveTyped DEF ResolveTypeOK, Governance, Types, Resolve
<1>11. \A d \in Call \ {c} : access'[d] = access[d] /\ resolve'[d] = overtakes[d]
  <2>1. \A d \in Call \ {c} : resolve'[d] = overtakes[d]
    BY <1>1, <1>3
  <2>2. \A d \in Call \ {c} : access'[d] = access[d]
    BY <1>1, ReturnAlone DEF connectionVars
  <2> QED BY <2>1, <2>2
<1>12. ASSUME NEW d \in Call PROVE Knows(d)'
  <2>1. CASE d # c
    <3>1. resolve'[d] = overtakes[d] /\ access'[d] = access[d]
      BY <1>11, <2>1
    <3>2. resolve[d].stage # "list" => At(d, "connected") /\ In(d) \in Workspace
      BY InWorkspace DEF ResolveInv, Knows, ResolveKnown, Found, At
    <3>3. resolve[d].stage # "list" /\ ~ resolve'[d].overtaken =>
            ~ resolve[d].overtaken /\ Steady(types[In(d)], types'[In(d)])
      <4> SUFFICES ASSUME resolve[d].stage # "list", ~ resolve'[d].overtaken
                   PROVE  ~ resolve[d].overtaken /\ Steady(types[In(d)], types'[In(d)])
        OBVIOUS
      <4>1. ~ resolve[d].overtaken /\ In(d) # w
        BY <1>4, <3>1, <3>2
      <4>2. types'[In(d)] = types[In(d)]
        BY <1>6, <3>2, <4>1
      <4> QED BY <4>1, <4>2, GrowsReflexive
    <3> QED BY <1>4, <1>8, <3>1, <3>3, OthersKnow
  <2>2. CASE d = c /\ resolve'[c] = NoResolve
    BY <2>2, NoResolveTyped, NothingKnown DEF Knows
  <2>3. CASE d = c /\ resolve'[c] # NoResolve
    <3> DEFINE r == [resolve[c] EXCEPT !.stage = stage, !.found = t]
    <3>1. resolve'[c] = r /\ UNCHANGED connectionVars
      BY <1>1, <1>3, <2>3
    <3>2. access'[c] = access[c] /\ In(c)' = w
      BY <3>1 DEF connectionVars, In
    <3>3. r.stage = stage /\ r.found = t
      BY <1>2 DEF Resolve
    <3> HIDE DEF r
    <3>4. Found(r, access[c], governance[w], types'[w])
      BY <1>2, <1>5, <3>3 DEF Found
    <3>5. NotFound(r, types'[w])
      BY <3>3 DEF NotFound, Absent
    <3> QED BY <1>1, <2>3, <3>1, <3>2, <3>4, <3>5 DEF Knows, ResolveKnown
  <2> QED BY <2>1, <2>2, <2>3
<1> QED BY <1>7, <1>10, <1>12 DEF ResolveInv

(***************************************************************************)
(* What a call finds among the types of a scope is one of them.            *)
(***************************************************************************)
LEMMA FindsStep ==
  ASSUME ConnectionInv, ResolveInv, NEW c \in Call, NEW before, Resolves(c, before),
         NEW among \in SUBSET Type, NEW stage \in Stages, NEW otherwise \in Stages,
         Finds(c, among, stage, otherwise), Asks,
         \A t \in among :
           LET r == [resolve[c] EXCEPT !.stage = stage, !.found = t] IN
           Found(r, access[c], governance[In(c)], types[In(c)]) /\ NotFound(r, types[In(c)]),
         among = {} =>
           LET r == [resolve[c] EXCEPT !.stage = otherwise, !.found = resolve[c].found] IN
           Found(r, access[c], governance[In(c)], types[In(c)]) /\ NotFound(r, types[In(c)])
  PROVE  ResolveInv'
<1>1. CASE among = {}
  <2>1. resolve[c].found \in Type \cup {NoType}
    BY ResolveTyped DEF Resolve
  <2> QED BY <1>1, <2>1, MovesStep DEF Finds, Goes
<1>2. CASE among # {}
  <2>1. PICK t \in among : Moves(c, stage, t)
    BY <1>2 DEF Finds
  <2> QED BY <2>1, MovesStep
<1> QED BY <1>1, <1>2

\* A call that goes on to ask, without having found.
LEMMA GoesStep ==
  ASSUME ConnectionInv, ResolveInv, NEW c \in Call, NEW before, Resolves(c, before),
         NEW stage \in Stages, Goes(c, stage), Asks,
         LET r == [resolve[c] EXCEPT !.stage = stage, !.found = resolve[c].found] IN
         Found(r, access[c], governance[In(c)], types[In(c)]) /\ NotFound(r, types[In(c)])
  PROVE  ResolveInv'
<1>1. resolve[c].found \in Type \cup {NoType}
  BY ResolveTyped DEF Resolve
<1> QED BY <1>1, MovesStep DEF Goes

LEMMA ListStep ==
  ASSUME ConnectionInv, ResolveInv, NEW c \in Call, List(c)
  PROVE  ResolveInv'
<1>1. PICK page \in Page(types[In(c)].project) : Finds(c, page, "done", "ask workspace")
  BY DEF List
<1>2. Resolves(c, "list") /\ Asks
  BY DEF List
<1>3. /\ types[In(c)].project \in SUBSET Type /\ resolve[c] \in Resolve
      /\ access[c].phase = "connected" /\ access[c].job.op = "resolve"
  BY <1>2, Standing DEF Types, At
<1>4. page \subseteq types[In(c)].project /\ (~ Paged => page = types[In(c)].project)
  BY <1>1 DEF Page
<1>5. ASSUME NEW t \in page
      PROVE  LET r == [resolve[c] EXCEPT !.stage = "done", !.found = t] IN
             Found(r, access[c], governance[In(c)], types[In(c)]) /\ NotFound(r, types[In(c)])
  BY <1>3, <1>4 DEF Resolve, Found, NotFound, Absent
<1>6. ASSUME page = {}
      PROVE  LET r == [resolve[c] EXCEPT !.stage = "ask workspace", !.found = resolve[c].found] IN
             Found(r, access[c], governance[In(c)], types[In(c)]) /\ NotFound(r, types[In(c)])
  BY <1>3, <1>4, <1>6 DEF Resolve, Found, NotFound, Absent
<1>7. "done" \in Stages /\ "ask workspace" \in Stages /\ page \in SUBSET Type
  BY <1>3, <1>4 DEF Stages
<1> QED BY <1>1, <1>2, <1>5, <1>6, <1>7, FindsStep

LEMMA AskWorkspaceStep ==
  ASSUME ConnectionInv, ResolveInv, NEW c \in Call, AskWorkspace(c)
  PROVE  ResolveInv'
<1> DEFINE stage == IF governance[In(c)].flag THEN "list catalogue" ELSE "ask project"
           r == [resolve[c] EXCEPT !.stage = stage, !.found = resolve[c].found]
<1>1. Resolves(c, "ask workspace") /\ Goes(c, stage) /\ Asks
  BY DEF AskWorkspace
<1>2. /\ resolve[c] \in Resolve /\ resolve[c].stage = "ask workspace"
      /\ access[c].phase = "connected" /\ access[c].job.op = "resolve"
      /\ Governed(governance[In(c)], types[In(c)]) /\ NotFound(resolve[c], types[In(c)])
  BY <1>1, Standing DEF At
<1>3. r.stage = stage /\ r.overtaken = resolve[c].overtaken /\ stage \in Stages
  BY <1>2 DEF Resolve, Stages
<1> HIDE DEF r
<1>4. Found(r, access[c], governance[In(c)], types[In(c)])
  BY <1>2, <1>3 DEF Found, Governed
<1>5. NotFound(r, types[In(c)])
  BY <1>2, <1>3 DEF NotFound, Absent
<1> HIDE DEF stage
<1> QED BY <1>1, <1>3, <1>4, <1>5, GoesStep DEF r

LEMMA AskProjectStep ==
  ASSUME ConnectionInv, ResolveInv, NEW c \in Call, AskProject(c)
  PROVE  ResolveInv'
<1> DEFINE stage == IF governance[In(c)].enabled THEN "create" ELSE "enable"
           r == [resolve[c] EXCEPT !.stage = stage, !.found = resolve[c].found]
<1>1. Resolves(c, "ask project") /\ Goes(c, stage) /\ Asks
  BY DEF AskProject
<1>2. /\ resolve[c] \in Resolve /\ resolve[c].stage = "ask project"
      /\ access[c].phase = "connected" /\ access[c].job.op = "resolve"
      /\ NotFound(resolve[c], types[In(c)])
  BY <1>1, Standing DEF At
<1>3. r.stage = stage /\ r.overtaken = resolve[c].overtaken /\ stage \in Stages
  BY <1>2 DEF Resolve, Stages
<1> HIDE DEF r
<1>4. Found(r, access[c], governance[In(c)], types[In(c)])
  BY <1>2, <1>3 DEF Found
<1>5. NotFound(r, types[In(c)])
  BY <1>2, <1>3 DEF NotFound, Absent
<1> HIDE DEF stage
<1> QED BY <1>1, <1>3, <1>4, <1>5, GoesStep DEF r

\* Enabling types in the project takes nothing away.
LEMMA EnableStep ==
  ASSUME ConnectionInv, ResolveInv, NEW c \in Call, Enable(c)
  PROVE  ResolveInv'
<1> DEFINE w == In(c)
<1>1. Resolves(c, "enable") /\ UNCHANGED types
  BY DEF Enable
<1>2. /\ w \in Workspace /\ resolve[c] \in Resolve /\ resolve[c].stage = "enable"
      /\ access[c].phase = "connected" /\ access[c].job.op = "resolve"
      /\ NotFound(resolve[c], types[w]) /\ governance[w] \in Governance
  BY <1>1, Standing DEF At
<1>3. CASE governance[w].locked
  <2> DEFINE r == [resolve[c] EXCEPT !.stage = "list catalogue", !.found = resolve[c].found]
  <2>1. Goes(c, "list catalogue") /\ Asks
    BY <1>1, <1>3 DEF Enable, Asks
  <2>2. r.stage = "list catalogue" /\ r.overtaken = resolve[c].overtaken /\ "list catalogue" \in Stages
    BY <1>2 DEF Resolve, Stages
  <2> HIDE DEF r
  <2>3. Found(r, access[c], governance[w], types[w])
    BY <1>2, <1>3, <2>2 DEF Found
  <2>4. NotFound(r, types[w])
    BY <1>2, <2>2 DEF NotFound, Absent
  <2> QED BY <1>1, <2>1, <2>2, <2>3, <2>4, GoesStep DEF r
<1>4. CASE ~ governance[w].locked
  <2>1. governance' = [governance EXCEPT ![w].enabled = TRUE]
        /\ ((Goes(c, "create") /\ UNCHANGED connectionVars) \/ Ends(c))
    BY <1>4 DEF Enable
  <2>2. governance' \in [Workspace -> Governance]
        /\ \A v \in Workspace : governance'[v].locked = governance[v].locked /\ governance'[v].flag = governance[v].flag
    BY <2>1, ResolveTyped DEF Governance
  <2>3. \A v \in Workspace : Grows(governance[v], governance'[v], types[v], types'[v]) /\ Governed(governance'[v], types'[v])
    BY <1>1, <2>2 DEF Grows, Governed, ResolveInv
  <2>4. PICK r \in Resolve : resolve' = [resolve EXCEPT ![c] = r] /\ (r = NoResolve \/
          (UNCHANGED connectionVars /\ r = [resolve[c] EXCEPT !.stage = "create", !.found = resolve[c].found]))
    <3>1. CASE Goes(c, "create") /\ UNCHANGED connectionVars
      <4>1. [resolve[c] EXCEPT !.stage = "create", !.found = resolve[c].found] \in Resolve
        BY <1>2 DEF Resolve, Stages
      <4>2. resolve' = [resolve EXCEPT ![c] = [resolve[c] EXCEPT !.stage = "create", !.found = resolve[c].found]]
        BY <3>1, ResolveTyped DEF Goes, Moves
      <4> QED BY <3>1, <4>1, <4>2
    <3>2. CASE Ends(c)
      BY <3>2, NoResolveTyped DEF Ends
    <3> QED BY <2>1, <3>1, <3>2
  <2>5. \A d \in Call \ {c} : access'[d] = access[d]
    BY <2>1, ReturnAlone DEF connectionVars, Ends
  <2>6. ResolveTypeOK'
    BY <1>1, <2>2, <2>4, ResolveTyped DEF ResolveTypeOK, Governance, Types, Resolve
  <2>7. ASSUME NEW d \in Call PROVE Knows(d)'
    <3>1. CASE d # c
      <4>1. resolve'[d] = resolve[d] /\ access'[d] = access[d]
        BY <2>4, <2>5, <3>1, ResolveTyped
      <4>2. Steady(types[In(d)], types'[In(d)])
        BY <1>1, GrowsReflexive
      <4> QED BY <2>3, <4>1, <4>2, OthersKnow
    <3>2. CASE d = c /\ r = NoResolve
      <4>1. resolve'[c].stage = "list"
        BY <2>4, <3>2, NoResolveTyped, ResolveTyped
      <4> QED BY <3>2, <4>1, NothingKnown DEF Knows
    <3>3. CASE d = c /\ r # NoResolve
      <4>1. access' = access /\ r = [resolve[c] EXCEPT !.stage = "create", !.found = resolve[c].found]
        BY <2>4, <3>3 DEF connectionVars
      <4>2. resolve'[c].stage = "create" /\ resolve'[c].overtaken = resolve[c].overtaken
        BY <1>2, <2>4, <4>1, ResolveTyped DEF Resolve
      <4>3. In(c)' = In(c) /\ types' = types
        BY <1>1, <4>1 DEF In
      <4>4. Found(resolve'[c], access[c], governance'[w], types[w])
        BY <1>2, <4>2 DEF Found
      <4>5. NotFound(resolve'[c], types[w])
        BY <1>2, <4>2 DEF NotFound, Absent
      <4> QED BY <3>3, <4>1, <4>3, <4>4, <4>5 DEF Knows, ResolveKnown
    <3> QED BY <3>1, <3>2, <3>3
  <2> QED BY <2>3, <2>6, <2>7 DEF ResolveInv
<1> QED BY <1>3, <1>4

LEMMA CreateStep ==
  ASSUME ConnectionInv, ResolveInv, NEW c \in Call, Create(c)
  PROVE  ResolveInv'
<1>1. Resolves(c, "create")
  BY DEF Create
<1>2. CASE governance[In(c)].locked
  BY <1>2, EndsStep DEF Create
<1>3. CASE ~ governance[In(c)].locked
  <2>1. Makes(c, "project", "done")
    BY <1>3 DEF Create
  <2> QED BY <1>1, <2>1, MakesStep
<1> QED BY <1>2, <1>3

LEMMA ListCatalogueStep ==
  ASSUME ConnectionInv, ResolveInv, NEW c \in Call, ListCatalogue(c)
  PROVE  ResolveInv'
<1>1. Resolves(c, "list catalogue") /\ Finds(c, types[In(c)].catalogue, "import", "add") /\ Asks
  BY DEF ListCatalogue
<1>2. /\ types[In(c)].catalogue \in SUBSET Type /\ types[In(c)].project \in SUBSET Type
      /\ resolve[c] \in Resolve /\ resolve[c].stage = "list catalogue"
      /\ access[c].phase = "connected" /\ access[c].job.op = "resolve"
      /\ governance[In(c)].locked /\ NotFound(resolve[c], types[In(c)])
  BY <1>1, Standing DEF Types, At, Found
<1>3. ASSUME NEW t \in types[In(c)].catalogue
      PROVE  LET r == [resolve[c] EXCEPT !.stage = "import", !.found = t] IN
             Found(r, access[c], governance[In(c)], types[In(c)]) /\ NotFound(r, types[In(c)])
  BY <1>2 DEF Resolve, Found, NotFound, Absent
<1>4. ASSUME types[In(c)].catalogue = {}
      PROVE  LET r == [resolve[c] EXCEPT !.stage = "add", !.found = resolve[c].found] IN
             Found(r, access[c], governance[In(c)], types[In(c)]) /\ NotFound(r, types[In(c)])
  BY <1>2, <1>4 DEF Resolve, Found, NotFound, Absent
<1>5. "import" \in Stages /\ "add" \in Stages
  BY DEF Stages
<1> QED BY <1>1, <1>2, <1>3, <1>4, <1>5, FindsStep

LEMMA AddToCatalogueStep ==
  ASSUME ConnectionInv, ResolveInv, NEW c \in Call, AddToCatalogue(c)
  PROVE  ResolveInv'
<1>1. Resolves(c, "add") /\ Makes(c, "catalogue", "import")
  BY DEF AddToCatalogue
<1>2. governance[In(c)].locked
  BY <1>1, Standing DEF Found
<1> QED BY <1>1, <1>2, MakesStep

LEMMA ImportStep ==
  ASSUME ConnectionInv, ResolveInv, NEW c \in Call, Import(c)
  PROVE  ResolveInv'
<1> DEFINE w == In(c)
           u == With(types[w], "project", resolve[c].found)
<1>1. Resolves(c, "import") /\ UNCHANGED governance
      /\ ((Goes(c, "done") /\ UNCHANGED connectionVars) \/ Ends(c))
  BY DEF Import
<1>2. /\ w \in Workspace /\ resolve[c] \in Resolve /\ resolve[c].stage = "import"
      /\ access[c].phase = "connected" /\ access[c].job.op = "resolve"
      /\ resolve[c].found \in types[w].catalogue /\ types[w] \in Types
  BY <1>1, Standing DEF At, Found
<1>3. types' = [types EXCEPT ![w] = u]
  BY DEF Import
<1>4. u \in Types /\ u.catalogue = types[w].catalogue /\ u.project = types[w].project \cup {resolve[c].found}
  <2>1. resolve[c].found \in Type
    BY <1>2 DEF Types
  <2> QED BY <1>2, <2>1, WithTyped
<1> HIDE DEF u
<1>5. types' \in [Workspace -> Types] /\ types'[w] = u /\ \A v \in Workspace : v # w => types'[v] = types[v]
  BY <1>2, <1>3, <1>4, ResolveTyped
<1>6. \A v \in Workspace : Steady(types[v], types'[v])
  BY <1>2, <1>4, <1>5 DEF Steady
<1>7. \A v \in Workspace : Grows(governance[v], governance'[v], types[v], types'[v]) /\ Governed(governance'[v], types'[v])
  BY <1>1, <1>4, <1>5 DEF Grows, Governed, ResolveInv
<1>8. PICK r \in Resolve : resolve' = [resolve EXCEPT ![c] = r] /\ (r = NoResolve \/
        (UNCHANGED connectionVars /\ r = [resolve[c] EXCEPT !.stage = "done", !.found = resolve[c].found]))
  <2>1. CASE Goes(c, "done") /\ UNCHANGED connectionVars
    <3>1. [resolve[c] EXCEPT !.stage = "done", !.found = resolve[c].found] \in Resolve
      BY <1>2 DEF Resolve, Stages
    <3>2. resolve' = [resolve EXCEPT ![c] = [resolve[c] EXCEPT !.stage = "done", !.found = resolve[c].found]]
      BY <2>1, ResolveTyped DEF Goes, Moves
    <3> QED BY <2>1, <3>1, <3>2
  <2>2. CASE Ends(c)
    BY <2>2, NoResolveTyped DEF Ends
  <2> QED BY <1>1, <2>1, <2>2
<1>9. \A d \in Call \ {c} : access'[d] = access[d]
  BY <1>1, ReturnAlone DEF connectionVars, Ends
<1>10. ResolveTypeOK'
  BY <1>1, <1>5, <1>8, ResolveTyped DEF ResolveTypeOK, Governance, Types, Resolve
<1>11. ASSUME NEW d \in Call PROVE Knows(d)'
  <2>1. CASE d # c
    <3>1. resolve'[d] = resolve[d] /\ access'[d] = access[d]
      BY <1>8, <1>9, <2>1, ResolveTyped
    <3>2. resolve[d].stage # "list" => Steady(types[In(d)], types'[In(d)])
      BY <1>6, InWorkspace DEF ResolveInv, Knows, ResolveKnown, Found, At
    <3> QED BY <1>7, <3>1, <3>2, OthersKnow
  <2>2. CASE d = c /\ r = NoResolve
    <3>1. resolve'[c].stage = "list"
      BY <1>8, <2>2, NoResolveTyped, ResolveTyped
    <3> QED BY <2>2, <3>1, NothingKnown DEF Knows
  <2>3. CASE d = c /\ r # NoResolve
    <3>1. access' = access /\ r = [resolve[c] EXCEPT !.stage = "done", !.found = resolve[c].found]
      BY <1>8, <2>3 DEF connectionVars
    <3>2. resolve'[c].stage = "done" /\ resolve'[c].found = resolve[c].found
      BY <1>2, <1>8, <3>1, ResolveTyped DEF Resolve
    <3>3. In(c)' = w /\ types'[w] = u
      BY <1>5, <3>1 DEF In
    <3>4. Found(resolve'[c], access[c], governance'[w], u)
      BY <1>2, <1>4, <3>2 DEF Found
    <3>5. NotFound(resolve'[c], u)
      BY <3>2 DEF NotFound, Absent
    <3> QED BY <2>3, <3>1, <3>3, <3>4, <3>5 DEF Knows, ResolveKnown
  <2> QED BY <2>1, <2>2, <2>3
<1> QED BY <1>7, <1>10, <1>11 DEF ResolveInv

LEMMA ResolveStepInductive ==
  ASSUME ConnectionInv, ResolveInv, NEW c \in Call, ResolveStep(c)
  PROVE  ResolveInv'
<1>1. CASE Fails(c)
  BY <1>1, EndsStep DEF Fails
<1> QED BY <1>1, ListStep, AskWorkspaceStep, AskProjectStep, EnableStep, CreateStep, ListCatalogueStep,
           AddToCatalogueStep, ImportStep DEF ResolveStep

\* The workspace takes types over, toggles the flag, or its project enables types.
LEMMA GovernStep ==
  ASSUME ConnectionInv, ResolveInv, NEW w \in Workspace, Govern(w)
  PROVE  ResolveInv'
<1>1. UNCHANGED <<types, resolve, access>>
  BY DEF Govern, connectionVars
<1>2. governance' \in [Workspace -> Governance]
      /\ \A v \in Workspace : /\ governance[v].locked => governance'[v].locked
                              /\ governance'[v].flag => governance[v].flag \/ governance[v].locked
  <2>1. governance \in [Workspace -> Governance]
    BY ResolveTyped
  <2>2. CASE Lock(w)
    BY <2>1, <2>2 DEF Lock, Governance
  <2>3. CASE Toggle(w)
    BY <2>1, <2>3 DEF Toggle, Governance
  <2>4. CASE EnableElsewhere(w)
    BY <2>1, <2>4 DEF EnableElsewhere, Governance
  <2> QED BY <2>2, <2>3, <2>4 DEF Govern
<1>3. \A v \in Workspace : Grows(governance[v], governance'[v], types[v], types'[v]) /\ Governed(governance'[v], types'[v])
  BY <1>1, <1>2 DEF Grows, Governed, ResolveInv
<1>4. ResolveTypeOK'
  BY <1>1, <1>2, ResolveTyped DEF ResolveTypeOK, Governance, Types, Resolve
<1>5. ASSUME NEW d \in Call PROVE Knows(d)'
  BY <1>1, <1>3, GrowsReflexive, OthersKnow
<1> QED BY <1>3, <1>4, <1>5 DEF ResolveInv

\* What the rest of the server does leaves the calls that resolve alone.
LEMMA BystanderStep ==
  ASSUME ConnectionInv, ResolveInv, UNCHANGED resolveVars,
         \A d \in Call : resolve[d].stage # "list" => access'[d] = access[d]
  PROVE  ResolveInv'
<1>1. governance' = governance /\ types' = types /\ resolve' = resolve
  BY DEF resolveVars
<1>2. \A w \in Workspace : Grows(governance[w], governance'[w], types[w], types'[w])
  BY <1>1, GrowsReflexive
<1>3. ASSUME NEW d \in Call PROVE Knows(d)'
  BY <1>1, <1>2, GrowsReflexive, OthersKnow
<1>4. ResolveTypeOK' /\ \A w \in Workspace : Governed(governance[w], types[w])'
  BY <1>1 DEF ResolveInv, ResolveTypeOK
<1> QED BY <1>3, <1>4 DEF ResolveInv

LEMMA ResolveInductive ==
  ASSUME ConnectionInv, ResolveInv, [Next]_vars
  PROVE  ResolveInv'
<1>1. \A d \in Call : resolve[d].stage # "list" => access[d].phase = "connected" /\ access[d].job.op = "resolve"
  BY DEF ResolveInv, Knows, ResolveKnown, Found
<1>2. ASSUME UNCHANGED <<access, resolveVars>> PROVE ResolveInv'
  BY <1>2, BystanderStep
<1>3. ASSUME NEW c \in Call, UNCHANGED resolveVars, \A d \in Call \ {c} : access'[d] = access[d],
             access[c].phase = "connected" => access[c].job.op # "resolve"
      PROVE  ResolveInv'
  BY <1>1, <1>3, BystanderStep
<1>4. CASE UNCHANGED vars
  BY <1>2, <1>4 DEF vars, connectionVars
<1>5. CASE Elsewhere
  <2>1. CASE (Refresh \/ End) /\ UNCHANGED <<editVars, resolveVars>>
    BY <1>2, <2>1 DEF Refresh, End
  <2>2. ASSUME NEW c \in Call, At(c, "connected"), Govern(In(c)) PROVE ResolveInv'
    BY <2>2, InWorkspace, GovernStep
  <2> QED BY <1>5, <2>1, <2>2 DEF Elsewhere
<1>6. ASSUME NEW c \in Call, Serve(c) PROVE ResolveInv'
  <2>1. CASE ConnectionStep(c) /\ UNCHANGED <<editVars, resolveVars>>
    <3>1. access[c].phase # "connected"
      BY <2>1 DEF ConnectionStep, Verify, NoToken, VerifyKey, VerifyPlaneToken, Validate, Map, Identify,
                  Inject, Connect, At
    <3>2. \A d \in Call \ {c} : access'[d] = access[d]
      <4>1. PICK a \in Access : access' = [access EXCEPT ![c] = a]
        BY <2>1, ConnectionOwn DEF Own
      <4> QED BY <4>1 DEF ConnectionInv, ConnectionTypeOK
    <3> QED BY <1>3, <2>1, <3>1, <3>2
  <2>2. CASE EditStep(c) /\ UNCHANGED resolveVars
    <3>1. UNCHANGED connectionVars \/ (Edits(c) /\ Return(c))
      BY <2>2 DEF EditStep, ReadItem, SendItem, Answered, GiveUp, WrittenLate, Lost, Abandoned
    <3>2. CASE UNCHANGED connectionVars
      BY <1>2, <2>2, <3>2 DEF connectionVars
    <3>3. CASE Edits(c) /\ Return(c)
      BY <1>3, <2>2, <3>3, ReturnAlone DEF Edits
    <3> QED BY <3>1, <3>2, <3>3
  <2>3. CASE ResolveStep(c)
    BY <2>3, ResolveStepInductive
  <2>4. CASE At(c, "refused") /\ Return(c) /\ UNCHANGED <<editVars, resolveVars>>
    BY <1>3, <2>4, ReturnAlone DEF At
  <2> QED BY <1>6, <2>1, <2>2, <2>3, <2>4 DEF Serve
<1> QED BY <1>4, <1>5, <1>6 DEF Next

LEMMA ResolveInitial == Init => ResolveInv
<1> SUFFICES ASSUME Init PROVE ResolveInv
  OBVIOUS
<1>1. /\ governance = [w \in Workspace |-> [locked |-> FALSE, flag |-> FALSE, enabled |-> FALSE]]
      /\ types = [w \in Workspace |-> [catalogue |-> {}, project |-> {}]]
      /\ resolve = [c \in Call |-> NoResolve]
  BY DEF Init, ResolveInit
<1>2. ResolveTypeOK
  BY <1>1, NoResolveTyped DEF ResolveTypeOK, Resolve
<1>3. ASSUME NEW w \in Workspace PROVE Governed(governance[w], types[w])
  BY <1>1 DEF Governed
<1>4. ASSUME NEW c \in Call PROVE Knows(c)
  BY <1>1, NoResolveTyped, NothingKnown DEF Knows
<1> QED BY <1>2, <1>3, <1>4 DEF ResolveInv

LEMMA ResolveInvariant == Spec => [](ConnectionInv /\ EditInv /\ ResolveInv)
<1>1. ConnectionInv /\ EditInv /\ ResolveInv /\ [Next]_vars => (ConnectionInv /\ EditInv /\ ResolveInv)'
  BY ConnectionInductive, EditInductive, ResolveInductive
<1> QED BY <1>1, ConnectionInitial, EditInitial, ResolveInitial, PTL DEF Spec

(***************************************************************************)
(* Server is well typed, for any number of calls, workspaces and requests. *)
(***************************************************************************)
THEOREM TypeCorrect == Spec => []TypeOK
<1>1. ConnectionInv /\ EditInv /\ ResolveInv => TypeOK
  BY DEF ConnectionInv, EditInv, ResolveInv, TypeOK
<1> QED BY <1>1, ResolveInvariant, PTL

(***************************************************************************)
(* The type resolve answers with is one of its project, whoever owns types *)
(* and however that changes between its requests.                          *)
(***************************************************************************)
THEOREM ResolvedIsUsableCorrect == Spec => []ResolvedIsUsable
<1>1. ConnectionInv /\ ResolveInv => ResolvedIsUsable
  BY Standing DEF Found, ResolvedIsUsable
<1> QED BY <1>1, ResolveInvariant, PTL

(***************************************************************************)
(* resolve makes no second type of the name, but where another call has    *)
(* made one since it looked, as long as it sees all types of its project.  *)
(***************************************************************************)
THEOREM NoSecondTypeCorrect ==
  ASSUME ~ Paged
  PROVE  Spec => NoSecondType
<1> DEFINE Second(w) == \E c \in Call : In(c) = w /\ resolve[c].overtaken /\ resolve'[c] # resolve[c]
           Once == \A w \in Workspace : Of(w) # {} /\ Of(w)' # Of(w) => Second(w)
<1>1. ASSUME ConnectionInv, ResolveInv, NEW w \in Workspace, NEW c \in Call, NEW before \in {"create", "add"},
             NEW scope \in {"catalogue", "project"}, NEW stage \in {"import", "done"},
             Resolves(c, before), Makes(c, scope, stage), Of(w) # {}, Of(w)' # Of(w),
             before = "create" => ~ governance[In(c)].locked
      PROVE  Second(w)
  <2>1. In(c) \in Workspace /\ NotFound(resolve[c], types[In(c)]) /\ Governed(governance[In(c)], types[In(c)])
        /\ resolve[c].stage = before
    BY <1>1, Standing
  <2>2. In(c) = w
    <3>1. PICK t \in Type : types' = [types EXCEPT ![In(c)] = With(@, scope, t)]
      BY <1>1 DEF Makes
    <3>2. In(c) # w => types'[w] = types[w]
      BY <1>1, <3>1, ResolveTyped
    <3> QED BY <1>1, <3>2 DEF Of
  <2>3. resolve[c].overtaken
    BY <1>1, <2>1, <2>2 DEF NotFound, Absent, Governed, Of
  <2>4. resolve'[c] # resolve[c]
    <3>1. resolve'[c].stage \in {stage, "list"}
      <4> DEFINE overtakes == [d \in Call |-> [resolve[d] EXCEPT
                   !.overtaken = @ \/ (At(d, "connected") /\ In(d) = In(c) /\ resolve[d].stage # "list")]]
      <4>1. PICK t \in Type :
              \/ resolve' = [overtakes EXCEPT ![c] = [resolve[c] EXCEPT !.stage = stage, !.found = t]]
              \/ resolve' = [overtakes EXCEPT ![c] = NoResolve]
        BY <1>1 DEF Makes
      <4>2. DOMAIN overtakes = Call
        OBVIOUS
      <4> HIDE DEF overtakes
      <4>3. resolve'[c] = [resolve[c] EXCEPT !.stage = stage, !.found = t] \/ resolve'[c] = NoResolve
        BY <4>1, <4>2
      <4>4. [resolve[c] EXCEPT !.stage = stage, !.found = t].stage = stage
        BY <1>1, ResolveTyped DEF Resolve
      <4> QED BY <4>3, <4>4, NoResolveTyped
    <3> QED BY <1>1, <2>1, <3>1
  <2> QED BY <2>2, <2>3, <2>4
<1>2. ASSUME ConnectionInv, ResolveInv, [Next]_vars, types' # types, NEW w \in Workspace, Of(w) # {}, Of(w)' # Of(w)
      PROVE  Second(w)
  <2>1. PICK c \in Call : Create(c) \/ AddToCatalogue(c) \/ Import(c)
    BY <1>2 DEF Next, Elsewhere, Govern, Serve, ResolveStep, List, AskWorkspace, AskProject, Enable, ListCatalogue,
                Fails, Asks, vars, resolveVars
  <2>2. CASE Create(c)
    <3>1. Resolves(c, "create") /\ ~ governance[In(c)].locked /\ Makes(c, "project", "done")
      BY <1>2, <2>2 DEF Create
    <3> QED BY <1>1, <1>2, <3>1
  <2>3. CASE AddToCatalogue(c)
    BY <1>1, <1>2, <2>3 DEF AddToCatalogue
  <2>4. CASE Import(c)
    <3>1. In(c) \in Workspace /\ resolve[c].found \in types[In(c)].catalogue /\ types[In(c)] \in Types
      BY <1>2, <2>4, Standing DEF Import, Found
    <3>2. types' = [types EXCEPT ![In(c)] = With(@, "project", resolve[c].found)]
      BY <2>4 DEF Import
    <3>3. Of(w)' = Of(w)
      <4>1. CASE w = In(c)
        <5>1. types'[w] = With(types[w], "project", resolve[c].found)
          BY <1>2, <3>1, <3>2, <4>1, ResolveTyped
        <5>2. resolve[c].found \in Type
          BY <3>1 DEF Types
        <5>3. types'[w].catalogue = types[w].catalogue /\ types'[w].project = types[w].project \cup {resolve[c].found}
          BY <3>1, <4>1, <5>1, <5>2, WithTyped
        <5> QED BY <3>1, <4>1, <5>3 DEF Of
      <4>2. CASE w # In(c)
        <5>1. types'[w] = types[w]
          BY <1>2, <3>1, <3>2, <4>2, ResolveTyped
        <5> QED BY <5>1 DEF Of
      <4> QED BY <4>1, <4>2
    <3> QED BY <1>2, <3>3
  <2> QED BY <2>1, <2>2, <2>3, <2>4
<1>3. ConnectionInv /\ ResolveInv /\ [Next]_vars => [Once]_types
  BY <1>2
<1>4. [Once]_types => [\A w \in Workspace : Of(w) # {} /\ Of(w)' # Of(w) =>
        \E c \in Call : In(c) = w /\ resolve[c].overtaken /\ resolve'[c] # resolve[c]]_types
  OBVIOUS
<1> QED BY <1>3, <1>4, ResolveInvariant, PTL DEF Spec, NoSecondType
=============================================================================
