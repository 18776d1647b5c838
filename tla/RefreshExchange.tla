--------------------------- MODULE RefreshExchange ---------------------------
(***************************************************************************)
(* The client refresh grant on the Cognito path: moneta/cognito.py's       *)
(* load_refresh_token and exchange_refresh_token around FastMCP's own      *)
(* exchange, moneta/refresh.py's replay window, the per-session lock they  *)
(* share with FastMCP's transparent refresh, the OAuth stores (Valkey) and *)
(* Cognito's token endpoint.                                               *)
(*                                                                         *)
(* One asyncio event loop runs per replica, so everything between two      *)
(* awaits of the code is one action here.  The stores and Cognito are      *)
(* shared by the replicas; the lock and the replay window are not.         *)
(*                                                                         *)
(* A refresh token is a number in order of issue and names the pair of     *)
(* tokens it was issued in.  What Cognito's own refresh token is, is a     *)
(* generation number: cognito[s] is the one it honours, stored[s] the one  *)
(* the server holds.                                                       *)
(***************************************************************************)
EXTENDS ReplayCache, FiniteSets

CONSTANTS Request,       \* token requests in progress at once
          Background,    \* transparent refreshes in progress at once
          Replica,       \* server processes
          Client,        \* OAuth clients
          Session,       \* upstream token sets
          NoClient, NoSession, Nobody,
          Lifetime,      \* expires_in of an issued access token
          MaxToken,      \* bound on refresh tokens issued
          MaxUpstream,   \* bound on Cognito refresh token generations
          MaxTime,       \* bound on the clock
          UpstreamRotates,  \* Cognito rotates its refresh token on use
          AnswersLost,      \* a failed upstream call may have been acted on
          StoreFaults,      \* a call to an OAuth store may fail
          Crashes           \* a replica may restart

Token == 1..MaxToken
Worker == Request \cup Background

ASSUME RefreshAssumption ==
  /\ Request \cap Background = {} /\ Replica # {}
  /\ Nobody \notin Worker /\ NoClient \notin Client /\ NoSession \notin Session
  /\ Lifetime \in Nat /\ MaxToken \in Nat /\ MaxTime \in Nat
  /\ MaxUpstream \in Nat \ {0}
  /\ {UpstreamRotates, AnswersLost, StoreFaults, Crashes} \subseteq BOOLEAN

VARIABLES clock,     \* time.monotonic
          issued,    \* number of refresh tokens issued so far
          metadata,  \* _refresh_token_store: the client of a token, while it may be presented
          mapping,   \* _jti_mapping_store: the session of a token, while it may be exchanged
          stored,    \* _upstream_token_store: Cognito's refresh token, 0 before sign-in
          owner,     \* the client recorded in the upstream token set
          cognito,   \* the refresh token Cognito honours for the session, 0 once revoked
          task,      \* what each worker is doing
          lock,      \* _get_refresh_lock: the holder, per replica and session
          recent,    \* _recent_refreshes, per replica
          handed,    \* the refresh tokens some client was sent
          origin,    \* history: the session a token was issued for
          parent     \* history: the token it was exchanged for, 0 at sign-in

stores == <<metadata, mapping, stored, owner>>
history == <<origin, parent>>
vars == <<clock, issued, stores, cognito, task, lock, recent, handed, history>>

(***************************************************************************)
(* A worker: where it is between awaits, at which replica, for which       *)
(* client, token and session, whether it took the lock, Cognito's refresh  *)
(* token it sent or was given, the token it issued, the exception it       *)
(* failed with, and its answer.                                            *)
(***************************************************************************)
Steps == {"idle", "load", "resolve", "queue", "exchange", "upstream", "save",
          "issue", "rotate", "register", "retire", "record", "failed", "done"}

Answers == {"none", "tokens", "invalid_grant", "unavailable", "server_error"}

\* unmapped: FastMCP no longer has the token's session; rejected: Cognito
\* refuses its refresh token; transient: a transport error, a 5xx or a 429;
\* other: any other failure of the upstream call (an answer that is not JSON,
\* another 4xx, an error of the library); store: a store call raised.
UpstreamCauses == {"rejected", "transient", "other"}
Causes == {"none", "unmapped", "store"} \cup UpstreamCauses

Task ==
  [pc : Steps, replica : Replica, client : Client \cup {NoClient}, token : 0..MaxToken,
   session : Session \cup {NoSession}, locked : BOOLEAN, rt : 0..MaxUpstream,
   fresh : 0..MaxToken, cause : Causes, answer : Answers]

Home == CHOOSE p \in Replica : TRUE

Idle(p) ==
  [pc |-> "idle", replica |-> p, client |-> NoClient, token |-> 0,
   session |-> NoSession, locked |-> FALSE, rt |-> 0, fresh |-> 0, cause |-> "none",
   answer |-> "none"]

\* What a worker knows at each step.
Fits(w, t) ==
  /\ w \in Request /\ t.pc # "idle" => t.token \in Token /\ t.client \in Client
  /\ w \in Background => t.pc \in {"idle", "queue", "upstream", "save", "failed"}
  /\ \/ t.locked
     \/ t.pc \in {"queue", "upstream", "save", "issue", "rotate", "register", "retire", "record"}
     => t.session \in Session
  /\ t.locked => t.pc \notin {"idle", "load", "resolve", "queue", "done"}
  /\ t.pc \in {"rotate", "register", "retire", "record"} => t.fresh \in Token

TypeOK ==
  /\ clock \in 0..MaxTime
  /\ issued \in 0..MaxToken
  /\ metadata \in [Token -> Client \cup {NoClient}]
  /\ mapping \in [Token -> Session \cup {NoSession}]
  /\ stored \in [Session -> 0..MaxUpstream]
  /\ owner \in [Session -> Client \cup {NoClient}]
  /\ cognito \in [Session -> 0..MaxUpstream]
  /\ task \in [Worker -> Task] /\ \A w \in Worker : Fits(w, task[w])
  /\ lock \in [Replica -> [Session -> Worker \cup {Nobody}]]
  /\ recent \in [Replica -> Seq(Replay(Token, Client))]
  /\ handed \in SUBSET Token
  /\ origin \in [Token -> Session \cup {NoSession}]
  /\ parent \in [Token -> 0..MaxToken]

Init ==
  /\ clock = 0
  /\ issued = 0
  /\ metadata = [t \in Token |-> NoClient]
  /\ mapping = [t \in Token |-> NoSession]
  /\ stored = [s \in Session |-> 0]
  /\ owner = [s \in Session |-> NoClient]
  /\ cognito = [s \in Session |-> 0]
  /\ task = [w \in Worker |-> Idle(Home)]
  /\ lock = [p \in Replica |-> [s \in Session |-> Nobody]]
  /\ recent = [p \in Replica |-> <<>>]
  /\ handed = {}
  /\ origin = [t \in Token |-> NoSession]
  /\ parent = [t \in Token |-> 0]

-----------------------------------------------------------------------------
At(w, step) == task[w].pc = step
Becomes(w, t) == task' = [task EXCEPT ![w] = t]
Goto(w, step) == Becomes(w, [task[w] EXCEPT !.pc = step])

Answered(t, kind, n) ==
  [pc |-> "done", replica |-> t.replica, client |-> t.client, token |-> t.token,
   session |-> NoSession, locked |-> FALSE, rt |-> 0, fresh |-> n, cause |-> t.cause,
   answer |-> kind]

(***************************************************************************)
(* _exchange_with_upstream catches what FastMCP's exchange raised.  A      *)
(* TokenError whose cause is transient becomes UpstreamRefreshUnavailable  *)
(* (503); any other TokenError, invalid_grant, is raised again, and so is  *)
(* an exception that is no TokenError, which ends in a 500.                *)
(***************************************************************************)
\* Every upstream error is taken for a rejection.
AnswerAsRejection(cause) == IF cause = "store" THEN "server_error" ELSE "invalid_grant"

AnswerTo(cause) ==
  CASE cause = "transient" -> "unavailable"
    [] cause = "store"     -> "server_error"
    [] OTHER               -> "invalid_grant"

Raised(t, cause) ==
  [t EXCEPT !.pc = "failed", !.cause = cause, !.answer = AnswerTo(cause)]

\* The worker leaves the async with block, if it was in one.
Released(w) ==
  IF task[w].locked
  THEN [lock EXCEPT ![task[w].replica][task[w].session] = Nobody]
  ELSE lock

(***************************************************************************)
(* _replayed_tokens: the newest pair issued from the presented token's     *)
(* rotation chain is the answer; without one the request goes on.  Every   *)
(* lookup purges the expired entries of its replica.                       *)
(***************************************************************************)
ReplayFor(t) == Replayed(recent[t.replica], t.token, t.client, clock)

ReplayOr(r, t, step) ==
  /\ recent' = [recent EXCEPT ![t.replica] = Purged(@, clock)]
  /\ \/ /\ ReplayFor(t) = {}
        /\ Becomes(r, [t EXCEPT !.pc = step])
     \/ \E m \in ReplayFor(t) : Becomes(r, Answered(t, "tokens", m.next))

\* The bound on tokens: one is set aside for every request past its grant.
Issuing == {r \in Request : task[r].pc \in {"save", "issue"}}
TokensLeft == issued < MaxToken /\ issued + Cardinality(Issuing) < MaxToken

(***************************************************************************)
(* The authorization-code exchange of FastMCP: a session is stored and its *)
(* first refresh token issued.                                             *)
(***************************************************************************)
SignIn(s, c) ==
  /\ owner[s] = NoClient
  /\ TokensLeft
  /\ issued' = issued + 1
  /\ metadata' = [metadata EXCEPT ![issued + 1] = c]
  /\ mapping' = [mapping EXCEPT ![issued + 1] = s]
  /\ stored' = [stored EXCEPT ![s] = 1]
  /\ owner' = [owner EXCEPT ![s] = c]
  /\ cognito' = [cognito EXCEPT ![s] = 1]
  /\ handed' = handed \cup {issued + 1}
  /\ origin' = [origin EXCEPT ![issued + 1] = s]
  /\ UNCHANGED <<clock, task, lock, recent, parent>>

(***************************************************************************)
(* POST /token with grant_type refresh_token reaches load_refresh_token,   *)
(* whose replay check is synchronous.  On a hit the handler goes on, still *)
(* without an await, to the same check at the head of                      *)
(* exchange_refresh_token, which answers.                                  *)
(***************************************************************************)
Present(r, p, c, t) ==
  /\ At(r, "idle")
  /\ t \in handed
  /\ ReplayOr(r, [Idle(p) EXCEPT !.client = c, !.token = t], "load")
  /\ UNCHANGED <<clock, issued, stores, cognito, lock, handed, history>>

(***************************************************************************)
(* The store answers super().load_refresh_token.  A token it does not hold *)
(* for this client is invalid_grant; otherwise exchange_refresh_token      *)
(* starts, with its replay check before the first await.                   *)
(***************************************************************************)
Load(r) ==
  /\ At(r, "load")
  /\ \/ /\ metadata[task[r].token] # task[r].client
        /\ Becomes(r, Answered(task[r], "invalid_grant", 0))
        /\ UNCHANGED recent
     \/ /\ metadata[task[r].token] = task[r].client
        /\ ReplayOr(r, task[r], "resolve")
  /\ UNCHANGED <<clock, issued, stores, cognito, lock, handed, history>>

(***************************************************************************)
(* _upstream_token_id_of.  No mapping, or a read that raised, leads to an  *)
(* exchange that takes no lock and records no replay.                      *)
(***************************************************************************)
\* The early return for a token without a mapping is missing.
ResolveIntoQueue(r) ==
  /\ At(r, "resolve")
  /\ Becomes(r, [task[r] EXCEPT !.pc = "queue", !.session = mapping[task[r].token]])
  /\ UNCHANGED <<clock, issued, stores, cognito, lock, recent, handed, history>>

Resolve(r) ==
  /\ At(r, "resolve")
  /\ \/ /\ mapping[task[r].token] # NoSession
        /\ Becomes(r, [task[r] EXCEPT !.pc = "queue",
                                      !.session = mapping[task[r].token]])
     \/ /\ mapping[task[r].token] = NoSession \/ StoreFaults
        /\ Goto(r, "exchange")
  /\ UNCHANGED <<clock, issued, stores, cognito, lock, recent, handed, history>>

(***************************************************************************)
(* async with self._get_refresh_lock(...), and the check under the lock: a *)
(* request that waited for a sibling leaves with the sibling's tokens, the *)
(* lock released again before any other coroutine runs.                    *)
(***************************************************************************)
\* The lock is neither awaited nor taken.
AcquireWithoutLock(r) ==
  /\ At(r, "queue")
  /\ ReplayOr(r, task[r], "exchange")
  /\ UNCHANGED <<clock, issued, stores, cognito, lock, handed, history>>

\* The second look at the window, under the lock, is missing.
AcquireWithoutLook(r) ==
  /\ At(r, "queue")
  /\ lock[task[r].replica][task[r].session] = Nobody
  /\ Becomes(r, [task[r] EXCEPT !.pc = "exchange", !.locked = TRUE])
  /\ lock' = [lock EXCEPT ![task[r].replica][task[r].session] = r]
  /\ UNCHANGED <<clock, issued, stores, cognito, recent, handed, history>>

Acquire(r) ==
  /\ At(r, "queue")
  /\ lock[task[r].replica][task[r].session] = Nobody
  /\ ReplayOr(r, [task[r] EXCEPT !.locked = TRUE], "exchange")
  /\ lock' = IF ReplayFor(task[r]) = {}
             THEN [lock EXCEPT ![task[r].replica][task[r].session] = r]
             ELSE lock
  /\ UNCHANGED <<clock, issued, stores, cognito, handed, history>>

(***************************************************************************)
(* FastMCP's exchange_refresh_token begins: it reads the mapping and the   *)
(* token set itself and raises invalid_grant when one is gone; nothing is  *)
(* written before the upstream call.                                       *)
(***************************************************************************)
\* The grant is consumed before the upstream call.
ReadGrantConsuming(r) ==
  LET s == mapping[task[r].token]
  IN /\ At(r, "exchange")
     /\ Becomes(r, IF s = NoSession THEN Raised(task[r], "unmapped")
                   ELSE [task[r] EXCEPT !.pc = "upstream", !.session = s,
                                        !.rt = stored[s]])
     /\ mapping' = [mapping EXCEPT ![task[r].token] = NoSession]
     /\ UNCHANGED <<clock, issued, metadata, stored, owner, cognito, lock, recent, handed,
                    history>>

ReadGrant(r) ==
  LET s == mapping[task[r].token]
  IN /\ At(r, "exchange")
     /\ \/ /\ s = NoSession
           /\ Becomes(r, Raised(task[r], "unmapped"))
        \/ /\ s # NoSession
           /\ Becomes(r, [task[r] EXCEPT !.pc = "upstream", !.session = s,
                                         !.rt = stored[s]])
     /\ UNCHANGED <<clock, issued, stores, cognito, lock, recent, handed, history>>

(***************************************************************************)
(* FastMCP's transparent refresh, which _try_transparent_refresh wraps: a  *)
(* tool call found the session's access token expired.  It waits for the   *)
(* same lock, re-reads the token set under it, and either finds it renewed *)
(* meanwhile (or fails to read it) or refreshes upstream.                  *)
(***************************************************************************)
StartBackground(b, p, s) ==
  /\ At(b, "idle")
  /\ owner[s] # NoClient
  /\ Becomes(b, [Idle(p) EXCEPT !.pc = "queue", !.session = s])
  /\ UNCHANGED <<clock, issued, stores, cognito, lock, recent, handed, history>>

AcquireBackground(b) ==
  LET p == task[b].replica
      s == task[b].session
  IN /\ At(b, "queue")
     /\ lock[p][s] = Nobody
     /\ \/ /\ Becomes(b, Idle(Home))
           /\ UNCHANGED lock
        \/ /\ lock' = [lock EXCEPT ![p][s] = b]
           /\ Becomes(b, [task[b] EXCEPT !.pc = "upstream", !.locked = TRUE,
                                         !.rt = stored[s]])
     /\ UNCHANGED <<clock, issued, stores, cognito, recent, handed, history>>

(***************************************************************************)
(* Cognito's answer to the refresh grant.  A refresh token it no longer    *)
(* honours is rejected.  The call may also fail for a transient reason     *)
(* (is_transient_upstream_failure) or for any other; with AnswersLost      *)
(* Cognito may have rotated its token before the answer was lost.          *)
(***************************************************************************)
NextGeneration(s) ==
  IF UpstreamRotates THEN cognito[s] + 1 ELSE cognito[s]

UpstreamGrants(w) ==
  LET s == task[w].session
  IN /\ At(w, "upstream")
     /\ task[w].rt = cognito[s] /\ cognito[s] # 0
     /\ NextGeneration(s) <= MaxUpstream
     /\ w \in Request => TokensLeft
     /\ cognito' = [cognito EXCEPT ![s] = NextGeneration(s)]
     /\ Becomes(w, [task[w] EXCEPT !.pc = "save", !.rt = NextGeneration(s)])
     /\ UNCHANGED <<clock, issued, stores, lock, recent, handed, history>>

UpstreamRejects(w) ==
  /\ At(w, "upstream")
  /\ task[w].rt # cognito[task[w].session]
  /\ Becomes(w, Raised(task[w], "rejected"))
  /\ UNCHANGED <<clock, issued, stores, cognito, lock, recent, handed, history>>

UpstreamFails(w) ==
  LET s == task[w].session
  IN /\ At(w, "upstream")
     /\ \E cause \in {"transient", "other"} : Becomes(w, Raised(task[w], cause))
     /\ \/ UNCHANGED cognito
        \/ /\ AnswersLost
           /\ task[w].rt = cognito[s] /\ cognito[s] # 0
           /\ NextGeneration(s) <= MaxUpstream
           /\ cognito' = [cognito EXCEPT ![s] = NextGeneration(s)]
     /\ UNCHANGED <<clock, issued, stores, lock, recent, handed, history>>

(***************************************************************************)
(* The failure is logged, which awaits a session lookup of at most         *)
(* SESSION_LOOKUP_TIMEOUT_SECONDS while the lock is still held, and then   *)
(* answered as AnswerTo has it.  A transparent refresh raises to its tool  *)
(* call.                                                                   *)
(***************************************************************************)
\* The failed request keeps the lock.
FailHoldingLock(w) ==
  /\ At(w, "failed")
  /\ Becomes(w, IF w \in Request THEN Answered(task[w], task[w].answer, 0)
                ELSE Idle(Home))
  /\ UNCHANGED <<clock, issued, stores, cognito, lock, recent, handed, history>>

Fail(w) ==
  /\ At(w, "failed")
  /\ Becomes(w, IF w \in Request THEN Answered(task[w], task[w].answer, 0)
                ELSE Idle(Home))
  /\ lock' = Released(w)
  /\ UNCHANGED <<clock, issued, stores, cognito, recent, handed, history>>

(***************************************************************************)
(* FastMCP's writes after a grant, one store call each: the token set, the *)
(* new tokens' mapping, the presented token's mapping removed, the new     *)
(* token's metadata, the presented token's metadata removed.               *)
(***************************************************************************)
Save(w) ==
  /\ At(w, "save")
  /\ stored' = [stored EXCEPT ![task[w].session] = task[w].rt]
  /\ \/ /\ w \in Request
        /\ Goto(w, "issue")
        /\ UNCHANGED lock
     \/ /\ w \in Background
        /\ Becomes(w, Idle(Home))
        /\ lock' = Released(w)
  /\ UNCHANGED <<clock, issued, metadata, mapping, owner, cognito, recent, handed, history>>

Issue(r) ==
  /\ At(r, "issue")
  /\ issued < MaxToken
  /\ issued' = issued + 1
  /\ mapping' = [mapping EXCEPT ![issued + 1] = task[r].session]
  /\ origin' = [origin EXCEPT ![issued + 1] = task[r].session]
  /\ parent' = [parent EXCEPT ![issued + 1] = task[r].token]
  /\ Becomes(r, [task[r] EXCEPT !.pc = "rotate", !.fresh = issued + 1])
  /\ UNCHANGED <<clock, metadata, stored, owner, cognito, lock, recent, handed>>

Rotate(r) ==
  /\ At(r, "rotate")
  /\ mapping' = [mapping EXCEPT ![task[r].token] = NoSession]
  /\ Goto(r, "register")
  /\ UNCHANGED <<clock, issued, metadata, stored, owner, cognito, lock, recent, handed, history>>

Register(r) ==
  /\ At(r, "register")
  /\ metadata' = [metadata EXCEPT ![task[r].fresh] = task[r].client]
  /\ Goto(r, "retire")
  /\ UNCHANGED <<clock, issued, mapping, stored, owner, cognito, lock, recent, handed, history>>

Retire(r) ==
  /\ At(r, "retire")
  /\ metadata' = [metadata EXCEPT ![task[r].token] = NoClient]
  /\ Goto(r, "record")
  /\ UNCHANGED <<clock, issued, mapping, stored, owner, cognito, lock, recent, handed, history>>

(***************************************************************************)
(* The exchange returns: under the lock the rotation is recorded for       *)
(* replay, then the lock is released and the pair handed to the client.    *)
(***************************************************************************)
Rotation(r) ==
  [key |-> task[r].token, client |-> task[r].client, next |-> task[r].fresh,
   life |-> Lifetime, at |-> clock]

Record(r) ==
  LET p == task[r].replica
  IN /\ At(r, "record")
     /\ recent' = IF task[r].locked
                  THEN [recent EXCEPT ![p] = Recorded(@, Rotation(r), clock)]
                  ELSE recent
     /\ Becomes(r, Answered(task[r], "tokens", task[r].fresh))
     /\ lock' = Released(r)
     /\ handed' = handed \cup {task[r].fresh}
     /\ UNCHANGED <<clock, issued, stores, cognito, history>>

(***************************************************************************)
(* A store call raises: a read or a write that does not happen, or a write *)
(* that did happen and whose answer is lost, which is the failure of the   *)
(* step after it.  What FastMCP had written until then stays written.      *)
(* load_refresh_token lets it through; the exchange goes on to the handler *)
(* of its failures.  (Resolve swallows it and goes on without the lock.)   *)
(***************************************************************************)
Storing == {"exchange", "save", "issue", "rotate", "register", "retire", "record"}

StoreFails(w) ==
  /\ StoreFaults
  /\ \/ /\ At(w, "load")
        /\ Becomes(w, Answered(Raised(task[w], "store"), "server_error", 0))
     \/ /\ task[w].pc \in Storing
        /\ Becomes(w, Raised(task[w], "store"))
  /\ UNCHANGED <<clock, issued, stores, cognito, lock, recent, handed, history>>

\* The client has its answer; the worker is free for another request.
Finish(r) ==
  /\ At(r, "done")
  /\ Becomes(r, Idle(Home))
  /\ UNCHANGED <<clock, issued, stores, cognito, lock, recent, handed, history>>

-----------------------------------------------------------------------------
(***************************************************************************)
(* The surroundings: time passes, Cognito revokes a session, a replica     *)
(* restarts and loses its requests, its locks and its replay window.       *)
(***************************************************************************)
Tick ==
  /\ clock < MaxTime
  /\ clock' = clock + 1
  /\ UNCHANGED <<issued, stores, cognito, task, lock, recent, handed, history>>

Revoke(s) ==
  /\ cognito[s] # 0
  /\ cognito' = [cognito EXCEPT ![s] = 0]
  /\ UNCHANGED <<clock, issued, stores, task, lock, recent, handed, history>>

Crash(p) ==
  /\ Crashes
  /\ task' = [w \in Worker |-> IF task[w].replica = p THEN Idle(Home) ELSE task[w]]
  /\ lock' = [lock EXCEPT ![p] = [s \in Session |-> Nobody]]
  /\ recent' = [recent EXCEPT ![p] = <<>>]
  /\ UNCHANGED <<clock, issued, stores, cognito, handed, history>>

Exchange(r) ==
  \/ Load(r) \/ Resolve(r) \/ Acquire(r) \/ ReadGrant(r)
  \/ Issue(r) \/ Rotate(r) \/ Register(r) \/ Retire(r) \/ Record(r)

Upstream(w) == UpstreamGrants(w) \/ UpstreamRejects(w) \/ UpstreamFails(w)

Next ==
  \/ \E s \in Session, c \in Client : SignIn(s, c)
  \/ \E r \in Request :
       \/ \E p \in Replica, c \in Client, t \in Token : Present(r, p, c, t)
       \/ Exchange(r)
       \/ Finish(r)
  \/ \E b \in Background :
       \/ \E p \in Replica, s \in Session : StartBackground(b, p, s)
       \/ AcquireBackground(b)
  \/ \E w \in Worker : Upstream(w) \/ Save(w) \/ StoreFails(w) \/ Fail(w)
  \/ Tick
  \/ \E s \in Session : Revoke(s)
  \/ \E p \in Replica : Crash(p)

Spec == Init /\ [][Next]_vars

(***************************************************************************)
(* The event loop resumes every coroutine whose await has completed, every *)
(* store and upstream call completes or fails within its client's timeout, *)
(* and anyio's lock is handed over first come, first served.               *)
(***************************************************************************)
Fairness ==
  /\ \A r \in Request : WF_vars(Exchange(r)) /\ SF_vars(Acquire(r))
  /\ \A b \in Background : SF_vars(AcquireBackground(b))
  /\ \A w \in Worker : WF_vars(Upstream(w)) /\ WF_vars(Save(w)) /\ WF_vars(Fail(w))

FairSpec == Spec /\ Fairness

-----------------------------------------------------------------------------
(***************************************************************************)
(* Safety.                                                                 *)
(***************************************************************************)

(***************************************************************************)
(* However client refreshes, their duplicates and transparent refreshes    *)
(* interleave, a session has at most one upstream call and the save that   *)
(* follows it under way: exchange_refresh_token shares the lock of         *)
(* FastMCP's transparent refresh.                                          *)
(***************************************************************************)
OneUpstreamCall ==
  \A v, w \in Worker :
    /\ task[v].pc \in {"upstream", "save"} /\ task[w].pc \in {"upstream", "save"}
    /\ task[v].session = task[w].session
    => v = w

(***************************************************************************)
(* Nobody waits for Cognito's answer to a refresh token it has rotated     *)
(* away: what a worker read from the token set under the lock stays        *)
(* Cognito's current one, or is revoked, until the call returns.  Two      *)
(* racing refreshes never cost a session its grant.                        *)
(***************************************************************************)
NothingSpentIsPresented ==
  \A w \in Worker :
    At(w, "upstream") => cognito[task[w].session] \in {0, task[w].rt}

(***************************************************************************)
(* A client is only ever answered with tokens of a session it signed in to *)
(* itself, replays and chains of replays included.                         *)
(***************************************************************************)
AnswersStayWithTheirClient ==
  \A r \in Request :
    At(r, "done") /\ task[r].answer = "tokens" =>
      owner[origin[task[r].fresh]] = task[r].client

(***************************************************************************)
(* A refresh token is exchanged once: for as long as its rotation is       *)
(* replayed it yields the pair already issued, never another one.          *)
(***************************************************************************)
OneSuccessor ==
  \A m, n \in 1..issued : parent[m] # 0 /\ parent[m] = parent[n] => m = n

(***************************************************************************)
(* What a replay answers can be used: the pair it names is live, is being  *)
(* rotated at this moment, or has a replay of its own in the window, so    *)
(* that following the chain ends on a token that works.  Purging and       *)
(* evicting from the old end only is what keeps the chain closed.          *)
(***************************************************************************)
Rotating == {"register", "retire", "record"}

ReplayEndsOnLiveToken ==
  \A p \in Replica : \A e \in Entries(recent[p]) :
    ~Expired(e, clock) =>
      \/ mapping[e.next] # NoSession /\ metadata[e.next] = e.client
      \/ \E r \in Request : task[r].pc \in Rotating /\ task[r].token = e.next
      \/ \E f \in Matching(recent[p], e.next, e.client) : ~Expired(f, clock)

(***************************************************************************)
(* invalid_grant, on which a client gives up its session, is answered only *)
(* for a token of another client, for a session Cognito revoked, for a     *)
(* token that was exchanged already, or when the upstream call failed for  *)
(* a reason that is not transient, which the code takes for a rejection.   *)
(* A transport error, a 5xx, a 429, a store that fails or a refresh beside *)
(* it never costs an unused token its session.  (That the token exchanged  *)
(* already may be that of a racing sibling, whose replay is at hand, is    *)
(* DuplicatesAnsweredAlike, and that the session may be intact upstream is *)
(* RejectedByCognitoOnly: neither holds.)                                  *)
(***************************************************************************)
Exchanged(t) == \E n \in 1..issued : parent[n] = t

RejectionIsDeserved ==
  \A r \in Request :
    At(r, "done") /\ task[r].answer = "invalid_grant" =>
      \/ owner[origin[task[r].token]] # task[r].client
      \/ cognito[origin[task[r].token]] = 0
      \/ Exchanged(task[r].token)
      \/ task[r].cause = "other"

(***************************************************************************)
(* exchange_refresh_token: "a request that queued behind a sibling         *)
(* presenting the same refresh token gets that sibling's tokens".  Nobody  *)
(* who waited for the lock and had it fails for want of a mapping while    *)
(* the window of the replica has the answer.                               *)
(***************************************************************************)
QueuedDuplicatesReplayed ==
  \A r \in Request :
    At(r, "failed") /\ task[r].locked /\ task[r].cause = "unmapped" => ReplayFor(task[r]) = {}

(***************************************************************************)
(* Refreshing never loses the grant: as long as no store call fails and no *)
(* replica restarts, there is for every session a refresh token that its   *)
(* client was sent and may exchange, or a request about to send it one,    *)
(* whatever overlaps, is rejected or fails upstream.                       *)
(***************************************************************************)
Exchangeable(n, s) == n \in handed /\ mapping[n] = s /\ metadata[n] = owner[s]

AboutToBeSent(n, s) ==
  \E r \in Request :
    /\ task[r].pc \in Rotating /\ task[r].fresh = n
    /\ mapping[n] = s /\ task[r].client = owner[s]

NoGrantLost ==
  \A s \in Session :
    owner[s] # NoClient => \E n \in 1..issued : Exchangeable(n, s) \/ AboutToBeSent(n, s)

(***************************************************************************)
(* Every token request is answered, whatever it waits behind, unless its   *)
(* replica restarts and the connection is gone.                            *)
(***************************************************************************)
EveryRequestAnswered ==
  \A r \in Request : At(r, "load") ~> task[r].pc \in {"done", "idle"}

(***************************************************************************)
(* The session lock is always in the hands of a worker of that replica     *)
(* that will give it up: no failure path and no restart leaves it behind.  *)
(***************************************************************************)
NoOrphanLock ==
  \A p \in Replica, s \in Session :
    lock[p][s] # Nobody =>
      /\ task[lock[p][s]].locked
      /\ task[lock[p][s]].replica = p
      /\ task[lock[p][s]].session = s

(***************************************************************************)
(* refresh.py: "an overlapping duplicate receives the same answer instead  *)
(* of a second upstream call or a rejection".  No request stands rejected  *)
(* whose token has a replay for it in the window.                          *)
(***************************************************************************)
DuplicatesAnsweredAlike ==
  \A r \in Request :
    At(r, "done") /\ task[r].answer = "invalid_grant" => ReplayFor(task[r]) = {}

(***************************************************************************)
(* refresh.py: is_transient_upstream_failure "separates a flaky upstream   *)
(* (transport errors, 5xx, 429) from a refresh token Cognito actually      *)
(* rejected".  No client is told invalid_grant because of an upstream call *)
(* while Cognito honours the session's refresh token.                      *)
(***************************************************************************)
RejectedByCognitoOnly ==
  \A r \in Request :
    At(r, "done") /\ task[r].answer = "invalid_grant" /\ task[r].cause \in UpstreamCauses =>
      cognito[origin[task[r].token]] = 0
=============================================================================
