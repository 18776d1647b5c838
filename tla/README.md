# A verification project for plane-mcp-server

TLA+ models of the parts of `plane_mcp` whose correctness depends on order,
failure and time, TLC configurations that check them on small instances, and
TLAPS proofs of the most important results for every instance.

plane-mcp-server is an MCP server in front of Plane. A deployment runs one or
more replicas of one asyncio process each; MCP clients sign in through OAuth
(the "Cognito path": FastMCP's `OAuthProxy` with `PlaneCognitoProvider` on top),
and every tool call becomes a few HTTP requests to Plane.

## Inventory

| Component | State it keeps | Operations | Interacts with |
|---|---|---|---|
| Replay window, `moneta/refresh.py` `RecentRefreshes` | `_replays`, an ordered dict per process | `record`, `tokens`, `refresh_token`; purge and eviction inside each | called by the exchange, under its lock or not |
| Refresh exchange, `moneta/cognito.py` `PlaneCognitoProvider` | the per-session lock of FastMCP; the OAuth stores in Valkey | `load_refresh_token`, `exchange_refresh_token`, `_try_transparent_refresh`, failure logging, the 503 wrapper | Valkey (mapping, metadata, token sets), Cognito, the replay window |
| Access-token path, `moneta/cognito.py` | none | `load_access_token`, `_resolve_upstream_claims` | the token stores, read twice; the client factory |
| Plane API-token bridge, `moneta/apitoken.py`, `moneta/apiretry.py` | one Valkey entry per user, `_memory_cache` per process, Plane's token table | `plane_api_key`, `refresh_api_key`, `_mint`, `_revoke_existing`, `_retry_once` | Valkey, Plane's app API and external API |
| Valkey password, `aws_secrets.py` | `_SECRET_CACHE` under `_cache_lock` | `get_secret`, `get_credentials` | Secrets Manager, redis-py threads |
| OAuth storage, `storage.py`, `moneta/storage.py` | none after start-up | choose and wrap the store | the exchange |
| Header and Plane OAuth providers, `auth/` | none | verify a token | Plane, the client factory |
| Client factory and workspace, `client.py`, `moneta/client.py`, `moneta/workspace.py`, `moneta/inject.py` | `_override`, a context variable per call | choose workspace, bearer and key; build the SDK client | the providers, the bridge, every tool |
| Dispatch and validation, `middleware.py`, `tools/registry.py`, `tools/legacy.py` | the tool registry | resolve a name, refuse stray arguments | the surface, all tools |
| Moneta surface, `moneta/surface.py` and the modules it installs | the tools and actions in force | bar actions, refuse trimmed arguments and filters, restore relations, publish hints, serve aliases | dispatch, all tools |
| Tools of `tools/`, over `toolkit/` | none (Plane's) | 207 actions of 30 tools: check the arguments, then one or several requests | Plane |
| Edits of a work item, `tools/workitem.py` | the work item, in Plane | read-modify-write of assignees and labels | Plane, other edits |
| Types and governance, `tools/workitem_type.py`, `toolkit/governance.py` | the types, the lockout and its cached flag, in Plane | find, create, adopt, import | Plane, other calls, administrators |
| Attachments, `attachments.py` | none | guarded download with redirects | the network, name servers, proxies |
| Session log, coercion, compaction, entry point | none | formatting, repair of values, wiring | |

**Interactions.** A client's POST `/token` enters `load_refresh_token` and then
`exchange_refresh_token`; both read the replay window, the second also takes the
session lock that FastMCP's transparent refresh takes during tool calls. The
lock and the window belong to a process, the stores and Cognito to all of them.
A tool call is verified by the provider of its transport, which reads the stores
once more for the claims; its arguments are checked by the middleware; its name
is resolved to a tool in force; the guards of the surface run outermost first,
`_inject_workspace` sets the workspace of its task; the handler checks its own
arguments, gets a client for that workspace and those claims, and makes its
requests. A rejected key goes back through the bridge.

**What is hard.** Overlapping duplicates of one refresh token (the reason the
fork's refresh code exists); the awaits between a check and its use; Cognito
rotating its own refresh token; failures in the middle of a sequence of store
writes; concurrent mints that delete each other's keys; a key cached in one
place and revoked in another; a secret fetched outside a lock while it rotates;
a session read twice while it is refreshed or ends; the workspace of a call
passed beside its arguments; declarations, checks, guards and hints written in
different places that have to agree for every action; operations of several
requests that fail halfway; read-modify-write and find-or-create on data that
others change; names rebound between the check and the connection.
`PROJECT.json` lists each at its line (`hazards`).

**What makes each component correct.**
- Replay window: answers for exactly the window, only to the same client, with
  the newest pair of the chain and the lifetime it really has left.
- Exchange: one upstream call per session at a time, no lost Cognito token, one
  successor per refresh token, none lost on the way, queued duplicates answered
  alike, no `invalid_grant` for a failure that is transient, every request
  answered, no lock left behind.
- Bridge: no user's key for another, only dead keys replaced, no request done
  twice, a dead cached key heals, one key left after an undisturbed mint.
- Password cache: nothing older than the TTL and a fetch, never back to an
  older password.
- A call: acts as itself, in the right workspace, by an action in force; what is
  refused has changed nothing; nothing is asked of Plane for a call that lacks a
  required argument; effects within the published hints; every call answered.
- Edits and types: an edit is its ids applied to what it read, and to what is
  there unless another write of the field came in between; no second type of a
  name unless calls overlap or types fill more than a page; the type answered
  with is usable.
- Downloads: no connection but to global addresses.

## Modules

| Module | Models | Proofs |
|---|---|---|
| `ReplayCache` | the data structure of `RecentRefreshes` as pure operators | `ReplayCacheProofs` |
| `ReplayMemory` | abstract: what the replay window promises | |
| `RecentRefreshes` | the class as a component with every legal call sequence; implements `ReplayMemory` | `RecentRefreshesProofs` |
| `RefreshExchange` | the refresh grant: exchange, transparent refresh, locks, stores, Cognito; uses `ReplayCache` | `RefreshExchangeProofs`, `RefreshRotationProofs` |
| `ApiTokenBridge` | `apitoken.py` and `apiretry.py`, Valkey, Plane's token table | `ApiTokenBridgeProofs` |
| `SecretCache` | `aws_secrets.get_secret` for one secret | `SecretCacheProofs` |
| `Toolkit` | `toolkit/`: declarations of actions, checks, the steps of a handler | |
| `PlanningTools`, `WorkItemTools`, `WorkspaceTools` | the tools of `tools/`: what each action declares and which steps its handler makes | |
| `ToolSurface` | the catalogue of all tools; what is in force, hints, names, guards | |
| `SafeFetch` | `fetch_validated_get` of `attachments.py` | with `ToolCall` |
| `ToolCall` | one call from arrival to answer; composes `ToolSurface` and `SafeFetch` | `ToolCallProofs` |
| `Connection` | verification, workspace and client of concurrent calls, and the session behind them | with `Server` |
| `ItemEdit` | `manage_assignee`, `manage_label`, with their data | with `Server` |
| `TypeResolve` | `resolve` of work item types, with its data | with `Server` |
| `Server` | concurrent calls: composes `Connection`, `ItemEdit` and `TypeResolve` | `ServerProofs` |

The MC modules (`MCRecentRefreshes`, `MCRefreshExchange`, `MCApiTokenBridge`,
`MCToolCall`, `MCServer`) add a symmetry set, or the requests and surfaces of an
instance; `SecretCache` is instantiated by its configuration directly. Each module
defines next to an operation the mutated forms of it that show the properties
can fail (`mutants`); they are used by no specification.

### ReplayCache, RecentRefreshes, ReplayMemory

A refresh token is a number and names the token pair it was issued in. The
ordered dictionary is a sequence of entries, oldest first; `Purged`, `Without`,
`Evicted`, `Recorded`, `Matching`, `ChainEnds`, `Replayed`, `Aged` correspond to
the methods one to one. The loop of `_newest_in_chain` is modelled by what it
computes: the entry where a path of successors ends, because it has no further
one or because it has taken as many hops (`Hops`) as there are entries. A pair
without `expires_in` would be handed on as it is; FastMCP issues none. Hashing the key is left out (no two tokens collide), so are scopes
and the presented token's own expiry, which are stored and handed back unread.

`ReplayMemory` forgets the sequence, the lazy purge and the eviction loop: it
remembers what is younger than `Window` and lets a lookup return the newest pair
and the seconds it has left; what is reached by following rotations is the least
set closed under them. `RecentRefreshes!ReplayPromise` is its
specification under the refinement mapping that takes the set of unexpired
entries for the memory and `at + life` for the pair's end of life.

### RefreshExchange

A worker is a token request or a transparent refresh. The steps between two
awaits of the code are one action:

| pc | waiting for | next action |
|---|---|---|
| `load` | `super().load_refresh_token` | `Load` (then the first replay check of `exchange_refresh_token`) |
| `resolve` | the mapping read | `Resolve` |
| `queue` | the session lock | `Acquire` (with the second replay check), `AcquireBackground` |
| `exchange` | FastMCP's reads of mapping and token set | `ReadGrant` |
| `upstream` | Cognito | `UpstreamGrants`, `UpstreamRejects`, `UpstreamFails` |
| `save`, `issue`, `rotate`, `register`, `retire` | FastMCP's five store writes | actions of the same names |
| any of these but `resolve` and `upstream` | the store call raises | `StoreFails` |
| `record` | nothing: the exchange has returned | `Record` (window, lock, answer) |
| `failed` | the bounded lookup for the log line, lock still held | `Fail` |

FastMCP's `OAuthProxy` is not in the repository; its steps are modelled from how
`cognito.py` uses and documents it (no lock of its own, nothing written before
the upstream call, `invalid_grant` for every upstream exception, a per-session
lock for transparent refreshes) and marked external. The interval between the
store writes is what lets another request see half of a rotation.

What an exchange failed with is its `cause`, and `AnswerTo` is the line that
tells causes apart (`cognito.py:316`): a `transient` upstream failure (transport
error, 5xx, 429) is answered 503, a `store` call that raised is no `TokenError`
and ends in a 500, and everything else is `invalid_grant`: the token's session
is gone (`unmapped`), Cognito refuses its refresh token (`rejected`), and any
`other` upstream error - an answer that is not JSON, another 4xx - although it
says nothing of the token. A store call that raises at any step leaves what was
written before it; a raising mapping read of our own is swallowed and leads to
the path without the lock (`Resolve`).

Cognito is a generation number: `cognito[s]` is the refresh token it honours,
`stored[s]` the one the server holds. Four switches choose the environment:
whether Cognito rotates on use, whether a failed call may have been acted on
(`AnswersLost`), whether any store call may fail (`StoreFaults`), whether a
replica may restart (`Crashes`).

### ApiTokenBridge

A call goes `get` → (`list` → `revoke`* → `create` → `set`) → `send` → on a
rejected key `reget` → (`drop` → the same mint) → `resend`. One action per
network request. Plane accepts a request only with a live key; it may deny the
user, carry the request out, fail, or both. `disturbed` and `failed` are history:
which calls had their user's keys touched by somebody else, and which lost a
mint request; the healing properties are about the others. Encryption of the
cached key is left out: an entry that cannot be decrypted is a failed read.
Whether the deployment has a Valkey is chosen at the start and stays; with one,
the in-process cache is written and removed by the code but never read, and the
model leaves it out. What Plane answers is told apart only as far as the
properties do: carried out or not, rejected or not.

### SecretCache

A version is a number. The two sections under `_cache_lock` are one action each,
the call to Secrets Manager between them is not. `FetchTime` bounds how long an
answer is under way (boto3's timeouts): without such a bound nothing can be said
of the age of what is installed. `now` may not advance while a thread is about
to return, so "returned at time t" means what it says.

### Toolkit, PlanningTools, WorkItemTools, WorkspaceTools

A tool is two operators: a table of its actions (`CycleActions`, the ACTIONS
dict the descriptions and the middleware are built from) and its handler
(`Cycle(c)`), which gives for a call the steps it takes, in order: checks of
arguments (`Need`, `NeedOne`, `OneOf`) and requests, told apart by what they do
to Plane's data (`read`, `add`, `change`, `remove`). An argument is supplied or
not, and its value acceptable or not (`bad`); what Plane answers, where a
handler branches on it, is one of the `facts` of a call. Requests repeated for
each id of a list are two. The payload of a request is left out. `Crud` and
`Record` are the two shapes that several handlers share line by line.

A check that fails asks for arguments (`asks`), which need not be those it
looked into: `manage_assignee` asks for names made from a field, and the
refusals of a relation type ask for relation definitions. `NeedAsking`,
`NeedOneAsking`, `OneOfAsking` and `RefuseAsking` say what a message asks for
where it differs; what is asked is remembered in `lacking`.

That the table and the handler are translated separately is the point: they are
separate in the code, and a property relates them for every action.

### ToolSurface, SafeFetch, ToolCall

`ToolSurface` collects the tables (`Catalogue`) and gives the tools in force
(`Curated`, `EnabledBy` of `PLANE_MCP_ENABLED_TOOLS`), the effect of a tool told
from the names of its actions, the names a call may come under, and the guards
in the order they wrap the handler (`Served`).

`ToolCall` runs one call: `Receive` picks the operation, its name and its
arguments (a tool of one action is called without naming it, `Chosen`); `Reject` is the middleware, `NotFound` the registry, `Serve` the
guards; then `Check`, `Connected`, `Send` or `Fail` take the steps one at a
time, and `Finish` answers. Every request may fail. The steps of a download are
those of `SafeFetch`: `CheckHop` resolves and pins or leaves the name to a
proxy, a hop ends in `Body`, `HopFails` or `Redirect`, and a name may be rebound
between any two of them.

### Connection, ItemEdit, TypeResolve, Server

`access[c]` is what the server knows of a call; its `phase` is the step it waits
to take:

| phase | next action | code |
|---|---|---|
| `presented` | `NoToken`, `VerifyKey`, `VerifyPlaneToken`, `Validate` | the provider of the transport |
| `validated`, `mapped` | `Map`, `Identify` | the two further reads of `_resolve_upstream_claims` |
| `granted` | `Inject` | `_inject_workspace` |
| `called` | `Connect` | `get_plane_client_context`, `workspace_for`, `bearer_for` |
| `connected` | the steps of the tool, `Return` | the handler; the context variable is reset |

`session` is the stored token set as a generation, 0 once it is gone; it is
refreshed (with or without an id_token) or ends between any two reads. Only
`verify_token` itself is external to a provider: it grants or rejects.

The credential of a call is followed function by function, since no single line
decides it. `ApiKey` starts from the environment's key (`EnvironmentKey`) on
every call, stdio or not, and only a key in the place of the token replaces it;
`ConnectedVia` and `BearerFor` say which token there is (`AccessToken`);
`PlaneApiKey` mints or does not; and `PlaneClient`, `build_plane_client`, gets all
three and drops what it does not send. `PlaneRequestAuth` is the second place
that reads the environment's key, for requests made past the client.

`ItemEdit` splits an edit into the read, the patch and Plane's carrying it out,
which may happen after the call has given it up, or never. `behind[c]` is
history: the field was written since `c` read it. `TypeResolve` has one action
per request of `_resolve` and `_adopt_from_workspace`; a request may succeed
without the call learning of it. The project's types are read one page at a
time and `_resolve` reads one: with `Paged` the page may leave out any of them. `governance[w]` tells the lockout apart from
the cached flag that reports it. `overtaken` is history: another call made a
type since `c` began.

`Server` interleaves them: every call takes its steps in `Serve`, and what
happens without a call - refreshes, sign-outs, changes of ownership - in
`Elsewhere`, for as long as some call is left to notice. Two users' calls in one
process share the session, the context variable's default and Plane.

## Runs

| Run | Instance | Shows |
|---|---|---|
| `recent_refreshes` | window 1, capacity 3, 2 clients, 6 tokens, 3 instants | `OneAnswer`, and `ReplayPromise`: it implements `ReplayMemory` |
| `refresh_core` | 3 requests, 1 transparent refresh, 1 session, 4 tokens, capacity 2, window 0, 2 instants, Cognito rotating and failing in every way | `OneUpstreamCall`, `NothingSpentIsPresented`, `OneSuccessor`, `RejectionIsDeserved`, `QueuedDuplicatesReplayed`, `NoGrantLost`, and `ReplayEndsOnLiveToken` with chains of two, purged and evicted |
| `refresh_degraded` | 2 requests, 1 transparent refresh, 2 clients, 1 session, 2 tokens, any store call failing, lost answers, restarts, Cognito not rotating, fairness | `RejectionIsDeserved`, `AnswersStayWithTheirClient`, `EveryRequestAnswered` |
| `refresh_duplicates` | 2 requests | finding: a duplicate straddling its sibling's rotation is rejected |
| `refresh_store_fault` | 2 requests, 1 transparent refresh, failing store calls | finding: two upstream calls for one session |
| `refresh_gap` | as `refresh_core` | finding: an upstream error that says nothing of the token is answered as a rejection |
| `bridge` | 2 calls, 2 users, 2 replicas, 3 keys, with and without a Valkey, faults | `KeysStayWithTheirUser`, `OnlyDeadKeysReplaced`, `ActedOnOnce`, `HealsUnlessDisturbed`, `MintLeavesOneKey` |
| `bridge_burst` | 2 calls, 1 user | finding: a burst of rejected calls mints once each |
| `secret_cache` | 3 threads, TTL 2, fetch 1, 3 versions, 7 instants, forced refreshes | `NothingOutdated`, `NeverGoesBack` |
| `tool_calls` | every operation, with each required argument missing and each constrained value bad, on the curated surface, the whole one and that of each single operation; one redirect, four kinds of host | checks, tables, guards, hints and effects agree; `OnlyGlobalReached`; `EveryCallAnswered` |
| `assignee_refusal` | `workitem` with `manage_assignee` alone | finding: a refusal asks for arguments the action does not take |
| `server` | 3 calls on every pair of transports one process serves, 2 workspaces, 2 fields, 2 values, 2 generations of the session, 3 types | `RightWorkspace`, `ActsAsItself`, `KeyIsNotShared`, `EditsAddUp`, `ResolvedIsUsable`, `NoSecondType` |

**Why the bounds are enough.** Three requests are what it takes for one to hold
the lock, one to wait for it and one to be anywhere else. A second session adds
independent locks and rows; a second client may present the first one's token,
in `refresh_degraded`, while the replay for it is in the window; what more
sessions and replicas could do is left to the theorems, which are about any
number (`AnswersCorrect`, `RejectionDeservedWithoutRotation`). In `refresh_core`
four tokens are three rotations of one session: with capacity 2 a chain of two
entries stands in the window and a third recording evicts its head, and with a
window of 0 a tick purges it; an entry is asked for at its very edge and past
it. In `recent_refreshes` capacity 3 and six tokens make chains of three
entries, so that a lookup that stopped after one hop gives another answer than
the end, and a window of 1 with three instants has inside, edge and past.
`refresh_degraded` needs no clock and one rotation: what it adds, restarts and
failures, does not depend on more, and each request comes back as often as it
likes. Three key numbers let a key be
minted, replaced and replaced again. Three threads let a slow fetch be overtaken
by a fast one while a third reads. Counters (`MaxToken`, `MaxUpstream`,
`MaxTime`, `MaxKey`, `MaxVersion`) bound guards of the steps that mint and tick
only; `TokensLeft` sets a token aside for every request past its grant so that
the bound never strands a request half way.

**Symmetry** is used for requests, clients, sessions, calls and users in runs of
invariants. Replicas are permuted in the bridge only; in the exchange
`Home` names one. The liveness run uses none.

**Deadlock** is checked in the runs of the exchange, the bridge and the two
caches. `tool_calls` and `server` say `CHECK_DEADLOCK FALSE`: they follow calls
to their answers, and there the model stops.

**Fairness.** `refresh_degraded`: weak fairness of the exchange steps, of
Cognito's answer, of the saves and of the failure path: the event loop resumes
every coroutine whose await has completed, httpx, the Valkey client and
`_bounded_lookup` have timeouts. Strong fairness of taking the lock: `anyio`'s
lock is handed over first come, first served. No fairness for arrivals, the
clock, revocations or restarts. `tool_calls`: weak fairness of the server's own
work (`Work`), as its requests and each hop of a download have time limits; none
for arrivals and for names being rebound.

## Findings

Five places where a docstring or comment promises more than the code does; each
is a run that TLC finds violated, described in `PROJECT.json` with the quoted
line.
- `DuplicatesAnsweredAlike`: `load_refresh_token` does not look at the window
  again after its await, and a duplicate that read the store across its
  sibling's rotation is rejected.
- `OneUpstreamCall` when a mapping read fails: the unlocked path.
- `RejectedByCognitoOnly`: an upstream error that is neither transient nor a
  rejection costs a session that Cognito honours (`cognito.py:316`).
- `OneMintPerBurst`: compare and drop are not one step.
- `RefusalCanBeFollowed`: `manage_assignee` asks for `add_assignee_id` and
  `remove_assignee_id`, which it does not take (`workitem.py:397`).

`create` of a relation breaks the last one too: it asks for relation
definitions, which this surface refuses (`workitem_relation.py:202`, `224`).
`Correctable` says that these two (`Misnamed`) are the only ones.

`RejectionIsDeserved` states what is left of "never reject" with the first and
third of these taken out: a token exchanged already and an upstream error of
the third kind are named in it as reasons.

More are visible in the models without a run of their own. Two calls that
list before either creates leave two keys, against "Keeps exactly one active
minted token per user" (`apitoken.py:167`): `MintLeavesOneKey` therefore speaks
of undisturbed mints. And the in-process copy that `_cache_set` keeps when
Valkey refuses a write (`apitoken.py:146`) is not read by `_cache_get` while a
Valkey is configured, so it never saves a mint. `customer` publishes the hint of
an addition for `create` (`annotations.py` tells it from the name), but a
customer that is known is changed instead (`customer.py:44`): `WithinHints`
excepts it by name. "never duplicates" of `resolve` (`workitem_type.py:45`) holds
for calls one after the other in a project whose types fit on the page that is
read (`workitem_type.py:115` reads one, and line 166 says that the endpoint
paginates; with `Paged` TRUE `NoSecondType` is violated); calls that overlap can
make a type each, and `NoSecondType` says exactly which. A write of an edit that
overlaps another, or that Plane carries out after the call gave it up, undoes
what was written to the field since it was read: `EditsAddUp` says that the
field then holds what this edit made of what it read, and that a write no other
came before loses nothing. It does not say that no edit is ever lost, because
edits are.

## Proofs

All are safety results, for every value of the constants allowed by the
modules' `ASSUME`s.

- `ReplayCacheProofs`: what the operators of the dictionary keep. Purging,
  removing, evicting and recording introduce no entry but the recorded one
  (`RecordedEntries`), a recording respects the capacity (`RecordedBounded`), an
  answer is an entry of the asking client (`ReplayedEntries`). For the order of
  the entries one idea serves all four: what is left is the old dictionary
  thinned out (`Thinned`), so that keys stay distinct, times in order
  (`Ordered`), and a rotation of a pair behind the one that issued it
  (`Forward`). From the order follows that purging from the old end forgets
  exactly what has expired (`PurgedOrder`), and that a recording forgets, of what
  has not, only the oldest and the entry it replaces (`RecordedOrder`).
  Statements about every entry of a chain go by the least counterexample
  (`Least`), which needs no induction over an operator.
- `RecentRefreshesProofs`: `OldestFirst` and `TypeOK` from `RecentInv`, which
  adds what the order rests on: no entry is from the future, and a pair is
  issued after the token it was exchanged for. `OneAnswerCorrect`: the entries
  of a chain stand further and further on (`ChainClimbs`), so a chain is shorter
  than the dictionary (`ChainShort`) and the loop of `_newest_in_chain`, bounded
  by its length, reaches the end (`ChainHasEnd`), of which there is one
  (`ChainHasOneEnd`). `ReplayPromiseCorrect` is the refinement of `ReplayMemory`,
  one lemma per action: `PromiseTick`, `PromiseAsk` (a chain's end is the newest
  of what is remembered, `NewestSeen`), `PromiseRecord` (what is evicted is
  older than what is kept, and only the capacity's worth is).
- `RefreshExchangeProofs`:
  - `TypeCorrect`: `TypeOK` is inductive by itself because it says what a worker
    knows at each step (`Fits`).
  - `AnswersCorrect`: `AnswersStayWithTheirClient` is not inductive: it speaks of
    answers, and what an answer is depends on what the stores and the window
    hold. `ClientInv` strengthens it in four parts: a token in the metadata
    store is filed under its session's owner, one in the mapping store under its
    own session, a replay names a pair of the client it is filed under, and a
    request knows only tokens of its client (`Rightful`). The ledger of owners
    and origins only grows (`LedgerStep`), so each part survives steps that do
    not write it.
  - `NoOrphanLockCorrect`: `LockInv` adds the converse, that a worker inside the
    block is the holder.
  - `OneUpstreamCallCorrect`: in one process whose store calls do not fail. A
    worker about to call Cognito or save its answer holds the lock
    (`UpstreamHoldsLock`), unless it took the unlocked path, and then its token
    is spent for good (`UnlockedIsSpent`) and the exchange will refuse it before
    the call. Both assumptions are needed; `refresh_store_fault` shows the one.
- `RefreshRotationProofs`: `NothingSpentCorrect`. `RotationInv` adds what makes
  the token set trustworthy: where Cognito's token and the server's differ, a
  worker inside the lock is about to save the new one (`OnItsWay`), and only a
  session signed in to is refreshed. It rests on `OneUpstreamCallCorrect`, and
  assumes besides that no answer of Cognito is lost after it rotated and that
  neither a restart nor a save that fails comes after its rotation: each leaves
  the server with a spent token, whatever the lock does.
  The rest of the module says what becomes of a refresh token, each part from
  an invariant of its own; a lemma says once which paths a request can take in a
  step (`RequestAdvances`), and the proofs go through those paths.
  - `OneSuccessorCorrect`, in one process that is not restarted, whose store
    calls do not fail: `SuccessorInv` says that a pair issued for a token makes
    the token spent or about to be (`BeingRotated`) by the worker that holds the
    lock, so that no second grant for it gets as far as issuing. Lost answers
    are allowed.
  - `RejectionIsDeservedCorrect`, under the assumptions of
    `NothingSpentCorrect`: `RejectionInv` carries the reason along from where the
    handler fails to the answer. What a client holds is its own, and usable until
    it is exchanged (`HandedInv`), and one whose mapping is gone has been exchanged
    (`ExchangedInv`); both hold under no assumption at all. That no store call
    fails is needed for the upstream half: a save that raises after Cognito
    rotated leaves the server with a spent token, and Cognito rejects the next
    refresh of a client that did nothing wrong.
  - `RejectionDeservedWithoutRotation`: while Cognito does not rotate there is
    one generation (`SteadyInv`), and both properties hold with any number of
    replicas, any store call failing, lost answers and restarts - the setting of
    `refresh_degraded`, which has one replica.
  - `ReplayEndsCorrect`, in one process whose store calls do not fail: every
    entry of the window is `Closed` - its pair is live, being rotated by a
    request inside the lock, or followed by the entry of its own rotation. The
    order of the window (`WindowInv`) is needed because eviction and expiry must
    never take the follower before the entry it follows, and that a pair on its
    way to a client is in one request's hands only (`FreshInv`).
- `ApiTokenBridgeProofs`, for any number of calls, users, replicas and keys, with
  and without a Valkey, every request failing at will: `BridgeInv` says whose
  every key in a call, a cache or Plane is (`CachesOwned`, `CallOwned`), how far
  a call is from its record (`CallProgress`: a call that mints has seen its own
  key die; it is answered once), and, for a call nobody disturbs, which of its
  user's keys Plane has at each step and what the cache may hold
  (`CallUndisturbed`). All six properties of the run follow. Keys are never
  reused and never come back to life (`PlaneGrows`), so each part survives the
  steps of other calls.
- `SecretCacheProofs`: `NothingOutdatedCorrect` and `NeverGoesBackCorrect`
  from the invariant `Ages`: rotations are ordered in time, what a thread holds
  was current when it was read, less than `FetchTime` ago, and what is cached
  was replaced at most `FetchTime` before it was installed. The second assumes
  that answers take less than the TTL; a forced refresh overwrites a newer
  value by design, and the property excepts it.

- `ToolCallProofs`: `OnlyEnabledCorrect` and `NothingIgnoredCorrect` from
  `GuardInv`: while a call is shut out by a guard, the steps it has left are one
  refusal and nothing was sent. `OnlyGlobalCorrect` and `FetchTypeCorrect` from
  `FetchInv`: what is pinned passed the check and is used once, however names
  are rebound in between.
  The six others rest on what a script may be. `Lawful`: its checks ask only for
  what the action takes, its requests are no more severe than the action's name
  says, and after a change it holds requests only, or nothing unless the
  operation is several changes (`Compound`). `Fits`: lawful, and refused before
  anything is asked of Plane if a required argument is missing (`Stops`).
  What a refusal asks for may be `Misnamed`; that nothing else is wrong is what
  `Lawful` carries.
  `Joining` says how `\o` puts such scripts together and `Steps` what each kind
  of step is, so that `HandlerFits` takes one leaf for most of the thirty
  handlers, whatever arguments and facts a call has; `ServedFits` adds the
  guards and the relations route. `CallInv` carries this through the steps of a
  call (`GoesOn`, `Ends`): `NothingLackingCorrect`, `CorrectableCorrect`,
  `RefusalChangesNothingCorrect`, `HalfDoneIsKnownCorrect`, `WithinHintsCorrect`
  (with `GuardInv` and `HintCovers`: the hint is the maximum over the actions in
  force) and `ToolCallTypeCorrect` follow. They assume of the constants only
  `ToolCallAssumption`: a surface is made of tools and actions the catalogue
  declares (`visibility.parse_enabled_tools` drops other names), and a value that
  is bad is one that was given. The run leaves out one required argument at
  most; the theorems any number of them.
- `ServerProofs`: `ConnectionInv` says what is known of a call at each phase:
  its claim is of its own token, the context variable holds its own argument
  once it is set, and the id_token is at least as new as the one it was
  validated against, because tokens of a session are only replaced by newer
  ones. Every step of the server changes the record and context of one call
  (`Own`), the session, or neither; so `RightWorkspaceCorrect`,
  `ActsAsItselfCorrect` and `KeyIsNotSharedCorrect` hold for any number of calls.
  For the last, `StartsFrom` says which of the two, a token or a key of its own,
  a call from the network has in hand, whatever the environment holds, and
  `Sends` what `build_plane_client` makes of it, branch by branch: it is the order
  of those branches the proof rests on. That stdio has a key at all is assumed
  as `__main__.main` demands it (`RequestAssumption`).
  `EditsAddUpCorrect`: `EditInv` ties a write to what it was computed from:
  unless it is behind, the field still is what the call read, and a patch on its
  way is that value with the ids of its job, in that field alone.
  `ResolvedIsUsableCorrect` and `NoSecondTypeCorrect`: `ResolveInv` says of each
  request what the call may rely on: a lockout it was told of stays; a type it
  found is there; and, unless it was overtaken, what it did not find is still
  not there - the project holds nothing the catalogue does not, and a catalogue
  is empty before the lockout. That an import by another call keeps this
  (`Steady`) is why only creating overtakes. `NoSecondTypeCorrect` assumes that the
  project's types fit on a page; the other theorems do not. With the two others it gives
  `TypeCorrect` of `Server`.

**Only model-checked:** liveness (`EveryRequestAnswered`, `EveryCallAnswered`),
which is outside the proof system's reach; `QueuedDuplicatesReplayed` and
`NoGrantLost`; and the runs that show a disagreement. Every other safety
property of a passing run is a theorem, and two theorems state what no run lists:
`OldestFirst`, which the refinement `ReplayPromise` rests on, and `NoOrphanLock`,
without which `EveryRequestAnswered` would fail. Some theorems hold under a
condition, named above, on the kind of deployment: what `RejectionIsDeserved` and
`NothingSpentIsPresented` say when Cognito rotates and a replica is restarted
between the rotation and the save is not true, and no theorem says it.

## Plan

Done: the replay window and the exchange; the bridge; the password cache; the
tool calls; concurrent calls of one server, their identities, edits and types.
Next, in this order:

1. An abstract single-flight specification that `RefreshExchange` implements in
   one process.
2. The bridge below `Server`: calls whose key is rejected between the requests
   of an edit or a resolve.
3. Coercion as a function, against a definition of what it may not change.

## Not modelled

- `storage.py`, `moneta/storage.py`: one straight-line choice of a store from
  the environment, at start-up. What the store then does is in
  `RefreshExchange` and `Connection`.
- `coercion.py`, `moneta/serialization.py`, `moneta/compaction.py`,
  `moneta/list_fields.py`, `moneta/listing.py`, `toolkit/paging.py`,
  `pql_reference.py`: pure repair of argument values, shaping of answers and
  text. They keep no state and nothing the properties tell apart; a call is
  modelled by the arguments supplied, after coercion.
- `PlaneOAuthProvider`'s settings, consent and templates; the wiring of
  `moneta/http.py`, `__main__.py` and `server.py` beyond which transports are
  served together: start-up and presentation.
- `moneta/selfhosted.py`: what it refuses and how many requests it makes is in
  the steps of the handlers, the shaping of payloads is left out.
- `moneta/session_log.py`: log lines.
- Whether a listing's pages end: Plane decides it, and the code follows cursors
  for as long as there are any (`workitem_relation.py:93`); the model reads two
  pages.

**What the properties do not reach.** The model has these, and no property says
they go well, because the code does not see to it:
- How many keys are minted while Valkey refuses writes: every call gets one that
  works, and `HealsUnlessDisturbed` says no more (`apitoken.py:148`).
- A grant lost to a restart, or to a store call that fails in the middle of a
  rotation (`cognito.py:273`); duplicates sent to two replicas
  (`refresh.py:89`), except that none costs an unused token while Cognito does
  not rotate.
- Calls of two Cognito users at once: `Connection` has one Cognito session, so
  `ActsAsItself` is about one that changes between two reads, not about two that
  are mixed up. Calls of users of other transports are beside it.
- `get_credentials` raises where the secret holds no password; `Done` takes the
  call as over either way.
