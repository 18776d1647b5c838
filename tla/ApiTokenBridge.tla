---------------------------- MODULE ApiTokenBridge ----------------------------
(***************************************************************************)
(* The Plane API-token bridge of the Cognito path: moneta/apitoken.py      *)
(* mints a Plane API token per user and caches it, moneta/apiretry.py      *)
(* re-mints once when Plane rejects a minted key.                          *)
(*                                                                         *)
(* Tool calls run concurrently, on the threads of one replica and on       *)
(* several replicas; each Valkey and each Plane request is one action.     *)
(* The replicas share the Valkey entry of a user and Plane's table of      *)
(* tokens; the in-process cache is a replica's own.                        *)
(*                                                                         *)
(* A minted token is a number in order of minting, 0 is none.  A user is   *)
(* what _cognito_identity makes of the claims.  Encryption of the cached   *)
(* token is left out: an entry that cannot be decrypted is a failed read.  *)
(***************************************************************************)
EXTENDS Integers, FiniteSets

CONSTANTS Call,         \* tool calls in progress at once
          Replica,      \* server processes
          User,         \* identities
          NoUser, NoReplica,
          Deployments,  \* whether MCP_OAUTH_STORAGE_URL may name a Valkey
          CacheFaults,  \* a Valkey request may fail
          PlaneFaults,  \* a Plane request may fail
          MaxKey        \* bound on tokens minted

ASSUME BridgeAssumption ==
  /\ NoUser \notin User /\ NoReplica \notin Replica /\ MaxKey \in Nat
  /\ Deployments \subseteq BOOLEAN /\ {CacheFaults, PlaneFaults} \subseteq BOOLEAN

Key == 1..MaxKey

VARIABLES redis,      \* the deployment has a Valkey
          minted,     \* number of tokens minted so far
          live,       \* the tokens Plane accepts
          keyOf,      \* the user a token was minted for
          valkey,     \* the shared cache, per user
          memory,     \* _memory_cache, per replica and user
          call,       \* what each tool call is doing
          disturbed,  \* history: calls whose user's keys another one touched since they began
          failed      \* history: calls one of whose mint requests failed

plane == <<minted, live, keyOf>>
caches == <<redis, valkey, memory>>
vars == <<plane, caches, call, disturbed, failed>>

(***************************************************************************)
(* A tool call: where it is between requests, at which replica and for     *)
(* which user, the X-Api-Key of its client (config.api_key), the tokens it *)
(* still has to delete, the token it minted, how often Plane carried its   *)
(* current request out, and how that request ended.                        *)
(***************************************************************************)
Steps == {"idle", "get", "list", "revoke", "create", "set", "send",
          "reget", "drop", "resend", "done"}

Replies == {"none", "answered", "rejected", "unauthenticated"}

Calls ==
  [pc : Steps, replica : Replica \cup {NoReplica}, user : User \cup {NoUser}, key : 0..MaxKey,
   pending : SUBSET Key, fresh : 0..MaxKey, effects : 0..1, reply : Replies]

Idle ==
  [pc |-> "idle", replica |-> NoReplica, user |-> NoUser, key |-> 0, pending |-> {},
   fresh |-> 0, effects |-> 0, reply |-> "none"]

TypeOK ==
  /\ redis \in BOOLEAN
  /\ minted \in 0..MaxKey
  /\ live \in SUBSET (1..minted)
  /\ keyOf \in [Key -> User \cup {NoUser}]
  /\ valkey \in [User -> 0..MaxKey]
  /\ memory \in [Replica -> [User -> 0..MaxKey]]
  /\ call \in [Call -> Calls]
  /\ \A c \in Call : call[c].pc # "idle" => call[c].user \in User /\ call[c].replica \in Replica
  /\ disturbed \in SUBSET Call
  /\ failed \in SUBSET Call

Init ==
  /\ redis \in Deployments
  /\ minted = 0
  /\ live = {}
  /\ keyOf = [k \in Key |-> NoUser]
  /\ valkey = [u \in User |-> 0]
  /\ memory = [p \in Replica |-> [u \in User |-> 0]]
  /\ call = [c \in Call |-> Idle]
  /\ disturbed = {}
  /\ failed = {}

-----------------------------------------------------------------------------
At(c, step) == call[c].pc = step
Becomes(c, t) == call' = [call EXCEPT ![c] = t]
Goto(c, step) == Becomes(c, [call[c] EXCEPT !.pc = step])
Ends(c, reply) == Becomes(c, [call[c] EXCEPT !.pc = "done", !.reply = reply])

KeysOf(u) == {k \in live : keyOf[k] = u}

\* The other calls of the user learn that its keys are no longer as they were.
Disturbs(c) ==
  disturbed' = disturbed \cup {d \in Call \ {c} : call[d].user = call[c].user}

(***************************************************************************)
(* The cache: _cache_get, _cache_set, _cache_delete.  With a Valkey the    *)
(* in-process entry, written when a Valkey write fails and removed with    *)
(* the Valkey entry, is never read, and left out here.                     *)
(***************************************************************************)
Cached(c) == IF redis THEN valkey[call[c].user] ELSE memory[call[c].replica][call[c].user]

ValkeyFails == redis /\ CacheFaults

\* One entry for every identity.
PutForEveryone(cache, u, k) == [v \in User |-> k]

Put(cache, u, k) == [cache EXCEPT ![u] = k]

Stores(c, k) ==
  /\ \/ /\ redis
        /\ valkey' = Put(valkey, call[c].user, k)
        /\ UNCHANGED memory
     \/ /\ ValkeyFails
        /\ UNCHANGED <<valkey, memory>>
     \/ /\ ~redis
        /\ memory' = [memory EXCEPT ![call[c].replica] = Put(@, call[c].user, k)]
        /\ UNCHANGED valkey
  /\ UNCHANGED redis

-----------------------------------------------------------------------------
(***************************************************************************)
(* A tool call builds its client: build_plane_client, plane_api_key.       *)
(***************************************************************************)
Start(c, p, u) ==
  /\ At(c, "idle")
  /\ Becomes(c, [Idle EXCEPT !.pc = "get", !.replica = p, !.user = u])
  /\ UNCHANGED <<plane, caches, disturbed, failed>>

Get(c) ==
  /\ At(c, "get")
  /\ \/ /\ Cached(c) # 0
        /\ Becomes(c, [call[c] EXCEPT !.pc = "send", !.key = Cached(c)])
     \/ /\ Cached(c) = 0 \/ ValkeyFails
        /\ Goto(c, "list")
  /\ UNCHANGED <<plane, caches, disturbed, failed>>

(***************************************************************************)
(* _mint, with the deletion of the user's earlier tokens before it, one    *)
(* request each, from a list that may be old by then.  A failed request is *)
(* passed over; a failed creation, which Plane may have carried out all    *)
(* the same, leaves the call without a key of its own.                     *)
(***************************************************************************)
\* Nothing is listed, so nothing is deleted.
ListNothing(c) ==
  /\ At(c, "list")
  /\ Becomes(c, [call[c] EXCEPT !.pending = {}, !.pc = "create"])
  /\ UNCHANGED <<plane, caches, disturbed, failed>>

List(c) ==
  /\ At(c, "list")
  /\ \/ /\ Becomes(c, [call[c] EXCEPT !.pending = KeysOf(call[c].user),
                         !.pc = IF KeysOf(call[c].user) = {} THEN "create" ELSE "revoke"])
        /\ UNCHANGED failed
     \/ /\ PlaneFaults
        /\ Goto(c, "create")
        /\ failed' = failed \cup {c}
  /\ UNCHANGED <<plane, caches, disturbed>>

Revoke(c) ==
  /\ At(c, "revoke")
  /\ \E k \in call[c].pending :
       /\ Becomes(c, [call[c] EXCEPT !.pending = @ \ {k},
                        !.pc = IF call[c].pending = {k} THEN "create" ELSE "revoke"])
       /\ \/ live' = live \ {k} /\ UNCHANGED failed
          \/ PlaneFaults /\ failed' = failed \cup {c} /\ UNCHANGED live
  /\ Disturbs(c)
  /\ UNCHANGED <<minted, keyOf, caches>>

Minted(u) ==
  /\ minted < MaxKey
  /\ minted' = minted + 1
  /\ live' = live \cup {minted + 1}
  /\ keyOf' = [keyOf EXCEPT ![minted + 1] = u]

Create(c) ==
  /\ At(c, "create")
  /\ \/ /\ Minted(call[c].user)
        /\ Becomes(c, [call[c] EXCEPT !.pc = "set", !.fresh = minted + 1])
        /\ UNCHANGED failed
     \/ /\ PlaneFaults
        /\ Minted(call[c].user) \/ UNCHANGED plane
        /\ IF call[c].key = 0 THEN Goto(c, "send") ELSE Ends(c, "rejected")
        /\ failed' = failed \cup {c}
  /\ Disturbs(c)
  /\ UNCHANGED caches

Set(c) ==
  /\ At(c, "set")
  /\ Stores(c, call[c].fresh)
  /\ Becomes(c, [call[c] EXCEPT !.key = call[c].fresh, !.fresh = 0,
                   !.pc = IF call[c].key = 0 THEN "send" ELSE "resend"])
  /\ Disturbs(c)
  /\ UNCHANGED <<plane, failed>>
-----------------------------------------------------------------------------
(***************************************************************************)
(* One request of the client to Plane's external API: _retry_once around a *)
(* verb of the SDK.  Plane carries it out, whether it says so or answers   *)
(* with an error, or does not, for a denial or an error; or it rejects a   *)
(* token it does not hold.  A client without a minted key sends the        *)
(* id_token alone, which the external API does not accept.                 *)
(***************************************************************************)
Carried(c) == [call[c] EXCEPT !.effects = @ + 1]

Attempt(c) ==
  \/ /\ call[c].key \in live
     /\ \/ Becomes(c, [Carried(c) EXCEPT !.pc = "done", !.reply = "answered"])
        \/ Ends(c, "answered")
  \/ call[c].key = 0 /\ Ends(c, "unauthenticated")

\* Any refusal of the request is answered with a new key.
SendRefreshingOnDenial(c) ==
  /\ At(c, "send")
  /\ \/ Attempt(c)
     \/ call[c].key # 0 /\ Goto(c, "reget")
  /\ UNCHANGED <<plane, caches, disturbed, failed>>

\* A request that Plane carried out, but answered with an error, is retried.
SendRetryingErrors(c) ==
  /\ At(c, "send")
  /\ \/ Attempt(c)
     \/ call[c].key \notin live \cup {0} /\ Goto(c, "reget")
     \/ call[c].key \in live /\ Becomes(c, [Carried(c) EXCEPT !.pc = "resend"])
  /\ UNCHANGED <<plane, caches, disturbed, failed>>

Send(c) ==
  /\ At(c, "send")
  /\ Attempt(c) \/ (call[c].key \notin live \cup {0} /\ Goto(c, "reget"))
  /\ UNCHANGED <<plane, caches, disturbed, failed>>

Resend(c) ==
  /\ At(c, "resend")
  /\ Attempt(c) \/ (call[c].key \notin live /\ Ends(c, "rejected"))
  /\ UNCHANGED <<plane, caches, disturbed, failed>>

(***************************************************************************)
(* refresh_api_key: another call's new key if the cache has one, else the  *)
(* cached key is dropped, in the replica's memory too, and one minted.     *)
(***************************************************************************)
\* The cached key is taken for new without being compared.
RegetUncompared(c) ==
  /\ At(c, "reget")
  /\ \/ /\ Cached(c) # 0
        /\ Becomes(c, [call[c] EXCEPT !.pc = "resend", !.key = Cached(c)])
     \/ /\ Cached(c) = 0 \/ ValkeyFails
        /\ Goto(c, "drop")
  /\ UNCHANGED <<plane, caches, disturbed, failed>>

Reget(c) ==
  /\ At(c, "reget")
  /\ \/ /\ Cached(c) \notin {0, call[c].key}
        /\ Becomes(c, [call[c] EXCEPT !.pc = "resend", !.key = Cached(c)])
     \/ /\ Cached(c) \in {0, call[c].key} \/ ValkeyFails
        /\ Goto(c, "drop")
  /\ UNCHANGED <<plane, caches, disturbed, failed>>

Drop(c) ==
  /\ At(c, "drop")
  /\ Stores(c, 0)
  /\ Goto(c, "list")
  /\ UNCHANGED <<plane, disturbed, failed>>

\* The tool goes on with the same client, or answers.
More(c) ==
  /\ At(c, "done")
  /\ Becomes(c, [call[c] EXCEPT !.pc = "send", !.reply = "none", !.effects = 0])
  /\ UNCHANGED <<plane, caches, disturbed, failed>>

End(c) ==
  /\ At(c, "done")
  /\ Becomes(c, Idle)
  /\ disturbed' = disturbed \ {c}
  /\ failed' = failed \ {c}
  /\ UNCHANGED <<plane, caches>>

-----------------------------------------------------------------------------
(***************************************************************************)
(* The surroundings: a user deletes a token in Plane, a Valkey entry       *)
(* expires or is evicted, a replica restarts.                              *)
(***************************************************************************)
RevokedInPlane(k) ==
  /\ k \in live
  /\ live' = live \ {k}
  /\ disturbed' = disturbed \cup {c \in Call : call[c].user = keyOf[k]}
  /\ UNCHANGED <<minted, keyOf, caches, call, failed>>

Evict(u) ==
  /\ valkey[u] # 0
  /\ valkey' = [valkey EXCEPT ![u] = 0]
  /\ UNCHANGED <<plane, redis, memory, call, disturbed, failed>>

Restart(p) ==
  /\ memory' = [memory EXCEPT ![p] = [u \in User |-> 0]]
  /\ call' = [c \in Call |-> IF call[c].replica = p THEN Idle ELSE call[c]]
  /\ disturbed' = {c \in disturbed : call[c].replica # p}
  /\ failed' = {c \in failed : call[c].replica # p}
  /\ UNCHANGED <<plane, redis, valkey>>

Next ==
  \/ \E c \in Call :
       \/ \E p \in Replica, u \in User : Start(c, p, u)
       \/ Get(c) \/ List(c) \/ Revoke(c) \/ Create(c) \/ Set(c)
       \/ Send(c) \/ Reget(c) \/ Drop(c) \/ Resend(c) \/ More(c) \/ End(c)
  \/ \E k \in Key : RevokedInPlane(k)
  \/ \E u \in User : Evict(u)
  \/ \E p \in Replica : Restart(p)

Spec == Init /\ [][Next]_vars

-----------------------------------------------------------------------------
(***************************************************************************)
(* Safety.                                                                 *)
(***************************************************************************)
Minting == {"drop", "list", "revoke", "create", "set"}

(***************************************************************************)
(* A call sends no other user's key, whichever cache, replica or fallback  *)
(* it came from: the X-Api-Key decides whom Plane takes the caller for.    *)
(***************************************************************************)
KeysStayWithTheirUser ==
  \A c \in Call : call[c].key # 0 => keyOf[call[c].key] = call[c].user

(***************************************************************************)
(* apiretry._is_token_rejection: only a call whose own key Plane no longer *)
(* holds drops, deletes and mints; a permission denial never costs the     *)
(* other replicas the live key they share.                                 *)
(***************************************************************************)
OnlyDeadKeysReplaced ==
  \A c \in Call : call[c].pc \in Minting => call[c].key \notin live

(***************************************************************************)
(* The retry never repeats what Plane has already done: a request that was *)
(* carried out, answered or not, is not sent again.                        *)
(***************************************************************************)
ActedOnOnce ==
  \A c \in Call : call[c].effects > 0 => At(c, "done")

(***************************************************************************)
(* The bridge heals itself: whatever dead key was cached, in Valkey or in  *)
(* memory, a call ends with its key rejected, or without one, only if its  *)
(* mint failed or another party touched the user's keys meanwhile.         *)
(***************************************************************************)
HealsUnlessDisturbed ==
  \A c \in Call :
    call[c].reply \in {"rejected", "unauthenticated"} => c \in disturbed \cup failed

(***************************************************************************)
(* _revoke_existing: a mint nobody interferes with leaves its token as the *)
(* only one of the user, whatever earlier calls and crashes left behind.   *)
(***************************************************************************)
MintLeavesOneKey ==
  \A c \in Call :
    At(c, "set") /\ c \notin disturbed \cup failed => KeysOf(call[c].user) = {call[c].fresh}

(***************************************************************************)
(* refresh_api_key: "a burst of rejected calls costs one mint between them *)
(* instead of one mint each".                                              *)
(***************************************************************************)
OneMintPerBurst ==
  \A c, d \in Call :
    /\ call[c].pc \in Minting /\ call[d].pc \in Minting
    /\ call[c].key # 0 /\ call[c].key = call[d].key
    => c = d
=============================================================================
