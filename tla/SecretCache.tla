----------------------------- MODULE SecretCache -----------------------------
(***************************************************************************)
(* aws_secrets.get_secret for one secret: threads that need the Valkey     *)
(* password share a cached copy that is good for TTL seconds, and fetch it *)
(* from Secrets Manager, without the lock, when it is not.  The secret is  *)
(* rotated underneath them.  A version is a number, 0 is none; everything  *)
(* under _cache_lock is one action.                                        *)
(***************************************************************************)
EXTENDS Integers

CONSTANTS Thread,
          TTL,         \* AWS_SECRET_CACHE_TTL
          FetchTime,   \* the longest an answer takes to arrive (boto3's timeouts)
          Forces,      \* values of force_refresh in use
          MaxVersion,  \* bound on rotations
          MaxTime      \* bound on the clock

ASSUME SecretAssumption ==
  /\ TTL \in Nat /\ FetchTime \in Nat /\ MaxTime \in Nat /\ MaxVersion \in Nat \ {0}
  /\ Forces \subseteq BOOLEAN

VARIABLES now,      \* time.time
          version,  \* the version Secrets Manager holds
          since,    \* history: when a version became current
          cached,   \* the entry of _SECRET_CACHE: its value and fetched_at, value 0 for none
          thread    \* what each thread is doing

vars == <<now, version, since, cached, thread>>

Version == 1..MaxVersion
Time == 0..MaxTime

\* value and read: what Secrets Manager answered, and when it did.
Threads ==
  [pc : {"idle", "fetch", "store", "done"}, force : Forces \cup {FALSE},
   value : 0..MaxVersion, read : Time]

Idle == [pc |-> "idle", force |-> FALSE, value |-> 0, read |-> 0]

TypeOK ==
  /\ now \in Time
  /\ version \in Version
  /\ since \in [Version -> Time]
  /\ cached \in [value : 0..MaxVersion, at : Time]
  /\ thread \in [Thread -> Threads]
  /\ \A t \in Thread : thread[t].pc \in {"store", "done"} => thread[t].value \in Version

Init ==
  /\ now = 0
  /\ version = 1
  /\ since = [v \in Version |-> 0]
  /\ cached = [value |-> 0, at |-> 0]
  /\ thread = [t \in Thread |-> Idle]

-----------------------------------------------------------------------------
At(t, step) == thread[t].pc = step
Becomes(t, r) == thread' = [thread EXCEPT ![t] = r]

\* An entry that is fresh for the whole of its last second.
FreshTooLong == cached.value # 0 /\ now - cached.at <= TTL

Fresh == cached.value # 0 /\ now - cached.at < TTL

Returns(t, v, r) == Becomes(t, [thread[t] EXCEPT !.pc = "done", !.value = v, !.read = r])

\* The check before the fetch.
Lookup(t, force) ==
  /\ At(t, "idle")
  /\ \/ /\ ~force /\ Fresh
        /\ Returns(t, cached.value, cached.at)
     \/ /\ force \/ ~Fresh
        /\ Becomes(t, [Idle EXCEPT !.pc = "fetch", !.force = force])
  /\ UNCHANGED <<now, version, since, cached>>

\* A call that raises is taken for an empty answer.
FetchSwallowing(t) ==
  /\ At(t, "fetch")
  /\ \E v \in {0, version} :
       Becomes(t, [thread[t] EXCEPT !.pc = "store", !.value = v, !.read = now])
  /\ UNCHANGED <<now, version, since, cached>>

\* Secrets Manager answers, or the call raises.
Fetch(t) ==
  /\ At(t, "fetch")
  /\ \/ Becomes(t, [thread[t] EXCEPT !.pc = "store", !.value = version, !.read = now])
     \/ Becomes(t, Idle)
  /\ UNCHANGED <<now, version, since, cached>>

\* The fetched value is installed without looking for a fresh one.
StoreUnchecked(t) ==
  /\ At(t, "store")
  /\ cached' = [value |-> thread[t].value, at |-> now]
  /\ Returns(t, thread[t].value, thread[t].read)
  /\ UNCHANGED <<now, version, since>>

\* The check after the fetch: another thread's fresh value wins, unless forced.
Store(t) ==
  /\ At(t, "store")
  /\ \/ /\ ~thread[t].force /\ Fresh
        /\ Returns(t, cached.value, cached.at)
        /\ UNCHANGED cached
     \/ /\ thread[t].force \/ ~Fresh
        /\ cached' = [value |-> thread[t].value, at |-> now]
        /\ Returns(t, thread[t].value, thread[t].read)
  /\ UNCHANGED <<now, version, since>>

\* get_credentials takes the password out of its copy, or raises where the secret
\* lacks the key: the thread is done with it either way.
Done(t) ==
  /\ At(t, "done")
  /\ Becomes(t, Idle)
  /\ UNCHANGED <<now, version, since, cached>>

\* The secret is rotated.
Rotate ==
  /\ version < MaxVersion
  /\ version' = version + 1
  /\ since' = [since EXCEPT ![version + 1] = now]
  /\ UNCHANGED <<now, cached, thread>>

\* No answer is under way for longer than FetchTime.
Tick ==
  /\ now < MaxTime
  /\ \A t \in Thread : At(t, "store") => now - thread[t].read < FetchTime
  /\ \A t \in Thread : ~At(t, "done")
  /\ now' = now + 1
  /\ UNCHANGED <<version, since, cached, thread>>

Next ==
  \/ \E t \in Thread :
       \/ \E force \in Forces : Lookup(t, force)
       \/ Fetch(t) \/ Store(t) \/ Done(t)
  \/ Rotate
  \/ Tick

Spec == Init /\ [][Next]_vars

-----------------------------------------------------------------------------
(***************************************************************************)
(* A thread is never given a password that was replaced TTL + FetchTime    *)
(* seconds ago or more: a rotation reaches every connection in time,       *)
(* whatever fetches overlap and whether they are forced or not.            *)
(***************************************************************************)
Outdated(v) == v < version /\ now - since[v + 1] >= TTL + FetchTime

NothingOutdated ==
  TTL > 0 => \A t \in Thread : At(t, "done") => ~Outdated(thread[t].value)

(***************************************************************************)
(* A slow fetch does not bring an older password back over a newer one, as *)
(* long as an answer takes less than TTL: the second look at the cache,    *)
(* under the lock, keeps what another thread installed meanwhile.  Only a  *)
(* forced refresh, which bypasses the cache, installs what it was given.   *)
(***************************************************************************)
ForcedStore == \E t \in Thread : At(t, "store") /\ thread[t].force /\ At(t, "done")'

NeverGoesBack == [][cached'.value >= cached.value \/ ForcedStore]_vars
=============================================================================
