---------------------------- MODULE ReplayCache ----------------------------
(***************************************************************************)
(* The data structure behind moneta/refresh.py's RecentRefreshes: a        *)
(* dictionary kept in insertion order (an OrderedDict, here a sequence of  *)
(* entries, oldest first) of the tokens issued for refresh tokens that     *)
(* were just rotated.                                                      *)
(*                                                                         *)
(* A refresh token is a number; an issued pair of access and refresh token *)
(* is named by its refresh token.  An entry is                             *)
(*   [key, client, next, life, at]                                         *)
(* the rotated token, the client it was issued to, the pair it was         *)
(* exchanged for, that pair's expires_in, and the time of recording.       *)
(* Scopes and the rotated token's own expiry are carried unread by the     *)
(* code and left out, and so is the hashing of the key.                    *)
(***************************************************************************)
EXTENDS Integers, Sequences

CONSTANTS Window,    \* REPLAY_WINDOW_SECONDS
          Capacity   \* REPLAY_CAPACITY

ASSUME ReplayCacheAssumption == Window \in Nat /\ Capacity \in Nat \ {0}

Replay(Token, Client) ==
  [key : Token, client : Client, next : Token, life : Nat, at : Nat]

Entries(cache) == {cache[i] : i \in DOMAIN cache}

(***************************************************************************)
(* Forgetting: _expired, _purge_expired and _evict_overflow.  Both loops   *)
(* drop entries from the oldest end only.                                  *)
(***************************************************************************)
\* An entry dropped a second early.
ExpiredEarly(e, now) == now - e.at >= Window

Expired(e, now) == now - e.at > Window

FirstFresh(cache, now, i) ==
  /\ ~Expired(cache[i], now)
  /\ \A j \in 1..(i - 1) : Expired(cache[j], now)

Purged(cache, now) ==
  IF \E i \in DOMAIN cache : FirstFresh(cache, now, i)
  THEN SubSeq(cache, CHOOSE i \in DOMAIN cache : FirstFresh(cache, now, i), Len(cache))
  ELSE <<>>

\* Overflow evicted from the wrong end.
NewestEvicted(cache) ==
  IF Len(cache) > Capacity THEN SubSeq(cache, 1, Capacity) ELSE cache

Evicted(cache) ==
  IF Len(cache) > Capacity
  THEN SubSeq(cache, Len(cache) - Capacity + 1, Len(cache))
  ELSE cache

(***************************************************************************)
(* RecentRefreshes.record: purge, drop an earlier entry of the same key,   *)
(* append the new one, evict.                                              *)
(***************************************************************************)
Without(cache, key) ==
  IF \E i \in DOMAIN cache : cache[i].key = key
  THEN LET i == CHOOSE i \in DOMAIN cache : cache[i].key = key
       IN SubSeq(cache, 1, i - 1) \o SubSeq(cache, i + 1, Len(cache))
  ELSE cache

Recorded(cache, e, now) ==
  Evicted(Append(Without(Purged(cache, now), e.key), e))

(***************************************************************************)
(* Answering: _lookup is by key and then by client; _newest_in_chain       *)
(* follows an entry's pair to the entry made when that pair was rotated in *)
(* turn, until there is none or the loop has made as many hops as there    *)
(* are entries.                                                            *)
(***************************************************************************)
\* A lookup that does not compare the client.
MatchingAnyClient(cache, key, client) == {e \in Entries(cache) : e.key = key}

Matching(cache, key, client) ==
  {e \in Entries(cache) : e.key = key /\ e.client = client}

IsChain(cache, client, path, n) ==
  \A i \in 1..n : path[i] \in Matching(cache, path[i - 1].next, client)

\* The successor looked up once, not in a loop.
OneHop(cache) == 1

Hops(cache) == Len(cache)

ChainEnds(cache, e, client) ==
  {m \in Entries(cache) :
     \E n \in 0..Hops(cache) :
       /\ \E path \in [0..n -> Entries(cache)] :
            path[0] = e /\ path[n] = m /\ IsChain(cache, client, path, n)
       /\ n = Hops(cache) \/ Matching(cache, m.next, client) = {}}

(***************************************************************************)
(* What RecentRefreshes.tokens answers, as a set with no entry when it     *)
(* answers None and one when it answers a replay.                          *)
(***************************************************************************)
Replayed(cache, key, client, now) ==
  LET kept == Purged(cache, now)
  IN UNION {ChainEnds(kept, e, client) : e \in Matching(kept, key, client)}

(***************************************************************************)
(* _aged: the lifetime the pair has left, if it has one: FastMCP issues no *)
(* pair without expires_in, which _aged would hand on as it is.            *)
(***************************************************************************)
\* A replayed lifetime that is not kept above zero.
Unfloored(e, now) == e.life - (now - e.at)

Aged(e, now) ==
  IF e.life - (now - e.at) > 1 THEN e.life - (now - e.at) ELSE 1
=============================================================================
