--------------------------- MODULE RecentRefreshes ---------------------------
(***************************************************************************)
(* moneta/refresh.py RecentRefreshes as a component of its own: a clock    *)
(* and the callers that record a rotation or ask for a replay, in any      *)
(* order.  Token exchange drives it in RefreshExchange; here every legal   *)
(* sequence of calls is tried.                                             *)
(***************************************************************************)
EXTENDS ReplayCache, FiniteSets

CONSTANTS Client,      \* OAuth clients
          MaxToken,    \* bound on refresh tokens issued
          MaxTime,     \* bound on the clock
          Lifetimes,   \* the expires_in values an exchange may answer
          None         \* no answer

ASSUME RecentRefreshesAssumption ==
  /\ IsFiniteSet(Client) /\ Client # {} /\ MaxToken \in Nat /\ MaxTime \in Nat
  /\ Lifetimes \subseteq Nat \ {0}

Token == 1..MaxToken

VARIABLES clock,     \* time.monotonic
          replays,   \* _replays
          holder,    \* holder[t]: the client token t was issued to
          answer     \* what the last lookup returned

vars == <<clock, replays, holder, answer>>

TypeOK ==
  /\ clock \in 0..MaxTime
  /\ replays \in Seq(Replay(Token, Client))
  /\ holder \in Seq(Client)
  /\ answer \in [next : Token, left : Nat \ {0}] \cup {None}

Init ==
  /\ clock = 0
  /\ replays = <<>>
  /\ holder \in [1..Cardinality(Client) -> Client]
  /\ answer = None

(***************************************************************************)
(* record(refresh_token, tokens): any token issued so far has just been    *)
(* exchanged for a fresh pair.                                             *)
(***************************************************************************)
Record(t, life) ==
  /\ Len(holder) < MaxToken
  /\ LET e == [key |-> t, client |-> holder[t], next |-> Len(holder) + 1,
               life |-> life, at |-> clock]
     IN replays' = Recorded(replays, e, clock)
  /\ holder' = Append(holder, holder[t])
  /\ UNCHANGED <<clock, answer>>

(***************************************************************************)
(* tokens(token, client_id); refresh_token(token, client_id) makes the     *)
(* same lookup and differs only in what it builds from the entry.          *)
(***************************************************************************)
Ask(t, c) ==
  /\ replays' = Purged(replays, clock)
  /\ LET found == Replayed(replays, t, c, clock)
     IN IF found = {} THEN answer' = None
        ELSE \E m \in found : answer' = [next |-> m.next, left |-> Aged(m, clock)]
  /\ UNCHANGED <<clock, holder>>

Tick ==
  /\ clock < MaxTime
  /\ clock' = clock + 1
  /\ UNCHANGED <<replays, holder, answer>>

Next ==
  \/ \E t \in 1..Len(holder), life \in Lifetimes : Record(t, life)
  \/ \E t \in Token, c \in Client : Ask(t, c)
  \/ Tick

Spec == Init /\ [][Next]_vars

-----------------------------------------------------------------------------
(***************************************************************************)
(* The dictionary stays within its capacity and holds each key once, in    *)
(* order of recording: the order is what lets _purge_expired stop at the   *)
(* first entry that has not expired.                                       *)
(***************************************************************************)
OldestFirst ==
  /\ Len(replays) <= Capacity
  /\ \A i, j \in DOMAIN replays :
       i < j => replays[i].key # replays[j].key /\ replays[i].at <= replays[j].at

(***************************************************************************)
(* A lookup that finds a replay is answered with one pair, and with the    *)
(* end of its chain: _newest_in_chain never stops, for want of hops, at a  *)
(* pair the window knows to have been rotated in turn, however the entries *)
(* were recorded, purged and evicted.                                      *)
(***************************************************************************)
OneAnswer ==
  \A t \in Token, c \in Client :
    LET found == Replayed(replays, t, c, clock)
        kept  == Purged(replays, clock)
    IN /\ Cardinality(found) = IF Matching(kept, t, c) = {} THEN 0 ELSE 1
       /\ \A m \in found : Matching(kept, m.next, c) = {}

(***************************************************************************)
(* The dictionary implements the promise of the replay window: entries     *)
(* purged lazily and only from the old end are never answered with after   *)
(* Window, never forgotten before it, and the lifetime handed out is the   *)
(* one the pair has left.                                                  *)
(***************************************************************************)
Promise == INSTANCE ReplayMemory WITH
  memory <- {[key |-> e.key, client |-> e.client, next |-> e.next,
              at |-> e.at, until |-> e.at + e.life] :
               e \in {x \in Entries(replays) : ~Expired(x, clock)}}

ReplayPromise == Promise!Spec
=============================================================================
