------------------------- MODULE ApiTokenBridgeProofs -------------------------
(***************************************************************************)
(* What holds of ApiTokenBridge for any number of calls, replicas, users   *)
(* and tokens: keys stay with their user, only dead ones are replaced, and *)
(* the bridge heals unless it is disturbed.                                *)
(***************************************************************************)
EXTENDS ApiTokenBridge, TLAPS

(***************************************************************************)
(* A key k is none, or one of the m minted, for the user u; o is keyOf.    *)
(***************************************************************************)
Owned(k, u, m, o) == k # 0 => k \in 1..m /\ o[k] = u

(***************************************************************************)
(* What the record x of a call says of the keys it holds.                  *)
(***************************************************************************)
Holds(x, m, o) ==
  /\ x.pc = "idle" => x = Idle
  /\ x.pc # "idle" => x.user \in User /\ x.replica \in Replica
  /\ Owned(x.key, x.user, m, o) /\ Owned(x.fresh, x.user, m, o)
  /\ \A k \in x.pending : Owned(k, x.user, m, o)

(***************************************************************************)
(* How far the call is, from its record and the tokens l that Plane        *)
(* accepts: a call that mints has seen its own key, if any, die.           *)
(***************************************************************************)
Progress(x, l) ==
  /\ x.effects > 0 => x.pc = "done"
  /\ x.reply # "none" => x.pc = "done"
  /\ x.pending # {} => x.pc = "revoke"
  /\ x.fresh # 0 <=> x.pc = "set"
  /\ x.pc = "get" => x.key = 0
  /\ x.pc \in Minting \cup {"reget"} => x.key \notin l

(***************************************************************************)
(* What a call with the record x, that nobody disturbed and whose requests *)
(* did not fail, knows of its user's keys (mine) and of the cached one.    *)
(***************************************************************************)
Undisturbed(x, mine, cached) ==
  /\ x.reply \notin {"rejected", "unauthenticated"}
  /\ x.pc = "revoke" => mine = x.pending
  /\ x.pc = "create" => mine = {}
  /\ x.pc = "set" => mine = {x.fresh}
  /\ x.pc \in {"send", "reget"} => x.key # 0 /\ (x.key \in mine \/ cached \in {0, x.key})
  /\ x.pc \in {"resend", "done"} => x.key \in mine

Mine(u, l, o) == {k \in l : o[k] = u}

CachedFor(x, r, v, m) == IF r THEN v[x.user] ELSE m[x.replica][x.user]

CachesOwned ==
  /\ \A u \in User : Owned(valkey[u], u, minted, keyOf)
  /\ \A p \in Replica, u \in User : Owned(memory[p][u], u, minted, keyOf)

CallOwned == \A c \in Call : Holds(call[c], minted, keyOf)

CallProgress == \A c \in Call : Progress(call[c], live)

CallUndisturbed ==
  \A c \in Call \ (disturbed \cup failed) :
    call[c].pc # "idle" =>
      Undisturbed(call[c], Mine(call[c].user, live, keyOf),
                  CachedFor(call[c], redis, valkey, memory))

BridgeInv == TypeOK /\ CachesOwned /\ CallOwned /\ CallProgress /\ CallUndisturbed

-----------------------------------------------------------------------------
(***************************************************************************)
(* The steps in general.                                                   *)
(***************************************************************************)

\* Tokens are numbers, and none is not a token.
LEMMA Keys == MaxKey \in Nat /\ Key \subseteq Nat /\ 0 \notin Key /\ 0 \in 0..MaxKey
  BY BridgeAssumption DEF Key

\* A call that is not there is well typed, and holds nothing.
LEMMA IdleHolds ==
  ASSUME NEW m, NEW o, NEW l
  PROVE  Idle \in Calls /\ Holds(Idle, m, o) /\ Progress(Idle, l)
  <1>1. /\ Idle.pc = "idle" /\ Idle.replica = NoReplica /\ Idle.user = NoUser /\ Idle.key = 0
        /\ Idle.pending = {} /\ Idle.fresh = 0 /\ Idle.effects = 0 /\ Idle.reply = "none"
    BY DEF Idle
  <1>2. Idle \in Calls
    BY Keys DEF Idle, Calls, Steps, Replies
  <1>3. Holds(Idle, m, o)
    BY <1>1 DEF Holds, Owned
  <1>4. Progress(Idle, l)
    BY <1>1 DEF Progress, Minting
  <1> QED
    BY <1>2, <1>3, <1>4

(***************************************************************************)
(* The tokens grow: new ones come after the old, which keep their user and *)
(* do not come back to life.                                               *)
(***************************************************************************)
PlaneGrows ==
  /\ minted' \in 0..MaxKey /\ minted \in 0..minted'
  /\ live' \in SUBSET (1..minted') /\ live' \cap (1..minted) \subseteq live
  /\ keyOf' \in [Key -> User \cup {NoUser}]
  /\ \A k \in 1..minted : keyOf'[k] = keyOf[k]

LEMMA PlaneKept ==
  ASSUME TypeOK, UNCHANGED plane
  PROVE  PlaneGrows
  BY Keys DEF TypeOK, plane, PlaneGrows

\* What a call holds, it still holds when tokens are minted or die.
LEMMA HoldsForGood ==
  ASSUME TypeOK, PlaneGrows, NEW x, Holds(x, minted, keyOf)
  PROVE  Holds(x, minted', keyOf')
  <1>1. \A k, u : Owned(k, u, minted, keyOf) => Owned(k, u, minted', keyOf')
    BY Keys DEF Owned, PlaneGrows, TypeOK
  <1> QED
    BY <1>1 DEF Holds

LEMMA ProgressForGood ==
  ASSUME TypeOK, PlaneGrows, NEW x, Holds(x, minted, keyOf), Progress(x, live)
  PROVE  Progress(x, live')
  <1>1. x.key \in live' => x.key \in live
    <2>1. x.key \in live' => x.key \in 1..minted
      BY Keys DEF Holds, Owned, PlaneGrows, TypeOK
    <2> QED
      BY <2>1 DEF PlaneGrows
  <1> QED
    BY <1>1 DEF Progress

(***************************************************************************)
(* A call d for which nothing happened: it is not newly undisturbed, and   *)
(* then its user's tokens and its cached one are as they were, or the      *)
(* cached one is gone.                                                     *)
(***************************************************************************)
Unaffected(d) ==
  d \notin disturbed' \cup failed' =>
    /\ d \notin disturbed \cup failed
    /\ Mine(call[d].user, live', keyOf') = Mine(call[d].user, live, keyOf)
    /\ CachedFor(call[d], redis', valkey', memory') \in
         {0, CachedFor(call[d], redis, valkey, memory)}

LEMMA UndisturbedForGood ==
  ASSUME NEW x, NEW mine, NEW a, NEW b, Undisturbed(x, mine, a), b \in {0, a}
  PROVE  Undisturbed(x, mine, b)
  BY DEF Undisturbed

CachesTyped ==
  /\ redis' \in BOOLEAN
  /\ valkey' \in [User -> 0..MaxKey]
  /\ memory' \in [Replica -> [User -> 0..MaxKey]]

(***************************************************************************)
(* A step of one call, which becomes t.                                    *)
(***************************************************************************)
LEMMA OneMoves ==
  ASSUME BridgeInv, NEW c \in Call, NEW t \in Calls, Becomes(c, t),
         PlaneGrows, CachesTyped, CachesOwned',
         disturbed' \in SUBSET Call, failed' \in SUBSET Call,
         Holds(t, minted', keyOf'), Progress(t, live'),
         \A d \in Call \ {c} : call[d].pc # "idle" => Unaffected(d),
         c \notin disturbed' \cup failed' /\ t.pc # "idle" =>
           Undisturbed(t, Mine(t.user, live', keyOf'), CachedFor(t, redis', valkey', memory'))
  PROVE  BridgeInv'
  <1>1. /\ call' \in [Call -> Calls] /\ call'[c] = t
        /\ \A d \in Call \ {c} : call'[d] = call[d]
    BY DEF BridgeInv, TypeOK, Becomes
  <1>2. \A d \in Call : Holds(call'[d], minted', keyOf')
    <2>1. \A d \in Call : Holds(call[d], minted', keyOf')
      BY HoldsForGood DEF BridgeInv, CallOwned
    <2> QED
      BY <1>1, <2>1
  <1>3. \A d \in Call : Progress(call'[d], live')
    <2>1. \A d \in Call : Progress(call[d], live')
      BY ProgressForGood DEF BridgeInv, CallOwned, CallProgress
    <2> QED
      BY <1>1, <2>1
  <1>4. ASSUME NEW d \in Call \ (disturbed' \cup failed'), call'[d].pc # "idle"
        PROVE  Undisturbed(call'[d], Mine(call'[d].user, live', keyOf'),
                           CachedFor(call'[d], redis', valkey', memory'))
    <2>1. CASE d = c
      BY <1>1, <1>4, <2>1
    <2>2. CASE d # c
      <3>1. call'[d] = call[d] /\ Unaffected(d) /\ d \in Call \ (disturbed \cup failed)
        BY <1>1, <1>4, <2>2 DEF Unaffected
      <3>2. Undisturbed(call[d], Mine(call[d].user, live, keyOf),
                        CachedFor(call[d], redis, valkey, memory))
        BY <1>4, <3>1 DEF BridgeInv, CallUndisturbed
      <3>3. Undisturbed(call[d], Mine(call[d].user, live, keyOf),
                        CachedFor(call[d], redis', valkey', memory'))
        BY <1>4, <3>1, <3>2, UndisturbedForGood DEF Unaffected
      <3> QED
        BY <1>4, <3>1, <3>3 DEF Unaffected
    <2> QED
      BY <2>1, <2>2
  <1>5. TypeOK'
    <2>1. \A d \in Call : call'[d].pc # "idle" => call'[d].user \in User /\ call'[d].replica \in Replica
      BY <1>2 DEF Holds
    <2> QED
      BY <1>1, <2>1 DEF TypeOK, PlaneGrows, CachesTyped
  <1> QED
    BY <1>2, <1>3, <1>4, <1>5 DEF BridgeInv, CallOwned, CallProgress, CallUndisturbed

(***************************************************************************)
(* A step that leaves the tokens and the caches alone, and disturbs no     *)
(* one: what the call becomes is all there is to show.                     *)
(***************************************************************************)
LEMMA QuietMove ==
  ASSUME BridgeInv, NEW c \in Call, NEW t \in Calls, Becomes(c, t),
         UNCHANGED <<plane, caches>>,
         disturbed' \in SUBSET Call, failed' \in SUBSET Call,
         (disturbed \cup failed) \ {c} \subseteq disturbed' \cup failed',
         Holds(t, minted, keyOf), Progress(t, live),
         c \notin disturbed' \cup failed' /\ t.pc # "idle" =>
           Undisturbed(t, Mine(t.user, live, keyOf), CachedFor(t, redis, valkey, memory))
  PROVE  BridgeInv'
  <1>1. /\ minted' = minted /\ live' = live /\ keyOf' = keyOf
        /\ redis' = redis /\ valkey' = valkey /\ memory' = memory
    BY DEF plane, caches
  <1>2. PlaneGrows /\ CachesTyped /\ CachesOwned'
    BY <1>1, PlaneKept DEF BridgeInv, TypeOK, CachesTyped, CachesOwned, plane
  <1>3. \A d \in Call \ {c} : Unaffected(d)
    BY <1>1 DEF Unaffected
  <1>4. Holds(t, minted', keyOf') /\ Progress(t, live')
    BY <1>1
  <1>5. c \notin disturbed' \cup failed' /\ t.pc # "idle" =>
          Undisturbed(t, Mine(t.user, live', keyOf'), CachedFor(t, redis', valkey', memory'))
    BY <1>1
  <1> QED
    BY <1>2, <1>3, <1>4, <1>5, OneMoves

-----------------------------------------------------------------------------
(***************************************************************************)
(* The actions.                                                            *)
(***************************************************************************)

\* What is known of a call that is there, and of what it finds cached.
Known(c, x, k) ==
  /\ x \in Calls /\ x.user \in User /\ x.replica \in Replica
  /\ Holds(x, minted, keyOf) /\ Progress(x, live)
  /\ c \notin disturbed \cup failed => Undisturbed(x, Mine(x.user, live, keyOf), k)
  /\ k \in 0..MaxKey /\ Owned(k, x.user, minted, keyOf)
  /\ k = CachedFor(x, redis, valkey, memory)

LEMMA CallKnown ==
  ASSUME BridgeInv, NEW c \in Call, call[c].pc # "idle"
  PROVE  Known(c, call[c], Cached(c))
  <1>1. /\ call[c] \in Calls /\ call[c].user \in User /\ call[c].replica \in Replica
        /\ Holds(call[c], minted, keyOf) /\ Progress(call[c], live)
    BY DEF BridgeInv, TypeOK, CallOwned, CallProgress
  <1>2. Cached(c) = CachedFor(call[c], redis, valkey, memory)
    BY DEF Cached, CachedFor
  <1>3. Cached(c) \in 0..MaxKey /\ Owned(Cached(c), call[c].user, minted, keyOf)
    BY <1>1 DEF Cached, BridgeInv, TypeOK, CachesOwned
  <1>4. c \notin disturbed \cup failed =>
          Undisturbed(call[c], Mine(call[c].user, live, keyOf), Cached(c))
    BY <1>2 DEF BridgeInv, CallUndisturbed
  <1> QED
    BY <1>1, <1>2, <1>3, <1>4 DEF Known

\* A token is among its user's as long as Plane accepts it.
LEMMA LiveIsMine ==
  ASSUME TypeOK, NEW k, NEW u, Owned(k, u, minted, keyOf)
  PROVE  k \in Mine(u, live, keyOf) <=> k \in live
  BY Keys DEF TypeOK, Owned, Mine

LEMMA StartKeeps ==
  ASSUME BridgeInv, NEW c \in Call, NEW p \in Replica, NEW u \in User, Start(c, p, u)
  PROVE  BridgeInv'
  <1> DEFINE t == [Idle EXCEPT !.pc = "get", !.replica = p, !.user = u]
  <1>1. /\ t.pc = "get" /\ t.replica = p /\ t.user = u /\ t.key = 0 /\ t.pending = {}
        /\ t.fresh = 0 /\ t.effects = 0 /\ t.reply = "none" /\ t \in Calls
    <2>1. Idle \in Calls
      BY IdleHolds
    <2>2. t \in Calls
      BY <2>1 DEF Calls, Steps
    <2> QED
      BY <2>2 DEF Idle
  <1>2. Becomes(c, t) /\ UNCHANGED <<plane, caches, disturbed, failed>>
    BY DEF Start
  <1> HIDE DEF t
  <1>3. 0 \notin live /\ disturbed \in SUBSET Call /\ failed \in SUBSET Call
    BY Keys DEF BridgeInv, TypeOK
  <1>4. /\ Holds(t, minted, keyOf) /\ Progress(t, live)
        /\ Undisturbed(t, Mine(t.user, live, keyOf), CachedFor(t, redis, valkey, memory))
    BY <1>1, <1>3 DEF Holds, Owned, Progress, Undisturbed, Minting
  <1> QED
    BY <1>1, <1>2, <1>3, <1>4, QuietMove

LEMMA GetKeeps ==
  ASSUME BridgeInv, NEW c \in Call, Get(c)
  PROVE  BridgeInv'
  <1> DEFINE x == call[c]
             k == Cached(c)
             t == [x EXCEPT !.pc = "send", !.key = k]
             n == [x EXCEPT !.pc = "list"]
  <1>1. x.pc = "get" /\ Known(c, x, k)
    BY CallKnown DEF Get, At
  <1>2. /\ t.pc = "send" /\ t.replica = x.replica /\ t.user = x.user /\ t.key = k
        /\ t.pending = x.pending /\ t.fresh = x.fresh /\ t.effects = x.effects
        /\ t.reply = x.reply /\ t \in Calls
    BY <1>1 DEF Known, Calls, Steps
  <1>3. /\ n.pc = "list" /\ n.replica = x.replica /\ n.user = x.user /\ n.key = x.key
        /\ n.pending = x.pending /\ n.fresh = x.fresh /\ n.effects = x.effects
        /\ n.reply = x.reply /\ n \in Calls
    BY <1>1 DEF Known, Calls, Steps
  <1>4. (k # 0 /\ Becomes(c, t)) \/ Becomes(c, n)
    BY DEF Get, Goto
  <1>5. /\ UNCHANGED <<plane, caches, disturbed, failed>>
        /\ disturbed \in SUBSET Call /\ failed \in SUBSET Call
    BY DEF Get, BridgeInv, TypeOK
  <1>6. CachedFor(t, redis, valkey, memory) = k /\ CachedFor(n, redis, valkey, memory) = k
    BY <1>1, <1>2, <1>3 DEF Known, CachedFor
  <1> HIDE DEF x, k, t, n
  <1>7. ASSUME k # 0 PROVE /\ Holds(t, minted, keyOf) /\ Progress(t, live)
                           /\ c \notin disturbed \cup failed =>
                                Undisturbed(t, Mine(t.user, live, keyOf), k)
    BY <1>1, <1>2, <1>7 DEF Known, Holds, Owned, Progress, Undisturbed, Minting
  <1>8. /\ Holds(n, minted, keyOf) /\ Progress(n, live)
        /\ c \notin disturbed \cup failed => Undisturbed(n, Mine(n.user, live, keyOf), k)
    BY <1>1, <1>3, Keys DEF Known, Holds, Owned, Progress, Undisturbed, Minting, BridgeInv, TypeOK
  <1> QED
    BY <1>2, <1>3, <1>4, <1>5, <1>6, <1>7, <1>8, QuietMove

\* Every user's keys are among the tokens.
LEMMA MineTyped ==
  ASSUME TypeOK, NEW u
  PROVE  /\ Mine(u, live, keyOf) \in SUBSET Key /\ Mine(u, live, keyOf) = KeysOf(u)
         /\ \A k \in Mine(u, live, keyOf) : Owned(k, u, minted, keyOf)
  <1>1. live \subseteq 1..minted /\ minted \in 0..MaxKey
    BY DEF TypeOK
  <1>2. 1..minted \subseteq Key
    BY <1>1, Keys DEF Key
  <1>3. Mine(u, live, keyOf) \subseteq Key
    BY <1>1, <1>2 DEF Mine
  <1>4. Mine(u, live, keyOf) = KeysOf(u)
    BY DEF Mine, KeysOf
  <1>5. \A k \in Mine(u, live, keyOf) : Owned(k, u, minted, keyOf)
    BY <1>1 DEF Mine, Owned
  <1> QED
    BY <1>3, <1>4, <1>5

LEMMA ListKeeps ==
  ASSUME BridgeInv, NEW c \in Call, List(c)
  PROVE  BridgeInv'
  <1> DEFINE x == call[c]
             k == Cached(c)
             mine == KeysOf(x.user)
             step == IF mine = {} THEN "create" ELSE "revoke"
             t == [x EXCEPT !.pending = mine, !.pc = step]
             n == [x EXCEPT !.pc = "create"]
  <1>1. x.pc = "list" /\ Known(c, x, k)
    BY CallKnown DEF List, At
  <1>2. /\ mine = Mine(x.user, live, keyOf) /\ mine \in SUBSET Key
        /\ \A i \in mine : Owned(i, x.user, minted, keyOf)
    BY MineTyped DEF BridgeInv
  <1>3. /\ t.pc = step /\ t.replica = x.replica /\ t.user = x.user /\ t.key = x.key
        /\ t.pending = mine /\ t.fresh = x.fresh /\ t.effects = x.effects
        /\ t.reply = x.reply /\ t \in Calls
    BY <1>1, <1>2 DEF Known, Calls, Steps
  <1>4. /\ n.pc = "create" /\ n.replica = x.replica /\ n.user = x.user /\ n.key = x.key
        /\ n.pending = x.pending /\ n.fresh = x.fresh /\ n.effects = x.effects
        /\ n.reply = x.reply /\ n \in Calls
    BY <1>1 DEF Known, Calls, Steps
  <1>5. \/ Becomes(c, t) /\ UNCHANGED failed
        \/ Becomes(c, n) /\ failed' = failed \cup {c}
    BY DEF List, Goto
  <1>6. /\ UNCHANGED <<plane, caches, disturbed>>
        /\ disturbed \in SUBSET Call /\ failed \in SUBSET Call
    BY DEF List, BridgeInv, TypeOK
  <1>7. (step = "create" /\ mine = {}) \/ (step = "revoke" /\ mine # {})
    OBVIOUS
  <1> HIDE DEF x, k, mine, step, t, n
  <1>8. /\ Holds(t, minted, keyOf) /\ Progress(t, live)
        /\ c \notin disturbed \cup failed =>
             \A i : Undisturbed(t, Mine(t.user, live, keyOf), i)
    BY <1>1, <1>2, <1>3, <1>7 DEF Known, Holds, Owned, Progress, Undisturbed, Minting
  <1>9. Holds(n, minted, keyOf) /\ Progress(n, live)
    BY <1>1, <1>4 DEF Known, Holds, Owned, Progress, Minting
  <1>10. CASE Becomes(c, t) /\ UNCHANGED failed
    BY <1>3, <1>6, <1>8, <1>10, QuietMove
  <1>11. CASE Becomes(c, n) /\ failed' = failed \cup {c}
    BY <1>4, <1>6, <1>9, <1>11, QuietMove
  <1> QED
    BY <1>5, <1>10, <1>11

(***************************************************************************)
(* A call that touches its user's keys affects the undisturbed calls of    *)
(* other users only, whose keys these are not.                             *)
(***************************************************************************)
LEMMA OthersUnaffected ==
  ASSUME NEW c \in Call, NEW d \in Call \ {c}, Disturbs(c), failed \subseteq failed',
         call[d].user # call[c].user =>
           /\ Mine(call[d].user, live', keyOf') = Mine(call[d].user, live, keyOf)
           /\ CachedFor(call[d], redis', valkey', memory') =
                CachedFor(call[d], redis, valkey, memory)
  PROVE  Unaffected(d)
  <1>1. CASE call[d].user = call[c].user
    BY <1>1 DEF Disturbs, Unaffected
  <1>2. CASE call[d].user # call[c].user
    BY <1>2 DEF Disturbs, Unaffected
  <1> QED
    BY <1>1, <1>2

LEMMA RevokeKeeps ==
  ASSUME BridgeInv, NEW c \in Call, Revoke(c)
  PROVE  BridgeInv'
  <1> DEFINE x == call[c]
  <1>1. x.pc = "revoke" /\ Known(c, x, Cached(c))
    BY CallKnown DEF Revoke, At
  <1>2. PICK k \in x.pending :
          /\ Becomes(c, [x EXCEPT !.pending = @ \ {k},
                           !.pc = IF x.pending = {k} THEN "create" ELSE "revoke"])
          /\ \/ live' = live \ {k} /\ UNCHANGED failed
             \/ failed' = failed \cup {c} /\ UNCHANGED live
    BY DEF Revoke
  <1> DEFINE step == IF x.pending = {k} THEN "create" ELSE "revoke"
             t == [x EXCEPT !.pending = x.pending \ {k}, !.pc = step]
  <1>3. /\ t.pc = step /\ t.replica = x.replica /\ t.user = x.user /\ t.key = x.key
        /\ t.pending = x.pending \ {k} /\ t.fresh = x.fresh /\ t.effects = x.effects
        /\ t.reply = x.reply /\ t \in Calls
    BY <1>1 DEF Known, Calls, Steps
  <1>4. Becomes(c, t)
    BY <1>2
  <1>5. \/ step = "create" /\ x.pending \ {k} = {}
        \/ step = "revoke" /\ x.pending \ {k} # {}
    BY <1>2
  <1>6. /\ minted' = minted /\ keyOf' = keyOf /\ Disturbs(c)
        /\ redis' = redis /\ valkey' = valkey /\ memory' = memory
    BY DEF Revoke, caches
  <1>7. /\ live' \subseteq live /\ failed \subseteq failed'
        /\ disturbed' \in SUBSET Call /\ failed' \in SUBSET Call
    BY <1>2, <1>6 DEF Disturbs, BridgeInv, TypeOK
  <1>8. k \in Key /\ keyOf[k] = x.user
    BY <1>1, <1>2, Keys DEF Known, Holds, Owned, Calls
  <1>9. PlaneGrows /\ CachesTyped /\ CachesOwned'
    BY <1>6, <1>7, Keys DEF PlaneGrows, CachesTyped, CachesOwned, BridgeInv, TypeOK
  <1> HIDE DEF x, step, t
  <1>10. Holds(t, minted', keyOf') /\ Progress(t, live')
    BY <1>1, <1>2, <1>3, <1>5, <1>6, <1>7 DEF Known, Holds, Owned, Progress, Minting
  <1>11. ASSUME NEW d \in Call \ {c} PROVE Unaffected(d)
    <2>1. x = call[c] /\ \A i \in live : i # k => i \in live'
      BY <1>2 DEF x
    <2>2. call[d].user # call[c].user =>
            Mine(call[d].user, live', keyOf') = Mine(call[d].user, live, keyOf)
      BY <1>6, <1>7, <1>8, <2>1 DEF Mine
    <2>3. CachedFor(call[d], redis', valkey', memory') =
            CachedFor(call[d], redis, valkey, memory)
      BY <1>6
    <2> QED
      BY <1>6, <1>7, <2>2, <2>3, OthersUnaffected
  <1>12. ASSUME c \notin disturbed' \cup failed'
         PROVE  Undisturbed(t, Mine(t.user, live', keyOf'),
                            CachedFor(t, redis', valkey', memory'))
    <2>1. live' = live \ {k} /\ c \notin disturbed \cup failed
      BY <1>2, <1>6, <1>7, <1>12 DEF Disturbs
    <2>2. Undisturbed(x, Mine(x.user, live, keyOf), Cached(c))
      BY <1>1, <2>1 DEF Known
    <2>3. Mine(x.user, live, keyOf) = x.pending
      BY <1>1, <2>2 DEF Undisturbed
    <2>4. Mine(t.user, live', keyOf') = x.pending \ {k}
      BY <1>3, <1>6, <2>1, <2>3 DEF Mine
    <2> QED
      BY <1>3, <1>5, <2>2, <2>4 DEF Undisturbed
  <1> QED
    BY <1>3, <1>4, <1>7, <1>9, <1>10, <1>11, <1>12, OneMoves

\* A new token is its user's, and is none of those there are.
LEMMA MintedGrows ==
  ASSUME BridgeInv, NEW u \in User, Minted(u)
  PROVE  /\ PlaneGrows /\ minted + 1 \in Key /\ Owned(minted + 1, u, minted', keyOf')
         /\ \A v \in User \ {u} : Mine(v, live', keyOf') = Mine(v, live, keyOf)
         /\ Mine(u, live', keyOf') = Mine(u, live, keyOf) \cup {minted + 1}
  <1>1. /\ minted \in 0..MaxKey /\ live \subseteq 1..minted /\ minted < MaxKey
        /\ minted' = minted + 1 /\ live' = live \cup {minted + 1}
        /\ keyOf \in [Key -> User \cup {NoUser}] /\ keyOf' = [keyOf EXCEPT ![minted + 1] = u]
    BY DEF Minted, BridgeInv, TypeOK
  <1>2. minted + 1 \in Key /\ minted + 1 \notin live /\ live \subseteq Key
        /\ minted' \in 0..MaxKey /\ minted \in 0..minted' /\ minted + 1 \in 1..minted'
        /\ minted + 1 \notin 1..minted /\ 1..minted \subseteq Key /\ 1..minted \subseteq 1..minted'
    BY <1>1, Keys DEF Key
  <1>3. keyOf'[minted + 1] = u /\ \A k \in Key \ {minted + 1} : keyOf'[k] = keyOf[k]
    BY <1>1, <1>2
  <1>4. PlaneGrows
    BY <1>1, <1>2, <1>3 DEF PlaneGrows
  <1>5. Owned(minted + 1, u, minted', keyOf')
    BY <1>1, <1>2, <1>3 DEF Owned
  <1>6. /\ \A v \in User \ {u} : Mine(v, live', keyOf') = Mine(v, live, keyOf)
        /\ Mine(u, live', keyOf') = Mine(u, live, keyOf) \cup {minted + 1}
    BY <1>1, <1>2, <1>3 DEF Mine
  <1> QED
    BY <1>2, <1>4, <1>5, <1>6

LEMMA CachesGrow ==
  ASSUME BridgeInv, PlaneGrows, UNCHANGED caches
  PROVE  CachesTyped /\ CachesOwned'
  <1>1. redis' = redis /\ valkey' = valkey /\ memory' = memory
    BY DEF caches
  <1>2. \A k, u : Owned(k, u, minted, keyOf) => Owned(k, u, minted', keyOf')
    BY Keys DEF Owned, PlaneGrows, BridgeInv, TypeOK
  <1> QED
    BY <1>1, <1>2 DEF CachesTyped, CachesOwned, BridgeInv, TypeOK

LEMMA CreateKeeps ==
  ASSUME BridgeInv, NEW c \in Call, Create(c)
  PROVE  BridgeInv'
  <1> DEFINE x == call[c]
             t == [x EXCEPT !.pc = "set", !.fresh = minted + 1]
             n == [x EXCEPT !.pc = "send"]
             e == [x EXCEPT !.pc = "done", !.reply = "rejected"]
  <1>1. x.pc = "create" /\ Known(c, x, Cached(c))
    BY CallKnown DEF Create, At
  <1>2. ASSUME Minted(x.user)
        PROVE  /\ t.pc = "set" /\ t.replica = x.replica /\ t.user = x.user /\ t.key = x.key
               /\ t.pending = x.pending /\ t.fresh = minted + 1 /\ t.effects = x.effects
               /\ t.reply = x.reply /\ t \in Calls
    <2>1. minted + 1 \in 0..MaxKey
      BY <1>1, <1>2, MintedGrows, Keys DEF Known, Key
    <2> QED
      BY <1>1, <2>1 DEF Known, Calls, Steps
  <1>3. /\ n.pc = "send" /\ n.replica = x.replica /\ n.user = x.user /\ n.key = x.key
        /\ n.pending = x.pending /\ n.fresh = x.fresh /\ n.effects = x.effects
        /\ n.reply = x.reply /\ n \in Calls
    BY <1>1 DEF Known, Calls, Steps
  <1>4. /\ e.pc = "done" /\ e.replica = x.replica /\ e.user = x.user /\ e.key = x.key
        /\ e.pending = x.pending /\ e.fresh = x.fresh /\ e.effects = x.effects
        /\ e.reply = "rejected" /\ e \in Calls
    BY <1>1 DEF Known, Calls, Steps, Replies
  <1>5. \/ Minted(x.user) /\ Becomes(c, t) /\ UNCHANGED failed
        \/ /\ Minted(x.user) \/ UNCHANGED plane
           /\ Becomes(c, n) \/ Becomes(c, e)
           /\ failed' = failed \cup {c}
    BY DEF Create, Goto, Ends
  <1>6. Disturbs(c) /\ UNCHANGED caches /\ redis' = redis /\ valkey' = valkey /\ memory' = memory
    BY DEF Create, caches
  <1>7. /\ failed \subseteq failed' /\ failed' \in SUBSET Call /\ disturbed' \in SUBSET Call
        /\ c \notin disturbed' => c \notin disturbed
    BY <1>5, <1>6 DEF Disturbs, BridgeInv, TypeOK
  <1> HIDE DEF t, n, e
  <1>8. /\ PlaneGrows
        /\ \A v \in User \ {x.user} : Mine(v, live', keyOf') = Mine(v, live, keyOf)
    <2>1. CASE Minted(x.user)
      BY <1>1, <2>1, MintedGrows DEF Known
    <2>2. CASE UNCHANGED plane
      BY <2>2, PlaneKept DEF plane, BridgeInv
    <2> QED
      BY <1>5, <2>1, <2>2
  <1>9. CachesTyped /\ CachesOwned'
    BY <1>6, <1>8, CachesGrow
  <1>10. ASSUME NEW d \in Call \ {c}, call[d].pc # "idle" PROVE Unaffected(d)
    <2>1. call[d].user \in User
      BY <1>10 DEF BridgeInv, TypeOK
    <2> QED
      BY <1>6, <1>7, <1>8, <2>1, OthersUnaffected
  <1>11. Holds(x, minted', keyOf') /\ Progress(x, live')
    BY <1>1, <1>8, HoldsForGood, ProgressForGood DEF Known, BridgeInv
  <1>12. CASE Minted(x.user) /\ Becomes(c, t) /\ UNCHANGED failed
    <2>1. /\ minted + 1 \in Key /\ Owned(minted + 1, x.user, minted', keyOf')
          /\ Mine(x.user, live', keyOf') = Mine(x.user, live, keyOf) \cup {minted + 1}
      BY <1>1, <1>12, MintedGrows DEF Known
    <2>2. Holds(t, minted', keyOf') /\ Progress(t, live')
      BY <1>1, <1>2, <1>11, <1>12, <2>1, Keys DEF Holds, Progress, Minting
    <2>3. ASSUME c \notin disturbed' \cup failed'
          PROVE  Undisturbed(t, Mine(t.user, live', keyOf'), CachedFor(t, redis', valkey', memory'))
      <3>1. Undisturbed(x, Mine(x.user, live, keyOf), Cached(c))
        BY <1>1, <1>7, <1>12, <2>3 DEF Known
      <3>2. Mine(t.user, live', keyOf') = {t.fresh}
        BY <1>1, <1>2, <1>12, <2>1, <3>1 DEF Undisturbed
      <3> QED
        BY <1>2, <1>12, <3>1, <3>2 DEF Undisturbed
    <2> QED
      BY <1>2, <1>7, <1>8, <1>9, <1>10, <1>12, <2>2, <2>3, OneMoves
  <1>13. CASE failed' = failed \cup {c} /\ (Becomes(c, n) \/ Becomes(c, e))
    <2>1. Holds(n, minted', keyOf') /\ Progress(n, live')
      BY <1>1, <1>3, <1>11 DEF Holds, Progress, Minting
    <2>2. Holds(e, minted', keyOf') /\ Progress(e, live')
      BY <1>1, <1>4, <1>11 DEF Holds, Progress, Minting
    <2>3. CASE Becomes(c, n)
      BY <1>3, <1>7, <1>8, <1>9, <1>10, <1>13, <2>1, <2>3, OneMoves
    <2>4. CASE Becomes(c, e)
      BY <1>4, <1>7, <1>8, <1>9, <1>10, <1>13, <2>2, <2>4, OneMoves
    <2> QED
      BY <1>13, <2>3, <2>4
  <1> QED
    BY <1>5, <1>12, <1>13

(***************************************************************************)
(* Writing k to the cache of the call's user: the caches hold k where the  *)
(* call writes, and are as they were elsewhere.                            *)
(***************************************************************************)
LEMMA StoresOwned ==
  ASSUME BridgeInv, NEW c \in Call, call[c].pc # "idle", NEW k \in 0..MaxKey,
         Owned(k, call[c].user, minted, keyOf), Stores(c, k), UNCHANGED plane
  PROVE  /\ CachesTyped /\ CachesOwned'
         /\ \A d \in Call : call[d].pc # "idle" =>
              CachedFor(call[d], redis', valkey', memory') \in
                IF call[d].user = call[c].user
                  THEN {k, CachedFor(call[d], redis, valkey, memory)}
                  ELSE {CachedFor(call[d], redis, valkey, memory)}
  <1> DEFINE u == call[c].user
             p == call[c].replica
  <1>1. /\ u \in User /\ p \in Replica /\ redis' = redis /\ redis \in BOOLEAN
        /\ minted' = minted /\ keyOf' = keyOf
        /\ valkey \in [User -> 0..MaxKey] /\ memory \in [Replica -> [User -> 0..MaxKey]]
        /\ \A d \in Call : call[d].pc # "idle" => call[d].user \in User /\ call[d].replica \in Replica
    BY DEF Stores, plane, BridgeInv, TypeOK
  <1> HIDE DEF u, p
  <1>2. CASE redis /\ valkey' = [valkey EXCEPT ![u] = k] /\ memory' = memory
    <2>1. CachesTyped
      BY <1>1, <1>2 DEF CachesTyped
    <2>2. CachesOwned'
      BY <1>1, <1>2 DEF CachesOwned, BridgeInv, u
    <2>3. ASSUME NEW d \in Call, call[d].pc # "idle"
          PROVE  CachedFor(call[d], redis', valkey', memory') \in
                   IF call[d].user = u THEN {k, CachedFor(call[d], redis, valkey, memory)}
                   ELSE {CachedFor(call[d], redis, valkey, memory)}
      BY <1>1, <1>2, <2>3 DEF CachedFor
    <2> QED
      BY <2>1, <2>2, <2>3 DEF u
  <1>3. CASE valkey' = valkey /\ memory' = memory
    BY <1>1, <1>3 DEF CachesTyped, CachesOwned, BridgeInv, CachedFor
  <1>4. CASE /\ ~redis /\ valkey' = valkey
             /\ memory' = [memory EXCEPT ![p] = [memory[p] EXCEPT ![u] = k]]
    <2>1. /\ memory' \in [Replica -> [User -> 0..MaxKey]]
          /\ memory'[p][u] = k
          /\ \A q \in Replica, v \in User : (q # p \/ v # u) => memory'[q][v] = memory[q][v]
      BY <1>1, <1>4
    <2>2. CachesTyped
      BY <1>1, <1>4, <2>1 DEF CachesTyped
    <2>3. CachesOwned'
      BY <1>1, <1>4, <2>1 DEF CachesOwned, BridgeInv, u
    <2>4. ASSUME NEW d \in Call, call[d].pc # "idle"
          PROVE  CachedFor(call[d], redis', valkey', memory') \in
                   IF call[d].user = u THEN {k, CachedFor(call[d], redis, valkey, memory)}
                   ELSE {CachedFor(call[d], redis, valkey, memory)}
      BY <1>1, <1>4, <2>1, <2>4 DEF CachedFor
    <2> QED
      BY <2>2, <2>3, <2>4 DEF u
  <1>5. \/ redis /\ valkey' = [valkey EXCEPT ![u] = k] /\ memory' = memory
        \/ valkey' = valkey /\ memory' = memory
        \/ /\ ~redis /\ valkey' = valkey
           /\ memory' = [memory EXCEPT ![p] = [memory[p] EXCEPT ![u] = k]]
    BY DEF Stores, Put, u, p
  <1> QED
    BY <1>2, <1>3, <1>4, <1>5

LEMMA SetKeeps ==
  ASSUME BridgeInv, NEW c \in Call, Set(c)
  PROVE  BridgeInv'
  <1> DEFINE x == call[c]
             step == IF x.key = 0 THEN "send" ELSE "resend"
             t == [x EXCEPT !.key = x.fresh, !.fresh = 0, !.pc = step]
  <1>1. x.pc = "set" /\ Known(c, x, Cached(c))
    BY CallKnown DEF Set, At
  <1>2. /\ t.pc = step /\ t.replica = x.replica /\ t.user = x.user /\ t.key = x.fresh
        /\ t.pending = x.pending /\ t.fresh = 0 /\ t.effects = x.effects
        /\ t.reply = x.reply /\ t \in Calls
    BY <1>1, Keys DEF Known, Calls, Steps
  <1>3. Becomes(c, t) /\ Stores(c, x.fresh) /\ Disturbs(c) /\ UNCHANGED <<plane, failed>>
    BY DEF Set
  <1>4. step \in {"send", "resend"}
    OBVIOUS
  <1>5. /\ x.fresh \in 0..MaxKey /\ x.fresh # 0 /\ x.pending = {}
        /\ Owned(x.fresh, x.user, minted, keyOf)
    BY <1>1 DEF Known, Calls, Holds, Progress
  <1>6. /\ minted' = minted /\ keyOf' = keyOf /\ live' = live
        /\ failed' \in SUBSET Call /\ disturbed' \in SUBSET Call
    BY <1>3 DEF plane, Disturbs, BridgeInv, TypeOK
  <1>7. /\ PlaneGrows /\ CachesTyped /\ CachesOwned'
        /\ \A d \in Call : call[d].pc # "idle" =>
              CachedFor(call[d], redis', valkey', memory') \in
                IF call[d].user = call[c].user
                  THEN {x.fresh, CachedFor(call[d], redis, valkey, memory)}
                  ELSE {CachedFor(call[d], redis, valkey, memory)}
    BY <1>1, <1>3, <1>5, PlaneKept, StoresOwned DEF BridgeInv
  <1>8. ASSUME NEW d \in Call \ {c}, call[d].pc # "idle" PROVE Unaffected(d)
    BY <1>3, <1>6, <1>7, <1>8, OthersUnaffected
  <1> HIDE DEF x, step, t
  <1>9. Holds(t, minted', keyOf') /\ Progress(t, live')
    BY <1>1, <1>2, <1>4, <1>5, <1>6 DEF Known, Holds, Owned, Progress, Minting
  <1>10. ASSUME c \notin disturbed' \cup failed'
         PROVE  Undisturbed(t, Mine(t.user, live', keyOf'), CachedFor(t, redis', valkey', memory'))
    <2>1. Undisturbed(x, Mine(x.user, live, keyOf), Cached(c))
      BY <1>1, <1>3, <1>10 DEF Known, Disturbs
    <2>2. Mine(t.user, live', keyOf') = {x.fresh} /\ x.reply \notin {"rejected", "unauthenticated"}
      BY <1>1, <1>2, <1>6, <2>1 DEF Undisturbed
    <2> QED
      BY <1>2, <1>4, <1>5, <2>2 DEF Undisturbed
  <1> QED
    BY <1>2, <1>3, <1>6, <1>7, <1>8, <1>9, <1>10, OneMoves

\* A request that Plane answers, or that has no key to send.
LEMMA AttemptKeeps ==
  ASSUME BridgeInv, NEW c \in Call, call[c].pc \in {"send", "resend"}, Attempt(c),
         UNCHANGED <<plane, caches, disturbed, failed>>
  PROVE  BridgeInv'
  <1> DEFINE x == call[c]
             a == [Carried(c) EXCEPT !.pc = "done", !.reply = "answered"]
             t(reply) == [x EXCEPT !.pc = "done", !.reply = reply]
  <1>1. x.pc # "idle" /\ Known(c, x, Cached(c)) /\ 0 \notin live
    BY CallKnown, Keys DEF BridgeInv, TypeOK
  <1>2. x.effects = 0
    BY <1>1 DEF Known, Progress, Calls
  <1>3. /\ a.pc = "done" /\ a.replica = x.replica /\ a.user = x.user /\ a.key = x.key
        /\ a.pending = x.pending /\ a.fresh = x.fresh /\ a.effects = 1
        /\ a.reply = "answered" /\ a \in Calls
    <2>1. x.effects + 1 = 1 /\ 1 \in 0..1 /\ x \in Calls
      BY <1>1, <1>2 DEF Known
    <2> DEFINE y == Carried(c)
    <2>2. /\ y.replica = x.replica /\ y.user = x.user /\ y.key = x.key /\ y.pending = x.pending
          /\ y.fresh = x.fresh /\ y.effects = 1 /\ y \in Calls
      BY <2>1 DEF Carried, Calls
    <2>3. a = [y EXCEPT !.pc = "done", !.reply = "answered"]
      OBVIOUS
    <2> HIDE DEF y
    <2> QED
      BY <2>2, <2>3 DEF Calls, Steps, Replies
  <1>4. ASSUME NEW r \in Replies
        PROVE  /\ t(r).pc = "done" /\ t(r).replica = x.replica /\ t(r).user = x.user
               /\ t(r).key = x.key /\ t(r).pending = x.pending /\ t(r).fresh = x.fresh
               /\ t(r).effects = 0 /\ t(r).reply = r /\ t(r) \in Calls
    BY <1>1, <1>2 DEF Known, Calls, Steps, Replies
  <1>5. \/ x.key \in live /\ (Becomes(c, a) \/ Becomes(c, t("answered")))
        \/ x.key = 0 /\ Becomes(c, t("unauthenticated"))
    BY DEF Attempt, Ends
  <1>6. disturbed' \in SUBSET Call /\ failed' \in SUBSET Call
    BY DEF BridgeInv, TypeOK
  <1>7. {"answered", "unauthenticated"} \subseteq Replies
    BY DEF Replies
  <1> HIDE DEF x, a, t
  <1>8. x.key \in Mine(x.user, live, keyOf) <=> x.key \in live
    BY <1>1, LiveIsMine DEF Known, Holds, BridgeInv
  <1>9. ASSUME NEW s \in Calls, s.pc = "done", s.replica = x.replica, s.user = x.user,
               s.key = x.key, s.pending = x.pending, s.fresh = x.fresh,
               \/ s.reply = "answered" /\ x.key \in live
               \/ s.reply = "unauthenticated" /\ x.key = 0,
               Becomes(c, s)
        PROVE  BridgeInv'
    <2>1. x.pending = {} /\ x.fresh = 0
      BY <1>1 DEF Known, Progress, x
    <2>2. Holds(s, minted, keyOf) /\ Progress(s, live)
      BY <1>1, <1>9, <2>1 DEF Known, Holds, Progress, Minting
    <2>3. c \notin disturbed \cup failed =>
            Undisturbed(s, Mine(s.user, live, keyOf), CachedFor(s, redis, valkey, memory))
      <3>1. ASSUME c \notin disturbed \cup failed
            PROVE  x.key # 0
        <4>1. x.pc = "send" => x.key # 0
          BY <1>1, <3>1 DEF Known, Undisturbed
        <4>2. x.pc = "resend" => x.key \in live
          BY <1>1, <1>8, <3>1 DEF Known, Undisturbed
        <4> QED
          BY <1>1, <4>1, <4>2 DEF x
      <3> QED
        BY <1>8, <1>9, <3>1 DEF Undisturbed
    <2> QED
      BY <1>6, <1>9, <2>2, <2>3, QuietMove
  <1> QED
    BY <1>3, <1>4, <1>5, <1>7, <1>9

LEMMA SendKeeps ==
  ASSUME BridgeInv, NEW c \in Call, Send(c)
  PROVE  BridgeInv'
  <1> DEFINE x == call[c]
             t == [x EXCEPT !.pc = "reget"]
  <1>1. x.pc = "send" /\ Known(c, x, Cached(c))
    BY CallKnown DEF Send, At
  <1>2. UNCHANGED <<plane, caches, disturbed, failed>>
    BY DEF Send
  <1>3. /\ t.pc = "reget" /\ t.replica = x.replica /\ t.user = x.user /\ t.key = x.key
        /\ t.pending = x.pending /\ t.fresh = x.fresh /\ t.effects = x.effects
        /\ t.reply = x.reply /\ t \in Calls
    BY <1>1 DEF Known, Calls, Steps
  <1>4. Attempt(c) \/ (x.key \notin live /\ Becomes(c, t))
    BY DEF Send, Goto
  <1>5. /\ disturbed' \in SUBSET Call /\ failed' \in SUBSET Call
        /\ CachedFor(t, redis, valkey, memory) = Cached(c)
    BY <1>1, <1>2, <1>3 DEF BridgeInv, TypeOK, Known, CachedFor
  <1> HIDE DEF t
  <1>6. CASE Attempt(c)
    BY <1>1, <1>2, <1>6, AttemptKeeps
  <1>7. CASE x.key \notin live /\ Becomes(c, t)
    <2>1. Holds(t, minted, keyOf) /\ Progress(t, live)
      BY <1>1, <1>3, <1>7 DEF Known, Holds, Progress, Minting
    <2>2. c \notin disturbed \cup failed => Undisturbed(t, Mine(t.user, live, keyOf), Cached(c))
      BY <1>1, <1>3 DEF Known, Undisturbed
    <2> QED
      BY <1>2, <1>3, <1>5, <1>7, <2>1, <2>2, QuietMove
  <1> QED
    BY <1>4, <1>6, <1>7

LEMMA ResendKeeps ==
  ASSUME BridgeInv, NEW c \in Call, Resend(c)
  PROVE  BridgeInv'
  <1> DEFINE x == call[c]
             t == [x EXCEPT !.pc = "done", !.reply = "rejected"]
  <1>1. x.pc = "resend" /\ Known(c, x, Cached(c))
    BY CallKnown DEF Resend, At
  <1>2. UNCHANGED <<plane, caches, disturbed, failed>>
    BY DEF Resend
  <1>3. /\ t.pc = "done" /\ t.replica = x.replica /\ t.user = x.user /\ t.key = x.key
        /\ t.pending = x.pending /\ t.fresh = x.fresh /\ t.effects = x.effects
        /\ t.reply = "rejected" /\ t \in Calls
    BY <1>1 DEF Known, Calls, Steps, Replies
  <1>4. Attempt(c) \/ (x.key \notin live /\ Becomes(c, t))
    BY DEF Resend, Ends
  <1>5. disturbed' \in SUBSET Call /\ failed' \in SUBSET Call
    BY <1>2 DEF BridgeInv, TypeOK
  <1> HIDE DEF t
  <1>6. CASE Attempt(c)
    BY <1>1, <1>2, <1>6, AttemptKeeps
  <1>7. CASE x.key \notin live /\ Becomes(c, t)
    <2>1. Holds(t, minted, keyOf) /\ Progress(t, live)
      BY <1>1, <1>3, <1>7 DEF Known, Holds, Progress, Minting
    <2>2. c \in disturbed \cup failed
      <3>1. x.key \notin Mine(x.user, live, keyOf)
        BY <1>7 DEF Mine
      <3> QED
        BY <1>1, <3>1 DEF Known, Undisturbed
    <2> QED
      BY <1>2, <1>3, <1>5, <1>7, <2>1, <2>2, QuietMove
  <1> QED
    BY <1>4, <1>6, <1>7

LEMMA RegetKeeps ==
  ASSUME BridgeInv, NEW c \in Call, Reget(c)
  PROVE  BridgeInv'
  <1> DEFINE x == call[c]
             k == Cached(c)
             t == [x EXCEPT !.pc = "resend", !.key = k]
             n == [x EXCEPT !.pc = "drop"]
  <1>1. x.pc = "reget" /\ Known(c, x, k)
    BY CallKnown DEF Reget, At
  <1>2. /\ t.pc = "resend" /\ t.replica = x.replica /\ t.user = x.user /\ t.key = k
        /\ t.pending = x.pending /\ t.fresh = x.fresh /\ t.effects = x.effects
        /\ t.reply = x.reply /\ t \in Calls
    BY <1>1 DEF Known, Calls, Steps
  <1>3. /\ n.pc = "drop" /\ n.replica = x.replica /\ n.user = x.user /\ n.key = x.key
        /\ n.pending = x.pending /\ n.fresh = x.fresh /\ n.effects = x.effects
        /\ n.reply = x.reply /\ n \in Calls
    BY <1>1 DEF Known, Calls, Steps
  <1>4. (k \notin {0, x.key} /\ Becomes(c, t)) \/ Becomes(c, n)
    BY DEF Reget, Goto
  <1>5. /\ UNCHANGED <<plane, caches, disturbed, failed>>
        /\ disturbed \in SUBSET Call /\ failed \in SUBSET Call
    BY DEF Reget, BridgeInv, TypeOK
  <1> HIDE DEF x, k, t, n
  <1>6. CASE Becomes(c, t) /\ k \notin {0, x.key}
    <2>1. Holds(t, minted, keyOf) /\ Progress(t, live)
      BY <1>1, <1>2, <1>6 DEF Known, Holds, Progress, Minting
    <2>2. c \in disturbed \cup failed
      <3>1. x.key \notin Mine(x.user, live, keyOf)
        BY <1>1 DEF Known, Progress, Mine
      <3> QED
        BY <1>1, <1>6, <3>1 DEF Known, Undisturbed
    <2> QED
      BY <1>2, <1>5, <1>6, <2>1, <2>2, QuietMove
  <1>7. CASE Becomes(c, n)
    <2>1. Holds(n, minted, keyOf) /\ Progress(n, live)
      BY <1>1, <1>3 DEF Known, Holds, Progress, Minting
    <2>2. c \notin disturbed \cup failed =>
            \A i : Undisturbed(n, Mine(n.user, live, keyOf), i)
      BY <1>1, <1>3 DEF Known, Undisturbed
    <2> QED
      BY <1>3, <1>5, <1>7, <2>1, <2>2, QuietMove
  <1> QED
    BY <1>4, <1>6, <1>7

LEMMA DropKeeps ==
  ASSUME BridgeInv, NEW c \in Call, Drop(c)
  PROVE  BridgeInv'
  <1> DEFINE x == call[c]
             t == [x EXCEPT !.pc = "list"]
  <1>1. x.pc = "drop" /\ Known(c, x, Cached(c))
    BY CallKnown DEF Drop, At
  <1>2. /\ t.pc = "list" /\ t.replica = x.replica /\ t.user = x.user /\ t.key = x.key
        /\ t.pending = x.pending /\ t.fresh = x.fresh /\ t.effects = x.effects
        /\ t.reply = x.reply /\ t \in Calls
    BY <1>1 DEF Known, Calls, Steps
  <1>3. Becomes(c, t) /\ Stores(c, 0) /\ UNCHANGED <<plane, disturbed, failed>>
    BY DEF Drop, Goto
  <1>4. /\ minted' = minted /\ keyOf' = keyOf /\ live' = live
        /\ failed' \in SUBSET Call /\ disturbed' \in SUBSET Call
    BY <1>3 DEF plane, BridgeInv, TypeOK
  <1>5. Owned(0, x.user, minted, keyOf) /\ 0 \in 0..MaxKey
    BY Keys DEF Owned
  <1>6. /\ PlaneGrows /\ CachesTyped /\ CachesOwned'
        /\ \A d \in Call : call[d].pc # "idle" =>
              CachedFor(call[d], redis', valkey', memory') \in
                IF call[d].user = call[c].user
                  THEN {0, CachedFor(call[d], redis, valkey, memory)}
                  ELSE {CachedFor(call[d], redis, valkey, memory)}
    BY <1>1, <1>3, <1>5, PlaneKept, StoresOwned DEF BridgeInv
  <1>7. ASSUME NEW d \in Call \ {c}, call[d].pc # "idle" PROVE Unaffected(d)
    BY <1>3, <1>4, <1>6, <1>7 DEF Unaffected
  <1> HIDE DEF x, t
  <1>8. Holds(t, minted', keyOf') /\ Progress(t, live')
    BY <1>1, <1>2, <1>4 DEF Known, Holds, Progress, Minting
  <1>9. c \notin disturbed' \cup failed' =>
          Undisturbed(t, Mine(t.user, live', keyOf'), CachedFor(t, redis', valkey', memory'))
    BY <1>1, <1>2, <1>3, <1>4 DEF Known, Undisturbed
  <1> QED
    BY <1>2, <1>3, <1>4, <1>6, <1>7, <1>8, <1>9, OneMoves

LEMMA MoreKeeps ==
  ASSUME BridgeInv, NEW c \in Call, More(c)
  PROVE  BridgeInv'
  <1> DEFINE x == call[c]
             t == [x EXCEPT !.pc = "send", !.reply = "none", !.effects = 0]
  <1>1. x.pc = "done" /\ Known(c, x, Cached(c)) /\ 0 \notin live
    BY CallKnown, Keys DEF More, At, BridgeInv, TypeOK
  <1>2. /\ t.pc = "send" /\ t.replica = x.replica /\ t.user = x.user /\ t.key = x.key
        /\ t.pending = x.pending /\ t.fresh = x.fresh /\ t.effects = 0
        /\ t.reply = "none" /\ t \in Calls
    <2>1. x \in Calls /\ 0 \in 0..1
      BY <1>1 DEF Known
    <2>2. t \in Calls
      BY <2>1 DEF Calls, Steps, Replies
    <2>3. /\ t.pc = "send" /\ t.replica = x.replica /\ t.user = x.user /\ t.key = x.key
          /\ t.pending = x.pending /\ t.fresh = x.fresh /\ t.effects = 0 /\ t.reply = "none"
      BY <2>1 DEF Calls
    <2> QED
      BY <2>2, <2>3
  <1>3. Becomes(c, t) /\ UNCHANGED <<plane, caches, disturbed, failed>>
    BY DEF More
  <1>4. disturbed' \in SUBSET Call /\ failed' \in SUBSET Call
    BY <1>3 DEF BridgeInv, TypeOK
  <1> HIDE DEF t
  <1>5. Holds(t, minted, keyOf) /\ Progress(t, live)
    BY <1>1, <1>2 DEF Known, Holds, Progress, Minting
  <1>6. 0 \notin Mine(x.user, live, keyOf)
    BY <1>1 DEF Mine
  <1>7. c \notin disturbed \cup failed =>
          \A i : Undisturbed(t, Mine(t.user, live, keyOf), i)
    BY <1>1, <1>2, <1>6 DEF Known, Undisturbed
  <1> QED
    BY <1>2, <1>3, <1>4, <1>5, <1>7, QuietMove

LEMMA EndKeeps ==
  ASSUME BridgeInv, NEW c \in Call, End(c)
  PROVE  BridgeInv'
  <1>1. Idle \in Calls /\ Holds(Idle, minted, keyOf) /\ Progress(Idle, live) /\ Idle.pc = "idle"
    <2>1. Idle.pc = "idle"
      BY DEF Idle
    <2> QED
      BY <2>1, IdleHolds
  <1>2. /\ disturbed' \in SUBSET Call /\ failed' \in SUBSET Call
        /\ (disturbed \cup failed) \ {c} \subseteq disturbed' \cup failed'
    BY DEF End, BridgeInv, TypeOK
  <1>3. Becomes(c, Idle) /\ UNCHANGED <<plane, caches>>
    BY DEF End
  <1> QED
    BY <1>1, <1>2, <1>3, QuietMove

(***************************************************************************)
(* The surroundings make no call move; at most calls are gone.             *)
(***************************************************************************)
LEMMA SomeGone ==
  ASSUME BridgeInv, call' \in [Call -> Calls], PlaneGrows, CachesTyped, CachesOwned',
         disturbed' \in SUBSET Call, failed' \in SUBSET Call,
         \A d \in Call : \/ call'[d] = Idle
                         \/ call'[d] = call[d] /\ (call[d].pc # "idle" => Unaffected(d))
  PROVE  BridgeInv'
  <1>1. Idle.pc = "idle" /\ Holds(Idle, minted', keyOf') /\ Progress(Idle, live')
    BY IdleHolds DEF Idle
  <1>2. \A d \in Call : Holds(call[d], minted', keyOf') /\ Progress(call[d], live')
    BY HoldsForGood, ProgressForGood DEF BridgeInv, CallOwned, CallProgress
  <1>3. \A d \in Call : Holds(call'[d], minted', keyOf') /\ Progress(call'[d], live')
    <2> SUFFICES ASSUME NEW d \in Call
                 PROVE  Holds(call'[d], minted', keyOf') /\ Progress(call'[d], live')
      OBVIOUS
    <2>1. call'[d] = Idle \/ call'[d] = call[d]
      OBVIOUS
    <2> QED
      BY <1>1, <1>2, <2>1
  <1>4. ASSUME NEW d \in Call \ (disturbed' \cup failed'), call'[d].pc # "idle"
        PROVE  Undisturbed(call'[d], Mine(call'[d].user, live', keyOf'),
                           CachedFor(call'[d], redis', valkey', memory'))
    <2>1. call'[d] = call[d] /\ call[d].pc # "idle" /\ Unaffected(d)
      BY <1>1, <1>4
    <2>2. Undisturbed(call[d], Mine(call[d].user, live, keyOf),
                      CachedFor(call[d], redis, valkey, memory))
      BY <1>4, <2>1 DEF BridgeInv, CallUndisturbed, Unaffected
    <2>3. Undisturbed(call[d], Mine(call[d].user, live, keyOf),
                      CachedFor(call[d], redis', valkey', memory'))
      BY <1>4, <2>1, <2>2, UndisturbedForGood DEF Unaffected
    <2> QED
      BY <1>4, <2>1, <2>3 DEF Unaffected
  <1>5. \A d \in Call : call'[d].pc # "idle" => call'[d].user \in User /\ call'[d].replica \in Replica
    BY <1>3 DEF Holds
  <1>6. TypeOK'
    BY <1>5 DEF TypeOK, PlaneGrows, CachesTyped
  <1> QED
    BY <1>3, <1>4, <1>6 DEF BridgeInv, CallOwned, CallProgress, CallUndisturbed

LEMMA RevokedInPlaneKeeps ==
  ASSUME BridgeInv, NEW k \in Key, RevokedInPlane(k)
  PROVE  BridgeInv'
  <1>1. /\ k \in live /\ live' = live \ {k} /\ minted' = minted /\ keyOf' = keyOf
        /\ UNCHANGED caches /\ redis' = redis /\ valkey' = valkey /\ memory' = memory
        /\ call' = call /\ failed' = failed
        /\ disturbed' = disturbed \cup {c \in Call : call[c].user = keyOf[k]}
    BY DEF RevokedInPlane, caches
  <1>2. PlaneGrows /\ call' \in [Call -> Calls]
    BY <1>1, Keys DEF PlaneGrows, BridgeInv, TypeOK
  <1>3. CachesTyped /\ CachesOwned'
    BY <1>1, <1>2, CachesGrow
  <1>4. disturbed' \in SUBSET Call /\ failed' \in SUBSET Call
    BY <1>1 DEF BridgeInv, TypeOK
  <1>5. ASSUME NEW d \in Call PROVE Unaffected(d)
    <2>1. call[d].user # keyOf[k] =>
            Mine(call[d].user, live', keyOf') = Mine(call[d].user, live, keyOf)
      BY <1>1 DEF Mine
    <2> QED
      BY <1>1, <2>1 DEF Unaffected
  <1> QED
    BY <1>1, <1>2, <1>3, <1>4, <1>5, SomeGone

LEMMA EvictKeeps ==
  ASSUME BridgeInv, NEW u \in User, Evict(u)
  PROVE  BridgeInv'
  <1>1. /\ UNCHANGED plane /\ minted' = minted /\ live' = live /\ keyOf' = keyOf
        /\ redis' = redis /\ memory' = memory /\ call' = call
        /\ disturbed' = disturbed /\ failed' = failed
        /\ valkey \in [User -> 0..MaxKey] /\ valkey' = [valkey EXCEPT ![u] = 0]
    BY DEF Evict, plane, BridgeInv, TypeOK
  <1>2. /\ valkey' \in [User -> 0..MaxKey]
        /\ \A v \in User : valkey'[v] = valkey[v] \/ valkey'[v] = 0
    BY <1>1, Keys
  <1>3. CachesTyped /\ CachesOwned'
    BY <1>1, <1>2 DEF CachesTyped, CachesOwned, Owned, BridgeInv, TypeOK
  <1>4. /\ call' \in [Call -> Calls] /\ disturbed' \in SUBSET Call /\ failed' \in SUBSET Call
        /\ PlaneGrows
    BY <1>1, PlaneKept DEF BridgeInv, TypeOK
  <1>5. ASSUME NEW d \in Call, call[d].pc # "idle" PROVE Unaffected(d)
    <2>1. call[d].user \in User
      BY <1>5 DEF BridgeInv, TypeOK
    <2> QED
      BY <1>1, <1>2, <2>1 DEF Unaffected, CachedFor
  <1> QED
    BY <1>1, <1>3, <1>4, <1>5, SomeGone

LEMMA RestartKeeps ==
  ASSUME BridgeInv, NEW p \in Replica, Restart(p)
  PROVE  BridgeInv'
  <1> DEFINE empty == [u \in User |-> 0]
  <1>1. /\ UNCHANGED plane /\ minted' = minted /\ live' = live /\ keyOf' = keyOf
        /\ redis' = redis /\ valkey' = valkey
        /\ memory' = [memory EXCEPT ![p] = empty]
        /\ call' = [c \in Call |-> IF call[c].replica = p THEN Idle ELSE call[c]]
        /\ disturbed' = {c \in disturbed : call[c].replica # p}
        /\ failed' = {c \in failed : call[c].replica # p}
        /\ memory \in [Replica -> [User -> 0..MaxKey]] /\ call \in [Call -> Calls]
    BY DEF Restart, plane, BridgeInv, TypeOK
  <1>2. empty \in [User -> 0..MaxKey] /\ \A u \in User : empty[u] = 0
    BY Keys
  <1> HIDE DEF empty
  <1>3. /\ memory' \in [Replica -> [User -> 0..MaxKey]]
        /\ \A q \in Replica : q # p => memory'[q] = memory[q]
        /\ \A u \in User : memory'[p][u] = 0
    BY <1>1, <1>2
  <1>4. CachesTyped /\ CachesOwned'
    <2>1. CachesTyped
      BY <1>1, <1>3 DEF CachesTyped, BridgeInv, TypeOK
    <2>2. \A q \in Replica, u \in User : memory'[q][u] = memory[q][u] \/ memory'[q][u] = 0
      BY <1>3
    <2> QED
      BY <1>1, <2>1, <2>2 DEF CachesOwned, Owned, BridgeInv
  <1>5. /\ call' \in [Call -> Calls] /\ disturbed' \in SUBSET Call /\ failed' \in SUBSET Call
        /\ PlaneGrows
    <2>1. Idle \in Calls
      BY IdleHolds
    <2> QED
      BY <1>1, <2>1, PlaneKept DEF BridgeInv, TypeOK
  <1>6. ASSUME NEW d \in Call, call[d].replica # p, call[d].pc # "idle" PROVE Unaffected(d)
    <2>1. call[d].replica \in Replica
      BY <1>6 DEF BridgeInv, TypeOK
    <2> QED
      BY <1>1, <1>3, <1>6, <2>1 DEF Unaffected, CachedFor
  <1>7. \A d \in Call : \/ call'[d] = Idle
                        \/ call'[d] = call[d] /\ (call[d].pc # "idle" => Unaffected(d))
    BY <1>1, <1>6
  <1> QED
    BY <1>4, <1>5, <1>7, SomeGone

-----------------------------------------------------------------------------
(***************************************************************************)
(* BridgeInv is inductive.                                                 *)
(***************************************************************************)
LEMMA BridgeInit == Init => BridgeInv
  <1> SUFFICES ASSUME Init PROVE BridgeInv
    OBVIOUS
  <1>1. /\ Idle \in Calls /\ Holds(Idle, minted, keyOf) /\ Progress(Idle, live)
        /\ Idle.pc = "idle"
    BY IdleHolds DEF Idle
  <1>2. \A c \in Call : call[c] = Idle
    BY DEF Init
  <1>3. TypeOK
    BY <1>1, <1>2, Keys, BridgeAssumption DEF Init, TypeOK
  <1>4. CachesOwned
    BY DEF Init, CachesOwned, Owned
  <1> QED
    BY <1>1, <1>2, <1>3, <1>4 DEF BridgeInv, CallOwned, CallProgress, CallUndisturbed

LEMMA BridgeNext == BridgeInv /\ [Next]_vars => BridgeInv'
  <1> SUFFICES ASSUME BridgeInv, [Next]_vars PROVE BridgeInv'
    OBVIOUS
  <1>1. CASE UNCHANGED vars
    BY <1>1 DEF vars, plane, caches, BridgeInv, TypeOK, CachesOwned, CallOwned, CallProgress,
                CallUndisturbed
  <1>2. ASSUME NEW c \in Call,
               \/ \E p \in Replica, u \in User : Start(c, p, u)
               \/ Get(c) \/ List(c) \/ Revoke(c) \/ Create(c) \/ Set(c)
               \/ Send(c) \/ Reget(c) \/ Drop(c) \/ Resend(c) \/ More(c) \/ End(c)
        PROVE  BridgeInv'
    BY <1>2, StartKeeps, GetKeeps, ListKeeps, RevokeKeeps, CreateKeeps, SetKeeps, SendKeeps,
       RegetKeeps, DropKeeps, ResendKeeps, MoreKeeps, EndKeeps
  <1>3. ASSUME NEW k \in Key, RevokedInPlane(k) PROVE BridgeInv'
    BY <1>3, RevokedInPlaneKeeps
  <1>4. ASSUME NEW u \in User, Evict(u) PROVE BridgeInv'
    BY <1>4, EvictKeeps
  <1>5. ASSUME NEW p \in Replica, Restart(p) PROVE BridgeInv'
    BY <1>5, RestartKeeps
  <1> QED
    BY <1>1, <1>2, <1>3, <1>4, <1>5 DEF Next

THEOREM BridgeCorrect == Spec => []BridgeInv
  <1> QED
    BY BridgeInit, BridgeNext, PTL DEF Spec

(***************************************************************************)
(* The bridge is well typed: every token a call or a cache names has been  *)
(* minted, and every call is at a replica, for a user.                     *)
(***************************************************************************)
THEOREM BridgeTypeCorrect == Spec => []TypeOK
  <1>1. BridgeInv => TypeOK
    BY DEF BridgeInv
  <1> QED
    BY <1>1, BridgeCorrect, PTL

(***************************************************************************)
(* A call sends no other user's key: apitoken.plane_api_key and            *)
(* refresh_api_key keep every cached and every minted key with its user.   *)
(***************************************************************************)
THEOREM KeysStayCorrect == Spec => []KeysStayWithTheirUser
  <1>1. BridgeInv => KeysStayWithTheirUser
    BY DEF BridgeInv, CallOwned, Holds, Owned, KeysStayWithTheirUser
  <1> QED
    BY <1>1, BridgeCorrect, PTL

(***************************************************************************)
(* Only a call whose own key Plane no longer holds drops, deletes and      *)
(* mints.                                                                  *)
(***************************************************************************)
THEOREM OnlyDeadKeysReplacedCorrect == Spec => []OnlyDeadKeysReplaced
  <1>1. BridgeInv => OnlyDeadKeysReplaced
    BY DEF BridgeInv, CallProgress, Progress, OnlyDeadKeysReplaced
  <1> QED
    BY <1>1, BridgeCorrect, PTL

(***************************************************************************)
(* The retry of apiretry never repeats what Plane has already done.        *)
(***************************************************************************)
THEOREM ActedOnOnceCorrect == Spec => []ActedOnOnce
  <1>1. BridgeInv => ActedOnOnce
    BY DEF BridgeInv, CallProgress, Progress, ActedOnOnce, At
  <1> QED
    BY <1>1, BridgeCorrect, PTL

(***************************************************************************)
(* A call ends rejected, or without a key, only if its mint failed or      *)
(* another party touched its user's keys meanwhile.                        *)
(***************************************************************************)
THEOREM HealsCorrect == Spec => []HealsUnlessDisturbed
  <1>1. ASSUME BridgeInv PROVE HealsUnlessDisturbed
    <2>1. ASSUME NEW c \in Call, call[c].reply \in {"rejected", "unauthenticated"},
                 c \notin disturbed \cup failed
          PROVE  FALSE
      <3>1. call[c].pc = "done"
        BY <1>1, <2>1 DEF BridgeInv, CallProgress, Progress
      <3> QED
        BY <1>1, <2>1, <3>1 DEF BridgeInv, CallUndisturbed, Undisturbed
    <2> QED
      BY <2>1 DEF HealsUnlessDisturbed
  <1> QED
    BY <1>1, BridgeCorrect, PTL

(***************************************************************************)
(* A mint nobody interferes with leaves its token as the only one of the   *)
(* user (_revoke_existing).                                                *)
(***************************************************************************)
THEOREM MintLeavesOneKeyCorrect == Spec => []MintLeavesOneKey
  <1>1. ASSUME BridgeInv PROVE MintLeavesOneKey
    <2>1. ASSUME NEW c \in Call, At(c, "set"), c \notin disturbed \cup failed
          PROVE  KeysOf(call[c].user) = {call[c].fresh}
      BY <1>1, <2>1, MineTyped DEF BridgeInv, CallUndisturbed, Undisturbed, At
    <2> QED
      BY <2>1 DEF MintLeavesOneKey
  <1> QED
    BY <1>1, BridgeCorrect, PTL
=============================================================================
