------------------------ MODULE RecentRefreshesProofs ------------------------
(***************************************************************************)
(* The replay window, for any number of clients and tokens, any lifetimes, *)
(* and every window and capacity: its dictionary stays in order and within *)
(* its capacity, a lookup has one answer, and what it answers is what      *)
(* ReplayMemory promises.                                                  *)
(***************************************************************************)
EXTENDS RecentRefreshes, ReplayCacheProofs, FiniteSetTheorems

(***************************************************************************)
(* What the order of the entries rests on: none is from the future, and a  *)
(* pair is issued after the token it was exchanged for.                    *)
(***************************************************************************)
RecentInv ==
  /\ TypeOK
  /\ Len(replays) <= Capacity /\ Ordered(replays) /\ Forward(replays)
  /\ \A e \in Entries(replays) : e.at <= clock /\ e.key < e.next /\ e.next <= Len(holder)

\* The window starts empty.
LEMMA RecentInit == Init => RecentInv
  <1> SUFFICES ASSUME Init PROVE RecentInv
    OBVIOUS
  <1>1. holder \in Seq(Client)
    <2>1. Cardinality(Client) \in Nat
      BY FS_CardinalityType, RecentRefreshesAssumption
    <2> QED
      BY <2>1 DEF Init
  <1>2. replays = <<>> /\ DOMAIN replays = {} /\ Len(replays) = 0
    BY DEF Init
  <1>3. TypeOK
    BY <1>1, RecentRefreshesAssumption DEF Init, TypeOK
  <1>4. Ordered(replays) /\ Forward(replays) /\ Entries(replays) = {}
    BY <1>2 DEF Ordered, Forward, Entries
  <1> QED
    BY <1>2, <1>3, <1>4, ReplayCacheAssumption DEF RecentInv

\* What an entry of the window is.
LEMMA EntryTyped ==
  ASSUME RecentInv, NEW x \in Entries(replays)
  PROVE  x \in Replay(Token, Client) /\ x.at \in Nat /\ x.life \in Nat
  <1>1. x \in Replay(Token, Client)
    BY DEF RecentInv, TypeOK, Entries
  <1> QED
    BY <1>1 DEF Replay

\* Purging makes the window no longer.
LEMMA PurgedShorter ==
  ASSUME NEW S, NEW cache \in Seq(S), NEW now \in Nat
  PROVE  Len(Purged(cache, now)) <= Len(cache)
  <1>1. CASE \E i \in DOMAIN cache : FirstFresh(cache, now, i)
    <2> DEFINE first == CHOOSE i \in DOMAIN cache : FirstFresh(cache, now, i)
    <2>1. first \in DOMAIN cache /\ Purged(cache, now) = SubSeq(cache, first, Len(cache))
      BY <1>1 DEF Purged
    <2> HIDE DEF first
    <2>2. first \in 1..Len(cache) /\ first \in 1..(Len(cache) + 1) /\ Len(cache) \in Nat
      BY <2>1
    <2>3. Len(SubSeq(cache, first, Len(cache))) = Len(cache) - first + 1
      BY <2>2, SuffixThinned
    <2> QED
      BY <2>1, <2>2, <2>3
  <1>2. CASE ~\E i \in DOMAIN cache : FirstFresh(cache, now, i)
    <2>1. Purged(cache, now) = <<>>
      BY <1>2 DEF Purged
    <2> QED
      BY <2>1
  <1> QED
    BY <1>1, <1>2

\* What is left of a purged window has not been changed.
LEMMA PurgedInv ==
  ASSUME RecentInv
  PROVE  LET kept == Purged(replays, clock)
         IN /\ kept \in Seq(Replay(Token, Client)) /\ Len(kept) <= Capacity
            /\ Ordered(kept) /\ Forward(kept)
            /\ \A x : x \in Entries(kept) <=> x \in Entries(replays) /\ ~Expired(x, clock)
  <1> DEFINE kept == Purged(replays, clock)
  <1>1. replays \in Seq(Replay(Token, Client)) /\ clock \in Nat /\ Ordered(replays) /\ Forward(replays)
    BY DEF RecentInv, TypeOK
  <1>2. /\ kept \in Seq(Replay(Token, Client)) /\ Thinned(kept, replays)
        /\ \A x : x \in Entries(kept) <=> x \in Entries(replays) /\ ~Expired(x, clock)
    BY <1>1, PurgedOrder
  <1>3. Ordered(kept) /\ Forward(kept)
    BY <1>1, <1>2, ThinnedOrder
  <1>4. Len(kept) <= Len(replays)
    BY <1>1, PurgedShorter
  <1> QED
    BY <1>1, <1>2, <1>3, <1>4, ReplayCacheAssumption DEF RecentInv

\* Recording a rotation: its entry, its place in the window, and the new holder.
LEMMA RecordInv ==
  ASSUME RecentInv, NEW t \in 1..Len(holder), NEW life \in Lifetimes, Record(t, life)
  PROVE  RecentInv'
  <1> DEFINE e == [key |-> t, client |-> holder[t], next |-> Len(holder) + 1,
                   life |-> life, at |-> clock]
  <1>1. /\ replays \in Seq(Replay(Token, Client)) /\ clock \in Nat
        /\ Ordered(replays) /\ Forward(replays) /\ holder \in Seq(Client)
    BY DEF RecentInv, TypeOK
  <1>2. /\ e \in Replay(Token, Client) /\ e.key < e.next /\ e.at = clock
        /\ e.next = Len(holder) + 1 /\ Len(holder) \in Nat
    BY <1>1, RecentRefreshesAssumption DEF Record, Replay, Token
  <1>3. replays' = Recorded(replays, e, clock) /\ holder' = Append(holder, holder[t])
        /\ UNCHANGED <<clock, answer>>
    BY DEF Record
  <1> HIDE DEF e
  <1>4. \A x \in Entries(replays) : /\ x \in Replay(Token, Client) /\ x.at <= e.at
                                    /\ x.key < x.next /\ x.next <= Len(holder)
    BY <1>1, <1>2 DEF RecentInv, Entries
  <1>5. e.key # e.next /\ \A x \in Entries(replays) : x.at <= e.at /\ x.key # e.next
    BY <1>2, <1>4 DEF Replay, Token
  <1>6. /\ replays' \in Seq(Replay(Token, Client)) /\ Ordered(replays') /\ Forward(replays')
        /\ \A x \in Entries(replays') \ {e} : x \in Entries(replays)
    BY <1>1, <1>2, <1>3, <1>5, RecordedOrder
  <1>7. Len(replays') <= Capacity
    BY <1>1, <1>2, <1>3, RecordedBounded
  <1>8. holder' \in Seq(Client) /\ Len(holder') = Len(holder) + 1
    BY <1>1, <1>3
  <1>9. \A x \in Entries(replays') : x.at <= clock' /\ x.key < x.next /\ x.next <= Len(holder')
    BY <1>2, <1>3, <1>4, <1>6, <1>8 DEF Replay, Token
  <1>10. TypeOK'
    BY <1>3, <1>6, <1>8 DEF RecentInv, TypeOK
  <1> QED
    BY <1>6, <1>7, <1>9, <1>10 DEF RecentInv

\* A lookup only purges, and answers with an entry of the window.
LEMMA AskInv ==
  ASSUME RecentInv, NEW t \in Token, NEW c \in Client, Ask(t, c)
  PROVE  RecentInv'
  <1> DEFINE kept == Purged(replays, clock)
  <1>1. /\ kept \in Seq(Replay(Token, Client)) /\ Len(kept) <= Capacity
        /\ Ordered(kept) /\ Forward(kept)
        /\ \A x \in Entries(kept) : x \in Entries(replays)
    BY PurgedInv
  <1>2. replays' = kept /\ UNCHANGED <<clock, holder>>
    BY DEF Ask
  <1>3. answer' \in [next : Token, left : Nat \ {0}] \cup {None}
    <2>1. ASSUME NEW m \in Replayed(replays, t, c, clock)
          PROVE  [next |-> m.next, left |-> Aged(m, clock)] \in [next : Token, left : Nat \ {0}]
      <3>1. replays \in Seq(Replay(Token, Client)) /\ clock \in Nat
        BY DEF RecentInv, TypeOK
      <3>2. m \in Replay(Token, Client)
        BY <2>1, <3>1, ReplayedEntries DEF Entries
      <3> QED
        BY <3>1, <3>2 DEF Replay, Aged
    <2> QED
      BY <2>1 DEF Ask
  <1> HIDE DEF kept
  <1>4. TypeOK'
    BY <1>1, <1>2, <1>3 DEF RecentInv, TypeOK
  <1>5. Entries(replays') \subseteq Entries(replays)
    BY <1>1, <1>2
  <1> QED
    BY <1>1, <1>2, <1>4, <1>5 DEF RecentInv

\* Every step preserves the invariant.
LEMMA RecentNext == RecentInv /\ [Next]_vars => RecentInv'
  <1> SUFFICES ASSUME RecentInv, [Next]_vars PROVE RecentInv'
    OBVIOUS
  <1>1. CASE Tick
    <2>1. /\ clock \in Nat /\ clock' = clock + 1 /\ clock' \in 0..MaxTime
          /\ UNCHANGED <<replays, holder, answer>>
      BY <1>1, RecentRefreshesAssumption DEF Tick, RecentInv, TypeOK
    <2>2. \A e \in Entries(replays) : e.at \in Nat /\ e.at <= clock
      BY EntryTyped DEF RecentInv
    <2>3. TypeOK'
      BY <2>1 DEF RecentInv, TypeOK
    <2> QED
      BY <2>1, <2>2, <2>3 DEF RecentInv, Ordered, Forward, Entries
  <1>2. CASE UNCHANGED vars
    BY <1>2 DEF vars, RecentInv, TypeOK, Ordered, Forward, Entries
  <1> QED
    BY <1>1, <1>2, RecordInv, AskInv DEF Next

LEMMA RecentCorrect == Spec => []RecentInv
  BY RecentInit, RecentNext, PTL DEF Spec

(***************************************************************************)
(* The window, its clock and its answers are well typed: a lifetime handed *)
(* out is never zero or less (RecentRefreshes._aged).                      *)
(***************************************************************************)
THEOREM WindowTypeCorrect == Spec => []TypeOK
  <1>1. RecentInv => TypeOK
    BY DEF RecentInv
  <1> QED
    BY <1>1, RecentCorrect, PTL

(***************************************************************************)
(* record keeps the dictionary within its capacity, each key once, oldest  *)
(* first, whatever was purged, replaced and evicted.                       *)
(***************************************************************************)
THEOREM OldestFirstCorrect == Spec => []OldestFirst
  <1>1. RecentInv => OldestFirst
    BY DEF RecentInv, OldestFirst, Ordered
  <1> QED
    BY <1>1, RecentCorrect, PTL

-----------------------------------------------------------------------------
(***************************************************************************)
(* A lookup has one answer.  The entries of a chain stand further and      *)
(* further on in the dictionary, so the loop of _newest_in_chain, bounded  *)
(* by the number of entries, always reaches the end of the chain.          *)
(***************************************************************************)
InOrder(cache) ==
  /\ cache \in Seq(Replay(Token, Client))
  /\ Ordered(cache) /\ Forward(cache)

Chain(cache, e, client, path, n) ==
  /\ n \in Nat /\ path \in [0..n -> Entries(cache)]
  /\ path[0] = e
  /\ IsChain(cache, client, path, n)

\* At most one entry has a key.
LEMMA MatchingOne ==
  ASSUME NEW cache, InOrder(cache), NEW key, NEW client,
         NEW x \in Matching(cache, key, client), NEW y \in Matching(cache, key, client)
  PROVE  x = y
  <1>1. PICK i \in DOMAIN cache : x = cache[i]
    BY DEF Matching, Entries
  <1>2. PICK j \in DOMAIN cache : y = cache[j]
    BY DEF Matching, Entries
  <1>3. i \in Nat /\ j \in Nat /\ cache[i].key = cache[j].key
    BY <1>1, <1>2 DEF Matching, InOrder
  <1>4. ~(i < j) /\ ~(j < i)
    BY <1>3 DEF InOrder, Ordered
  <1> QED
    BY <1>1, <1>2, <1>3, <1>4

\* The k-th entry of a chain stands behind k others.
LEMMA ChainClimbs ==
  ASSUME NEW cache, InOrder(cache), NEW e, NEW client, NEW path, NEW n,
         Chain(cache, e, client, path, n), NEW k \in 0..n
  PROVE  \E i \in DOMAIN cache : cache[i] = path[k] /\ i > k
  <1> DEFINE Low == {h \in 0..n : ~\E i \in DOMAIN cache : cache[i] = path[h] /\ i > h}
  <1>a. n \in Nat /\ \A i \in DOMAIN cache : i \in Nat /\ i > 0
    BY DEF Chain, InOrder
  <1>1. SUFFICES ASSUME Low # {} PROVE FALSE
    OBVIOUS
  <1>2. PICK h \in Low : \A g \in Low : h <= g
    <2>1. Low \subseteq Nat
      BY <1>a
    <2> HIDE DEF Low
    <2> QED
      BY <1>1, <2>1, Least
  <1>3. h \in 0..n /\ h \in Nat
    BY <1>a
  <1>4. CASE h = 0
    <2>1. path[h] \in Entries(cache)
      BY <1>3 DEF Chain
    <2> QED
      BY <1>a, <1>4, <2>1 DEF Entries
  <1>5. CASE h # 0
    <2>1. h - 1 \in 0..n /\ h \in 1..n /\ ~(h <= h - 1)
      BY <1>3, <1>5, <1>a
    <2>2. h - 1 \notin Low
      BY <1>2, <2>1
    <2>3. PICK i \in DOMAIN cache : cache[i] = path[h - 1] /\ i > h - 1
      BY <2>1, <2>2
    <2>4. path[h] \in Matching(cache, path[h - 1].next, client)
      BY <2>1 DEF Chain, IsChain
    <2>5. PICK j \in DOMAIN cache : cache[j] = path[h]
      BY <2>4 DEF Matching, Entries
    <2>6. i < j
      BY <2>3, <2>4, <2>5 DEF Matching, InOrder, Forward
    <2>7. j > h
      BY <1>a, <1>3, <2>3, <2>6
    <2> QED
      BY <2>5, <2>7
  <1> QED
    BY <1>4, <1>5

\* A chain has no more entries than the window.
LEMMA ChainShort ==
  ASSUME NEW cache, InOrder(cache), NEW e, NEW client, NEW path, NEW n,
         Chain(cache, e, client, path, n)
  PROVE  n < Len(cache)
  <1>1. n \in 0..n /\ n \in Nat
    BY DEF Chain
  <1>2. PICK i \in DOMAIN cache : cache[i] = path[n] /\ i > n
    BY <1>1, ChainClimbs
  <1>3. i \in 1..Len(cache) /\ Len(cache) \in Nat
    BY DEF InOrder
  <1> QED
    BY <1>1, <1>2, <1>3

\* Two chains from an entry agree as far as both go.
LEMMA ChainsAgree ==
  ASSUME NEW cache, InOrder(cache), NEW e, NEW client,
         NEW path, NEW n, Chain(cache, e, client, path, n),
         NEW other, NEW o, Chain(cache, e, client, other, o),
         NEW k \in 0..n, k <= o
  PROVE  path[k] = other[k]
  <1> DEFINE Parted == {h \in 0..n : h <= o /\ path[h] # other[h]}
  <1>a. n \in Nat /\ o \in Nat
    BY DEF Chain
  <1>1. SUFFICES ASSUME Parted # {} PROVE FALSE
    OBVIOUS
  <1>2. PICK h \in Parted : \A g \in Parted : h <= g
    <2>1. Parted \subseteq Nat
      BY <1>a
    <2> HIDE DEF Parted
    <2> QED
      BY <1>1, <2>1, Least
  <1>3. h # 0
    BY <1>2 DEF Chain
  <1>4. h \in 1..n /\ h \in 1..o /\ h - 1 \in 0..n /\ h - 1 <= o /\ ~(h <= h - 1)
    BY <1>a, <1>3
  <1>5. path[h - 1] = other[h - 1]
    BY <1>2, <1>4
  <1>6. /\ path[h] \in Matching(cache, path[h - 1].next, client)
        /\ other[h] \in Matching(cache, other[h - 1].next, client)
    BY <1>4 DEF Chain, IsChain
  <1> QED
    BY <1>5, <1>6, MatchingOne

\* A chain that has not ended goes on.
LEMMA ChainGoesOn ==
  ASSUME NEW cache, InOrder(cache), NEW e, NEW client, NEW path, NEW n,
         Chain(cache, e, client, path, n), NEW m \in Matching(cache, path[n].next, client)
  PROVE  \E longer : Chain(cache, e, client, longer, n + 1) /\ longer[n + 1] = m
  <1> DEFINE longer == [k \in 0..(n + 1) |-> IF k = n + 1 THEN m ELSE path[k]]
  <1>1. n \in Nat /\ n + 1 \in Nat /\ n + 1 \in 0..(n + 1) /\ 0 \in 0..(n + 1) /\ 0 # n + 1
    BY DEF Chain
  <1>2. \A k \in 0..(n + 1) : k # n + 1 => k \in 0..n
    BY <1>1
  <1>3. \A k \in 0..n : k \in 0..(n + 1) /\ k # n + 1
    BY <1>1
  <1>4. m \in Entries(cache) /\ path \in [0..n -> Entries(cache)] /\ path[0] = e
    BY DEF Matching, Chain
  <1>5. longer \in [0..(n + 1) -> Entries(cache)] /\ longer[0] = e /\ longer[n + 1] = m
    BY <1>1, <1>2, <1>4
  <1>6. \A k \in 0..n : longer[k] = path[k]
    BY <1>3
  <1> HIDE DEF longer
  <1>7. ASSUME NEW i \in 1..(n + 1) PROVE longer[i] \in Matching(cache, longer[i - 1].next, client)
    <2>1. i - 1 \in 0..n /\ (i = n + 1 => i - 1 = n) /\ (i # n + 1 => i \in 1..n /\ i \in 0..n)
      BY <1>1
    <2>2. longer[i - 1] = path[i - 1]
      BY <1>6, <2>1
    <2>3. CASE i = n + 1
      BY <1>5, <2>1, <2>2, <2>3
    <2>4. CASE i # n + 1
      BY <1>6, <2>1, <2>2, <2>4 DEF Chain, IsChain
    <2> QED
      BY <2>3, <2>4
  <1> QED
    BY <1>1, <1>5, <1>7 DEF Chain, IsChain

\* What _newest_in_chain returns, with no bound on its hops.
LEMMA EndOfChain ==
  ASSUME NEW cache, InOrder(cache), NEW e, NEW client, NEW m
  PROVE  m \in ChainEnds(cache, e, client) <=>
           /\ m \in Entries(cache) /\ Matching(cache, m.next, client) = {}
           /\ \E path, n : Chain(cache, e, client, path, n) /\ path[n] = m
  <1>1. ASSUME m \in ChainEnds(cache, e, client)
        PROVE  /\ Matching(cache, m.next, client) = {}
               /\ \E path, n : Chain(cache, e, client, path, n) /\ path[n] = m
    <2>1. PICK n \in 0..Len(cache) :
            /\ \E path \in [0..n -> Entries(cache)] :
                 path[0] = e /\ path[n] = m /\ IsChain(cache, client, path, n)
            /\ n = Len(cache) \/ Matching(cache, m.next, client) = {}
      BY <1>1 DEF ChainEnds, Hops
    <2>2. n \in Nat /\ Len(cache) \in Nat
      BY <2>1 DEF InOrder
    <2>3. PICK path : Chain(cache, e, client, path, n) /\ path[n] = m
      BY <2>1, <2>2 DEF Chain
    <2>4. n < Len(cache)
      BY <2>3, ChainShort
    <2> QED
      BY <2>1, <2>2, <2>3, <2>4
  <1>2. ASSUME NEW path, NEW n, Chain(cache, e, client, path, n), path[n] = m,
               m \in Entries(cache), Matching(cache, m.next, client) = {}
        PROVE  m \in ChainEnds(cache, e, client)
    <2>1. n < Len(cache)
      BY <1>2, ChainShort
    <2>2. n \in 0..Len(cache)
      BY <1>2, <2>1 DEF Chain, InOrder
    <2> QED
      BY <1>2, <2>2 DEF Chain, ChainEnds, Hops
  <1> QED
    BY <1>1, <1>2 DEF ChainEnds

\* A chain has an end: a longest one.
LEMMA ChainHasEnd ==
  ASSUME NEW cache, InOrder(cache), NEW e \in Entries(cache), NEW client
  PROVE  ChainEnds(cache, e, client) # {}
  <1> DEFINE Left == {x \in Nat : \E n, path : Chain(cache, e, client, path, n) /\ x = Len(cache) - n}
  <1>a. Len(cache) \in Nat
    BY DEF InOrder
  <1>1. Left # {}
    <2> DEFINE alone == [k \in 0..0 |-> e]
    <2>1. 0 \in 0..0 /\ alone \in [0..0 -> Entries(cache)] /\ alone[0] = e
      OBVIOUS
    <2>2. 1..0 = {}
      OBVIOUS
    <2>3. Chain(cache, e, client, alone, 0)
      BY <2>1, <2>2 DEF Chain, IsChain
    <2>4. Len(cache) = Len(cache) - 0
      BY <1>a
    <2> HIDE DEF alone
    <2> QED
      BY <1>a, <2>3, <2>4
  <1>2. PICK x \in Left : \A y \in Left : x <= y
    <2>1. Left \subseteq Nat
      OBVIOUS
    <2> HIDE DEF Left
    <2> QED
      BY <1>1, <2>1, Least
  <1>3. PICK n, path : Chain(cache, e, client, path, n) /\ x = Len(cache) - n
    BY <1>2
  <1>4. n \in Nat /\ path[n] \in Entries(cache)
    <2>1. n \in Nat /\ n \in 0..n
      BY <1>3 DEF Chain
    <2> QED
      BY <1>3, <2>1 DEF Chain
  <1>5. ASSUME NEW m \in Matching(cache, path[n].next, client) PROVE FALSE
    <2>1. PICK longer : Chain(cache, e, client, longer, n + 1)
      BY <1>3, <1>5, ChainGoesOn
    <2>2. n + 1 < Len(cache)
      BY <2>1, ChainShort
    <2>3. Len(cache) - (n + 1) \in Nat /\ ~(x <= Len(cache) - (n + 1))
      BY <1>a, <1>3, <1>4, <2>2
    <2>4. Len(cache) - (n + 1) \in Left
      BY <2>1, <2>3
    <2> QED
      BY <1>2, <2>3, <2>4
  <1> HIDE DEF Left
  <1>6. path[n] \in ChainEnds(cache, e, client)
    <2>1. Matching(cache, path[n].next, client) = {}
      BY <1>5
    <2> QED
      BY <1>3, <1>4, <2>1, EndOfChain
  <1> QED
    BY <1>6

\* A chain has one end.
LEMMA ChainHasOneEnd ==
  ASSUME NEW cache, InOrder(cache), NEW e, NEW client,
         NEW x \in ChainEnds(cache, e, client), NEW y \in ChainEnds(cache, e, client)
  PROVE  x = y
  <1>1. ASSUME NEW path, NEW n, Chain(cache, e, client, path, n),
               NEW other, NEW o, Chain(cache, e, client, other, o),
               n < o, Matching(cache, path[n].next, client) = {}
        PROVE  FALSE
    <2>1. n \in 0..n /\ n <= o /\ n + 1 \in 1..o /\ (n + 1) - 1 = n
      BY <1>1 DEF Chain
    <2>2. path[n] = other[n]
      BY <1>1, <2>1, ChainsAgree
    <2>3. other[n + 1] \in Matching(cache, other[n].next, client)
      BY <1>1, <2>1 DEF Chain, IsChain
    <2> QED
      BY <1>1, <2>2, <2>3
  <1>2. PICK path, n : Chain(cache, e, client, path, n) /\ path[n] = x
    BY EndOfChain
  <1>3. PICK other, o : Chain(cache, e, client, other, o) /\ other[o] = y
    BY EndOfChain
  <1>4. Matching(cache, path[n].next, client) = {} /\ Matching(cache, other[o].next, client) = {}
    BY <1>2, <1>3, EndOfChain
  <1>5. ~(n < o) /\ ~(o < n)
    BY <1>1, <1>2, <1>3, <1>4
  <1>6. n = o /\ n \in 0..n /\ n <= o
    BY <1>2, <1>3, <1>5 DEF Chain
  <1> QED
    BY <1>2, <1>3, <1>6, ChainsAgree

\* What a lookup looks at is in order.
LEMMA PurgedInOrder == RecentInv => InOrder(Purged(replays, clock))
  BY PurgedInv DEF InOrder

(***************************************************************************)
(* tokens and refresh_token answer a lookup that finds an entry with one   *)
(* replay, and None otherwise: never with one of several, and never with   *)
(* nothing or with a pair rotated since because the loop ran out of hops.  *)
(***************************************************************************)
THEOREM OneAnswerCorrect == Spec => []OneAnswer
  <1>1. RecentInv => OneAnswer
    <2> SUFFICES ASSUME RecentInv, NEW t \in Token, NEW c \in Client
                 PROVE  /\ Cardinality(Replayed(replays, t, c, clock)) =
                             IF Matching(Purged(replays, clock), t, c) = {} THEN 0 ELSE 1
                        /\ \A m \in Replayed(replays, t, c, clock) :
                             Matching(Purged(replays, clock), m.next, c) = {}
      BY DEF OneAnswer
    <2> DEFINE kept == Purged(replays, clock)
    <2>1. InOrder(kept)
      BY PurgedInOrder
    <2>2. Replayed(replays, t, c, clock) = UNION {ChainEnds(kept, e, c) : e \in Matching(kept, t, c)}
      BY DEF Replayed
    <2> HIDE DEF kept
    <2>3. CASE Matching(kept, t, c) = {}
      <3>1. Replayed(replays, t, c, clock) = {}
        BY <2>2, <2>3
      <3> QED
        BY <2>3, <3>1, FS_EmptySet DEF kept
    <2>4. ASSUME NEW e \in Matching(kept, t, c)
          PROVE  Cardinality(Replayed(replays, t, c, clock)) = 1
      <3>1. \A f \in Matching(kept, t, c) : f = e
        BY <2>1, MatchingOne
      <3>2. Replayed(replays, t, c, clock) = ChainEnds(kept, e, c)
        BY <2>2, <3>1
      <3>3. PICK m : m \in ChainEnds(kept, e, c)
        BY <2>1, ChainHasEnd DEF Matching
      <3>4. ChainEnds(kept, e, c) = {m}
        BY <2>1, <3>3, ChainHasOneEnd
      <3> QED
        BY <3>2, <3>4, FS_Singleton
    <2>5. ASSUME NEW m \in Replayed(replays, t, c, clock) PROVE Matching(kept, m.next, c) = {}
      <3>1. PICK e \in Matching(kept, t, c) : m \in ChainEnds(kept, e, c)
        BY <2>2
      <3> QED
        BY <2>1, <3>1, EndOfChain
    <2> QED
      BY <2>3, <2>4, <2>5 DEF kept
  <1> QED
    BY <1>1, RecentCorrect, PTL

-----------------------------------------------------------------------------
(***************************************************************************)
(* The dictionary implements ReplayMemory.  Promise's memory is Kept(...): *)
(* the entries that have not expired, whether or not they are purged.      *)
(***************************************************************************)
Seen(e) == [key |-> e.key, client |-> e.client, next |-> e.next,
            at |-> e.at, until |-> e.at + e.life]

SeenIn(cache) == {Seen(e) : e \in Entries(cache)}

Kept(cache, now) == {Seen(e) : e \in {x \in Entries(cache) : ~Expired(x, now)}}

\* An entry and what is remembered of it determine each other.
LEMMA SeenOnce ==
  ASSUME NEW x \in Replay(Token, Client), NEW y \in Replay(Token, Client), Seen(x) = Seen(y)
  PROVE  x = y
  <1>1. /\ x.key = y.key /\ x.client = y.client /\ x.next = y.next /\ x.at = y.at
        /\ x.at + x.life = y.at + y.life
    BY DEF Seen
  <1>2. x.life = y.life
    BY <1>1 DEF Replay
  <1> QED
    BY <1>1, <1>2 DEF Replay

\* A window that holds nothing expired is remembered whole.
LEMMA KeptWhole ==
  ASSUME NEW cache, NEW now, \A x \in Entries(cache) : ~Expired(x, now)
  PROVE  Kept(cache, now) = SeenIn(cache)
  BY DEF Kept, SeenIn

\* Nothing is remembered of an empty window.
LEMMA PromiseInit == Init => Promise!Init
  <1> SUFFICES ASSUME Init PROVE Promise!Init
    OBVIOUS
  <1>1. DOMAIN replays = {} /\ Entries(replays) = {}
    BY DEF Init, Entries
  <1> QED
    BY <1>1 DEF Init, Promise!Init

\* Time passes: what expires is forgotten, purged or not.
LEMMA PromiseTick ==
  ASSUME RecentInv, Tick
  PROVE  Promise!Tick
  <1>1. clock \in Nat /\ clock' = clock + 1 /\ clock < MaxTime /\ UNCHANGED <<replays, answer>>
    BY DEF Tick, RecentInv, TypeOK
  <1>2. ASSUME NEW x \in Entries(replays)
        PROVE  ~Expired(x, clock') <=> ~Expired(x, clock) /\ clock' <= x.at + Window
    <2>1. x.at \in Nat
      BY EntryTyped
    <2> QED
      BY <1>1, <2>1, ReplayCacheAssumption DEF Expired
  <1>3. Kept(replays, clock)' = Promise!Fresh(Kept(replays, clock), clock')
    <2>1. \A x \in Entries(replays) : Seen(x).at = x.at
      BY DEF Seen
    <2> QED
      BY <1>1, <1>2, <2>1 DEF Kept, Promise!Fresh
  <1> QED
    BY <1>1, <1>3 DEF Promise!Tick, Kept, Seen

\* What is remembered is what a lookup would look at.
LEMMA KeptPurged ==
  ASSUME RecentInv
  PROVE  Kept(replays, clock) = SeenIn(Purged(replays, clock))
  BY PurgedInv DEF Kept, SeenIn

\* The successors of an entry, in the dictionary and in what is remembered.
LEMMA SuccessorsSeen ==
  ASSUME RecentInv, NEW x \in Entries(Purged(replays, clock)), NEW f
  PROVE  f \in Promise!Successors(Seen(x)) <=>
           \E y \in Matching(Purged(replays, clock), x.next, x.client) : f = Seen(y)
  <1> DEFINE kept == Purged(replays, clock)
  <1>1. Promise!Successors(Seen(x)) = {g \in SeenIn(kept) : g.key = Seen(x).next /\ g.client = Seen(x).client}
    BY KeptPurged DEF Promise!Successors, Kept, Seen
  <1> HIDE DEF kept
  <1>2. \A y : Seen(y).key = y.key /\ Seen(y).client = y.client /\ Seen(y).next = y.next
    BY DEF Seen
  <1> QED
    BY <1>1, <1>2 DEF SeenIn, Matching, kept

\* A chain stays with the client it began with.
LEMMA ChainClient ==
  ASSUME NEW cache, NEW e, NEW path, NEW n, Chain(cache, e, e.client, path, n), NEW k \in 0..n
  PROVE  path[k] \in Entries(cache) /\ path[k].client = e.client
  <1>1. CASE k = 0
    BY <1>1 DEF Chain
  <1>2. CASE k # 0
    <2>1. k \in 1..n
      BY <1>2 DEF Chain
    <2> QED
      BY <2>1 DEF Chain, IsChain, Matching
  <1> QED
    BY <1>1, <1>2

\* Whatever holds an entry and is closed under rotations holds its chains.
LEMMA ClosedHoldsChain ==
  ASSUME RecentInv, NEW e, NEW path, NEW n,
         Chain(Purged(replays, clock), e, e.client, path, n),
         NEW S, Seen(e) \in S, \A g \in S : Promise!Successors(g) \subseteq S
  PROVE  Seen(path[n]) \in S
  <1> DEFINE kept == Purged(replays, clock)
             Missed == {h \in 0..n : Seen(path[h]) \notin S}
  <1>a. n \in Nat /\ n \in 0..n
    BY DEF Chain
  <1>1. SUFFICES ASSUME Missed # {} PROVE FALSE
    BY <1>a
  <1>2. PICK h \in Missed : \A g \in Missed : h <= g
    <2>1. Missed \subseteq Nat
      BY <1>a
    <2> HIDE DEF Missed
    <2> QED
      BY <1>1, <2>1, Least
  <1>3. h # 0
    BY <1>2 DEF Chain
  <1>4. h \in 1..n /\ h - 1 \in 0..n /\ ~(h <= h - 1)
    BY <1>a, <1>3
  <1>5. Seen(path[h - 1]) \in S
    BY <1>2, <1>4
  <1>6. path[h - 1] \in Entries(kept) /\ path[h - 1].client = e.client
    BY <1>4, ChainClient
  <1>7. path[h] \in Matching(kept, path[h - 1].next, path[h - 1].client)
    BY <1>4, <1>6 DEF Chain, IsChain
  <1>8. Seen(path[h]) \in Promise!Successors(Seen(path[h - 1]))
    BY <1>6, <1>7, SuccessorsSeen
  <1> QED
    BY <1>5, <1>8

\* What is reached from an entry is what its chains lead to.
LEMMA ReachedByChain ==
  ASSUME RecentInv, NEW e \in Entries(Purged(replays, clock)), NEW f
  PROVE  f \in Promise!Reached(Seen(e)) <=>
           \E path, n : Chain(Purged(replays, clock), e, e.client, path, n) /\ f = Seen(path[n])
  <1> DEFINE kept == Purged(replays, clock)
             M == SeenIn(kept)
             Held == {g \in M : \E path, n : Chain(kept, e, e.client, path, n) /\ g = Seen(path[n])}
  <1>1. InOrder(kept)
    BY PurgedInOrder
  <1>2. f \in Promise!Reached(Seen(e)) <=>
          /\ f \in M
          /\ \A S \in SUBSET M : Seen(e) \in S /\ (\A g \in S : Promise!Successors(g) \subseteq S) => f \in S
    BY KeptPurged DEF Promise!Reached, Kept, Seen
  <1>3. ASSUME NEW path, NEW n, Chain(kept, e, e.client, path, n)
        PROVE  Seen(path[n]) \in M
    <2>1. n \in 0..n
      BY <1>3 DEF Chain
    <2> QED
      BY <1>3, <2>1, ChainClient DEF SeenIn
  <1>4. ASSUME NEW path, NEW n, Chain(kept, e, e.client, path, n), f = Seen(path[n])
        PROVE  f \in Promise!Reached(Seen(e))
    BY <1>2, <1>3, <1>4, ClosedHoldsChain
  <1>5. Seen(e) \in Held
    <2> DEFINE alone == [k \in 0..0 |-> e]
    <2>1. 0 \in 0..0 /\ alone \in [0..0 -> Entries(kept)] /\ alone[0] = e /\ 1..0 = {}
      OBVIOUS
    <2>2. Chain(kept, e, e.client, alone, 0)
      BY <2>1 DEF Chain, IsChain
    <2> HIDE DEF alone
    <2> QED
      BY <1>3, <2>1, <2>2
  <1>6. ASSUME NEW g \in Held, NEW s \in Promise!Successors(g) PROVE s \in Held
    <2>1. PICK path, n : Chain(kept, e, e.client, path, n) /\ g = Seen(path[n])
      OBVIOUS
    <2>2. n \in 0..n
      BY <2>1 DEF Chain
    <2>3. path[n] \in Entries(kept) /\ path[n].client = e.client
      BY <2>1, <2>2, ChainClient
    <2>4. PICK m \in Matching(kept, path[n].next, e.client) : s = Seen(m)
      BY <1>6, <2>1, <2>3, SuccessorsSeen
    <2>5. \E longer : Chain(kept, e, e.client, longer, n + 1) /\ longer[n + 1] = m
      BY <1>1, <2>1, <2>4, ChainGoesOn
    <2>6. s \in M
      BY <2>4 DEF SeenIn, Matching
    <2> QED
      BY <2>4, <2>5, <2>6
  <1>7. Held \in SUBSET M /\ \A g \in Held : Promise!Successors(g) \subseteq Held
    BY <1>6
  <1>8. \A g \in Held : \E path, n : Chain(kept, e, e.client, path, n) /\ g = Seen(path[n])
    OBVIOUS
  <1> HIDE DEF Held, M, kept
  <1>9. f \in Promise!Reached(Seen(e)) => f \in Held
    BY <1>2, <1>5, <1>7
  <1> QED
    BY <1>4, <1>8, <1>9 DEF kept

\* A lookup finds the newest of what is remembered.
LEMMA NewestSeen ==
  ASSUME RecentInv, NEW t, NEW c, NEW f
  PROVE  f \in Promise!Newest(t, c) <=>
           \E m \in Replayed(replays, t, c, clock) : f = Seen(m)
  <1> DEFINE kept == Purged(replays, clock)
  <1>1. InOrder(kept)
    BY PurgedInOrder
  <1>2. \A y : Seen(y).key = y.key /\ Seen(y).client = y.client
    BY DEF Seen
  <1>3. f \in Promise!Newest(t, c) <=>
          /\ Promise!Successors(f) = {}
          /\ \E g \in SeenIn(kept) : g.key = t /\ g.client = c /\ f \in Promise!Reached(g)
    BY KeptPurged DEF Promise!Newest, Kept, Seen
  <1>4. (\E g \in SeenIn(kept) : g.key = t /\ g.client = c /\ f \in Promise!Reached(g))
          <=> \E e \in Matching(kept, t, c) : f \in Promise!Reached(Seen(e))
    BY <1>2 DEF SeenIn, Matching
  <1>5. ASSUME NEW e \in Matching(kept, t, c)
        PROVE  (f \in Promise!Reached(Seen(e)) /\ Promise!Successors(f) = {})
                 <=> \E m \in ChainEnds(kept, e, c) : f = Seen(m)
    <2>1. e \in Entries(kept) /\ e.client = c
      BY DEF Matching
    <2>2. f \in Promise!Reached(Seen(e)) <=>
            \E path, n : Chain(kept, e, c, path, n) /\ f = Seen(path[n])
      BY <2>1, ReachedByChain
    <2>3. ASSUME NEW path, NEW n, Chain(kept, e, c, path, n)
          PROVE  /\ path[n] \in Entries(kept)
                 /\ Promise!Successors(Seen(path[n])) = {} <=> Matching(kept, path[n].next, c) = {}
      <3>1. n \in 0..n
        BY <2>3 DEF Chain
      <3>2. path[n] \in Entries(kept) /\ path[n].client = c
        BY <2>1, <2>3, <3>1, ChainClient
      <3>3. \A s : s \in Promise!Successors(Seen(path[n])) <=>
              \E y \in Matching(kept, path[n].next, c) : s = Seen(y)
        BY <3>2, SuccessorsSeen
      <3> QED
        BY <3>2, <3>3
    <2>4. \A m : m \in ChainEnds(kept, e, c) <=>
            /\ m \in Entries(kept) /\ Matching(kept, m.next, c) = {}
            /\ \E path, n : Chain(kept, e, c, path, n) /\ path[n] = m
      BY <1>1, EndOfChain
    <2> HIDE DEF kept
    <2>5. ASSUME f \in Promise!Reached(Seen(e)), Promise!Successors(f) = {}
          PROVE  \E m \in ChainEnds(kept, e, c) : f = Seen(m)
      <3>1. PICK path, n : Chain(kept, e, c, path, n) /\ f = Seen(path[n])
        BY <2>2, <2>5
      <3>2. path[n] \in Entries(kept) /\ Matching(kept, path[n].next, c) = {}
        BY <2>3, <2>5, <3>1
      <3> QED
        BY <2>4, <3>1, <3>2
    <2>6. ASSUME NEW m \in ChainEnds(kept, e, c), f = Seen(m)
          PROVE  f \in Promise!Reached(Seen(e)) /\ Promise!Successors(f) = {}
      <3>1. Matching(kept, m.next, c) = {}
        BY <2>4
      <3>2. PICK path, n : Chain(kept, e, c, path, n) /\ path[n] = m
        BY <2>4
      <3>3. Promise!Successors(Seen(path[n])) = {}
        BY <2>3, <3>1, <3>2
      <3> QED
        BY <2>2, <2>6, <3>2, <3>3
    <2> QED
      BY <2>5, <2>6
  <1>6. Replayed(replays, t, c, clock) = UNION {ChainEnds(kept, e, c) : e \in Matching(kept, t, c)}
    BY DEF Replayed
  <1> HIDE DEF kept
  <1> QED
    BY <1>3, <1>4, <1>5, <1>6

\* A lookup answers what is promised, with the seconds the pair has left.
LEMMA PromiseAsk ==
  ASSUME RecentInv, RecentInv', NEW t \in Token, NEW c \in Client, Ask(t, c)
  PROVE  Promise!Ask(t, c)
  <1> DEFINE found == Replayed(replays, t, c, clock)
  <1>1. replays' = Purged(replays, clock) /\ UNCHANGED clock
    BY DEF Ask
  <1>2. Kept(replays, clock)' = Kept(replays, clock)
    BY <1>1, PurgedInv DEF Kept
  <1>3. IF found = {} THEN answer' = None
        ELSE \E m \in found : answer' = [next |-> m.next, left |-> Aged(m, clock)]
    BY DEF Ask
  <1>4. ASSUME NEW m \in found
        PROVE  Seen(m).next = m.next /\ Promise!SecondsLeft(Seen(m)) = Aged(m, clock)
    <2>1. m \in Entries(replays) /\ clock \in Nat
      BY <1>4, ReplayedEntries DEF RecentInv, TypeOK
    <2>2. m.at \in Nat /\ m.life \in Nat
      BY <2>1, EntryTyped
    <2>3. Seen(m).until = m.at + m.life /\ Seen(m).next = m.next
      BY DEF Seen
    <2> QED
      BY <2>1, <2>2, <2>3 DEF Promise!SecondsLeft, Aged
  <1>5. \A f : f \in Promise!Newest(t, c) <=> \E m \in found : f = Seen(m)
    BY NewestSeen
  <1> HIDE DEF found
  <1>6. answer' \in IF Promise!Newest(t, c) = {} THEN {None}
                    ELSE {[next |-> f.next, left |-> Promise!SecondsLeft(f)] : f \in Promise!Newest(t, c)}
    BY <1>3, <1>4, <1>5
  <1> QED
    BY <1>1, <1>2, <1>6 DEF Promise!Ask, Kept, Seen

\* As much is remembered as the dictionary has entries.
LEMMA SeenCount ==
  ASSUME NEW cache, InOrder(cache)
  PROVE  Cardinality(SeenIn(cache)) = Len(cache)
  <1> DEFINE N == 1..Len(cache)
             f == [i \in N |-> Seen(cache[i])]
  <1>1. Len(cache) \in Nat /\ DOMAIN cache = N /\ SeenIn(cache) = {Seen(cache[i]) : i \in N}
    BY DEF InOrder, SeenIn, Entries
  <1>2. ASSUME NEW i \in N, NEW j \in N, f[i] = f[j] PROVE i = j
    <2>1. cache[i].key = cache[j].key
      BY <1>2 DEF Seen
    <2>2. ~(i < j) /\ ~(j < i)
      BY <1>1, <2>1 DEF InOrder, Ordered
    <2> QED
      BY <1>1, <2>2
  <1>3. f \in [N -> SeenIn(cache)] /\ \A s \in SeenIn(cache) : \E i \in N : f[i] = s
    BY <1>1
  <1>4. f \in Bijection(N, SeenIn(cache))
    BY <1>2, <1>3 DEF Bijection, Injection, Surjection, IsInjective
  <1> QED
    BY <1>1, <1>4, FS_CountingElements DEF ExistsBijection

\* _evict_overflow leaves the capacity, or all there is.
LEMMA EvictedCount ==
  ASSUME NEW S, NEW cache \in Seq(S)
  PROVE  Len(Evicted(cache)) = IF Len(cache) > Capacity THEN Capacity ELSE Len(cache)
  <1>1. CASE Len(cache) > Capacity
    <2> DEFINE first == Len(cache) - Capacity + 1
    <2>1. first \in 1..(Len(cache) + 1) /\ Len(cache) \in Nat /\ Len(cache) - first + 1 = Capacity
      BY <1>1, ReplayCacheAssumption
    <2>2. Len(SubSeq(cache, first, Len(cache))) = Len(cache) - first + 1
      BY <2>1, SuffixThinned
    <2> QED
      BY <1>1, <2>1, <2>2 DEF Evicted
  <1>2. CASE ~(Len(cache) > Capacity)
    BY <1>2 DEF Evicted
  <1> QED
    BY <1>1, <1>2

\* Recording a rotation gives up the oldest entries, and only for want of room.
LEMMA PromiseRecord ==
  ASSUME RecentInv, RecentInv', NEW t \in 1..Len(holder), NEW life \in Lifetimes, Record(t, life)
  PROVE  Promise!Remember
  <1> DEFINE e == [key |-> t, client |-> holder[t], next |-> Len(holder) + 1,
                   life |-> life, at |-> clock]
             longer == Replacing(replays, e, clock)
  <1>1. /\ e \in Replay(Token, Client) /\ e.key < e.next /\ e.at = clock
        /\ e.next = Len(holder) + 1 /\ Len(holder) \in Nat /\ clock \in Nat
    BY RecentRefreshesAssumption DEF Record, Replay, Token, RecentInv, TypeOK
  <1>2. replays' = Recorded(replays, e, clock) /\ UNCHANGED <<clock, answer>>
    BY DEF Record
  <1> HIDE DEF e
  <1>3. ASSUME NEW x \in Entries(replays) PROVE x.at <= e.at /\ x.key # e.next
    <2>1. x \in Replay(Token, Client) /\ x.at <= clock /\ x.key < x.next /\ x.next <= Len(holder)
      BY EntryTyped DEF RecentInv
    <2> QED
      BY <1>1, <2>1 DEF Replay, Token
  <1>4. e.key # e.next
    BY <1>1 DEF Replay, Token
  <1>5. /\ InOrder(longer) /\ Len(longer) # 0 /\ longer[Len(longer)] = e
        /\ \A x : x \in Entries(longer) <=>
                    x = e \/ (x \in Entries(replays) /\ ~Expired(x, clock) /\ x.key # e.key)
    <2>1. replays \in Seq(Replay(Token, Client)) /\ Ordered(replays) /\ Forward(replays)
      BY DEF RecentInv, TypeOK
    <2> QED
      BY <1>1, <1>3, <1>4, <2>1, ReplacingOrder DEF InOrder
  <1>6. replays' = Evicted(longer)
    BY <1>2 DEF Recorded, Replacing
  <1> HIDE DEF longer
  <1>7. InOrder(replays')
    BY DEF InOrder, RecentInv, TypeOK
  <1>8. /\ e \in Entries(replays') /\ Entries(replays') \subseteq Entries(longer)
        /\ \A i, j \in DOMAIN longer :
             i <= j /\ longer[i] \in Entries(replays') => longer[j] \in Entries(replays')
    BY <1>5, <1>6, EvictedOrder, ThinnedOrder DEF InOrder
  <1>9. Kept(replays, clock)' = SeenIn(replays')
    <2>1. ~Expired(e, clock')
      BY <1>1, <1>2, ReplayCacheAssumption DEF Expired
    <2>2. \A x \in Entries(replays') : ~Expired(x, clock')
      BY <1>2, <1>5, <1>8, <2>1
    <2> QED
      BY <2>2, KeptWhole DEF Kept
  <1>10. {s \in Kept(replays, clock) : s.key # Seen(e).key} \cup {Seen(e)} = SeenIn(longer)
    <2>1. \A x : Seen(x).key = x.key
      BY DEF Seen
    <2> QED
      BY <1>5, <2>1 DEF Kept, SeenIn
  <1>11. ASSUME NEW a \in SeenIn(replays'), NEW f \in SeenIn(longer) \ SeenIn(replays')
         PROVE  f.at <= a.at
    <2>1. PICK x \in Entries(longer) : x \in Entries(replays') /\ a = Seen(x)
      BY <1>8 DEF SeenIn
    <2>2. PICK y \in Entries(longer) : y \notin Entries(replays') /\ f = Seen(y)
      BY <1>11 DEF SeenIn
    <2>3. PICK i \in DOMAIN longer, j \in DOMAIN longer : longer[i] = x /\ longer[j] = y
      BY DEF Entries
    <2>4. i \in Nat /\ j \in Nat /\ ~(i <= j)
      BY <1>5, <1>8, <2>1, <2>2, <2>3 DEF InOrder
    <2>5. y.at <= x.at
      BY <1>5, <2>3, <2>4 DEF InOrder, Ordered
    <2> QED
      BY <2>1, <2>2, <2>5 DEF Seen
  <1>12. /\ Cardinality(SeenIn(replays')) = Len(replays')
         /\ Cardinality(SeenIn(longer)) = Len(longer)
    BY <1>5, <1>7, SeenCount
  <1>13. Len(replays') = IF Len(longer) > Capacity THEN Capacity ELSE Len(longer)
    BY <1>5, <1>6, EvictedCount DEF InOrder
  <1>14. SeenIn(replays') \subseteq SeenIn(longer) /\ Seen(e) \in SeenIn(replays')
    BY <1>8 DEF SeenIn
  <1>15. Promise!Youngest(SeenIn(longer), SeenIn(replays'), Seen(e))
    <2>1. \A S : Promise!Cardinality(S) = Cardinality(S)
      BY DEF Promise!Cardinality, Cardinality
    <2> QED
      BY <1>11, <1>12, <1>13, <1>14, <2>1 DEF Promise!Youngest
  <1>16. Seen(e).at = clock
    BY <1>1 DEF Seen
  <1> QED
    BY <1>2, <1>9, <1>10, <1>14, <1>15, <1>16 DEF Promise!Remember, Kept, Seen

\* Every step of the window is one of its promise, or changes nothing of it.
LEMMA PromiseNext ==
  ASSUME RecentInv, RecentInv', [Next]_vars
  PROVE  [Promise!Next]_(Promise!vars)
  <1>1. CASE UNCHANGED vars
    BY <1>1 DEF vars, Promise!vars
  <1> QED
    BY <1>1, PromiseTick, PromiseAsk, PromiseRecord DEF Next, Promise!Next

(***************************************************************************)
(* RecentRefreshes keeps the promise of the replay window: a pair is       *)
(* remembered for exactly Window seconds, or until more than Capacity      *)
(* younger rotations were recorded, and a lookup is answered with the end  *)
(* of the chain and the seconds that pair has left.                        *)
(***************************************************************************)
THEOREM ReplayPromiseCorrect == Spec => ReplayPromise
  <1>1. Init => Promise!Init
    BY PromiseInit
  <1>2. RecentInv /\ RecentInv' /\ [Next]_vars => [Promise!Next]_(Promise!vars)
    BY PromiseNext
  <1> QED
    BY <1>1, <1>2, RecentCorrect, PTL DEF Spec, ReplayPromise, Promise!Spec
=============================================================================
