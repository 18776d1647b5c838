-------------------------- MODULE ReplayCacheProofs --------------------------
(***************************************************************************)
(* What the replay dictionary's operations return, for every window and    *)
(* capacity, every token and client: which entries they keep, in which     *)
(* order, and how many.  The proofs about the window itself and about      *)
(* token exchange cite them.                                               *)
(***************************************************************************)
EXTENDS ReplayCache, SequenceTheorems, WellFoundedInduction, TLAPS

(***************************************************************************)
(* A subsequence holds only elements of the sequence.                      *)
(***************************************************************************)
LEMMA SubSeqEntries ==
  ASSUME NEW S, NEW cache \in Seq(S), NEW i \in 1..(Len(cache) + 1), NEW j \in 0..Len(cache)
  PROVE  /\ SubSeq(cache, i, j) \in Seq(S)
         /\ Entries(SubSeq(cache, i, j)) \subseteq Entries(cache)
  BY DEF Entries

(***************************************************************************)
(* _purge_expired only removes entries.                                    *)
(***************************************************************************)
LEMMA PurgedEntries ==
  ASSUME NEW S, NEW cache \in Seq(S), NEW now \in Nat
  PROVE  /\ Purged(cache, now) \in Seq(S)
         /\ Entries(Purged(cache, now)) \subseteq Entries(cache)
  <1>1. CASE \E i \in DOMAIN cache : FirstFresh(cache, now, i)
    <2> DEFINE first == CHOOSE i \in DOMAIN cache : FirstFresh(cache, now, i)
    <2>1. first \in DOMAIN cache
      BY <1>1
    <2>2. first \in 1..(Len(cache) + 1) /\ Len(cache) \in 0..Len(cache)
      BY <2>1
    <2>3. Purged(cache, now) = SubSeq(cache, first, Len(cache))
      BY <1>1 DEF Purged
    <2> QED
      BY <2>2, <2>3, SubSeqEntries
  <1>2. CASE ~\E i \in DOMAIN cache : FirstFresh(cache, now, i)
    BY <1>2 DEF Purged, Entries
  <1> QED
    BY <1>1, <1>2

(***************************************************************************)
(* Dropping an earlier entry of the same key only removes entries.         *)
(***************************************************************************)
LEMMA WithoutEntries ==
  ASSUME NEW S, NEW cache \in Seq(S), NEW key
  PROVE  /\ Without(cache, key) \in Seq(S)
         /\ Entries(Without(cache, key)) \subseteq Entries(cache)
  <1>1. CASE \E i \in DOMAIN cache : cache[i].key = key
    <2> DEFINE at == CHOOSE i \in DOMAIN cache : cache[i].key = key
               left == SubSeq(cache, 1, at - 1)
               right == SubSeq(cache, at + 1, Len(cache))
    <2>1. at \in 1..Len(cache)
      BY <1>1
    <2> HIDE DEF at
    <2>2. left \in Seq(S) /\ Entries(left) \subseteq Entries(cache)
      BY <2>1, SubSeqEntries
    <2>3. right \in Seq(S) /\ Entries(right) \subseteq Entries(cache)
      BY <2>1, SubSeqEntries
    <2> HIDE DEF left, right
    <2>4. left \o right \in Seq(S) /\ Entries(left \o right) \subseteq Entries(left) \cup Entries(right)
      BY <2>2, <2>3 DEF Entries
    <2>5. Without(cache, key) = left \o right
      BY <1>1 DEF Without, at, left, right
    <2> QED
      BY <2>2, <2>3, <2>4, <2>5
  <1>2. CASE ~\E i \in DOMAIN cache : cache[i].key = key
    BY <1>2 DEF Without
  <1> QED
    BY <1>1, <1>2

(***************************************************************************)
(* Appending adds one entry, and eviction only removes entries.            *)
(***************************************************************************)
LEMMA EvictedEntries ==
  ASSUME NEW S, NEW cache \in Seq(S)
  PROVE  /\ Evicted(cache) \in Seq(S)
         /\ Entries(Evicted(cache)) \subseteq Entries(cache)
  <1>1. CASE Len(cache) > Capacity
    <2>1. Len(cache) - Capacity + 1 \in 1..(Len(cache) + 1) /\ Len(cache) \in 0..Len(cache)
      BY <1>1, ReplayCacheAssumption
    <2> QED
      BY <1>1, <2>1, SubSeqEntries DEF Evicted
  <1>2. CASE ~(Len(cache) > Capacity)
    BY <1>2 DEF Evicted
  <1> QED
    BY <1>1, <1>2

(***************************************************************************)
(* record leaves the dictionary holding earlier entries and the new one.   *)
(***************************************************************************)
LEMMA RecordedEntries ==
  ASSUME NEW S, NEW cache \in Seq(S), NEW e \in S, NEW now \in Nat
  PROVE  /\ Recorded(cache, e, now) \in Seq(S)
         /\ Entries(Recorded(cache, e, now)) \subseteq Entries(cache) \cup {e}
  <1> DEFINE kept == Without(Purged(cache, now), e.key)
             longer == Append(kept, e)
  <1>1. kept \in Seq(S) /\ Entries(kept) \subseteq Entries(cache)
    BY PurgedEntries, WithoutEntries
  <1>2. longer \in Seq(S) /\ Entries(longer) \subseteq Entries(kept) \cup {e}
    BY <1>1 DEF Entries
  <1>3. Evicted(longer) \in Seq(S) /\ Entries(Evicted(longer)) \subseteq Entries(longer)
    BY <1>2, EvictedEntries
  <1> QED
    BY <1>1, <1>2, <1>3 DEF Recorded

(***************************************************************************)
(* record never exceeds the capacity.                                      *)
(***************************************************************************)
LEMMA RecordedBounded ==
  ASSUME NEW S, NEW cache \in Seq(S), NEW e \in S, NEW now \in Nat
  PROVE  Len(Recorded(cache, e, now)) <= Capacity
  <1> DEFINE longer == Append(Without(Purged(cache, now), e.key), e)
  <1>1. longer \in Seq(S)
    BY PurgedEntries, WithoutEntries
  <1> HIDE DEF longer
  <1>2. Len(Evicted(longer)) <= Capacity
    BY <1>1, ReplayCacheAssumption DEF Evicted
  <1> QED
    BY <1>2 DEF Recorded, longer

(***************************************************************************)
(* Whatever a lookup answers is an entry of the dictionary made for the    *)
(* client that asks, however long the chain of rotations it followed.      *)
(***************************************************************************)
LEMMA ReplayedEntries ==
  ASSUME NEW S, NEW cache \in Seq(S), NEW now \in Nat, NEW key, NEW client,
         NEW m \in Replayed(cache, key, client, now)
  PROVE  m \in Entries(cache) /\ m.client = client
  <1> DEFINE kept == Purged(cache, now)
  <1>1. kept \in Seq(S) /\ Entries(kept) \subseteq Entries(cache)
    BY PurgedEntries
  <1> HIDE DEF kept
  <1>2. PICK e \in Matching(kept, key, client) : m \in ChainEnds(kept, e, client)
    BY DEF Replayed, kept
  <1>3. PICK n \in 0..Hops(kept) : \E path \in [0..n -> Entries(kept)] :
          path[0] = e /\ path[n] = m /\ IsChain(kept, client, path, n)
    BY <1>2 DEF ChainEnds
  <1>4. PICK path \in [0..n -> Entries(kept)] :
          path[0] = e /\ path[n] = m /\ IsChain(kept, client, path, n)
    BY <1>3
  <1>5. m \in Entries(kept)
    BY <1>2 DEF ChainEnds
  <1>6. m.client = client
    <2>1. CASE n = 0
      BY <1>2, <1>4, <2>1 DEF Matching
    <2>2. CASE n # 0
      <3>1. n \in 1..n
        BY <2>2
      <3> QED
        BY <1>4, <3>1 DEF IsChain, Matching
    <2> QED
      BY <2>1, <2>2
  <1> QED
    BY <1>1, <1>5, <1>6

-----------------------------------------------------------------------------
(***************************************************************************)
(* The order of the entries.  All that the dictionary's operations do is   *)
(* drop entries and append one, so what is kept is in the order it was in: *)
(* a thinned dictionary maps into the old one by an increasing function.   *)
(***************************************************************************)
ThinnedBy(new, old, from) ==
  /\ from \in [DOMAIN new -> DOMAIN old]
  /\ \A i \in DOMAIN new : new[i] = old[from[i]]
  /\ \A i, j \in DOMAIN new : i < j => from[i] < from[j]

Thinned(new, old) == \E from \in [DOMAIN new -> DOMAIN old] : ThinnedBy(new, old, from)

\* The keys of the dictionary are distinct, and its entries in order of time.
Ordered(cache) ==
  \A i, j \in DOMAIN cache :
    i < j => cache[i].key # cache[j].key /\ cache[i].at <= cache[j].at

\* A rotation of a pair is recorded after the rotation that issued the pair.
Forward(cache) ==
  \A i, j \in DOMAIN cache : cache[j].key = cache[i].next => i < j

\* A set of natural numbers has a least one.
LEMMA Least ==
  ASSUME NEW N, N \subseteq Nat, N # {}
  PROVE  \E x \in N : \A y \in N : x <= y
  <1> DEFINE R == OpToRel(<, Nat)
  <1>1. IsWellFoundedOn(R, Nat)
    BY NatLessThanWellFounded
  <1>2. \A x, y \in Nat : y < x => <<y, x>> \in R
    BY DEF OpToRel
  <1> HIDE DEF R
  <1>3. PICK x \in N : \A y \in N : ~ (<<y, x>> \in R)
    BY <1>1, WFMin
  <1>4. \A y \in N : ~(y < x)
    BY <1>2, <1>3
  <1> QED
    BY <1>3, <1>4

\* What an entry of a dictionary is made of.
LEMMA EntryAt ==
  ASSUME NEW T, NEW C, NEW cache \in Seq(Replay(T, C)), NEW i \in DOMAIN cache
  PROVE  /\ i \in 1..Len(cache) /\ cache[i] \in Entries(cache) /\ cache[i] \in Replay(T, C)
         /\ cache[i].at \in Nat /\ cache[i].key \in T /\ cache[i].next \in T /\ cache[i].client \in C
  <1>1. i \in 1..Len(cache) /\ cache[i] \in Replay(T, C)
    OBVIOUS
  <1> QED
    BY <1>1 DEF Replay, Entries

\* A dictionary is a thinning of itself.
LEMMA ThinnedItself ==
  ASSUME NEW S, NEW cache \in Seq(S)
  PROVE  Thinned(cache, cache)
  <1> DEFINE from == [i \in DOMAIN cache |-> i]
  <1>1. ThinnedBy(cache, cache, from)
    BY DEF ThinnedBy
  <1> QED
    BY <1>1 DEF Thinned, ThinnedBy

\* Thinned twice is thinned.
LEMMA ThinnedTwice ==
  ASSUME NEW S, NEW a \in Seq(S), NEW b \in Seq(S), NEW c \in Seq(S),
         Thinned(a, b), Thinned(b, c)
  PROVE  Thinned(a, c)
  <1>1. PICK f : ThinnedBy(a, b, f)
    BY DEF Thinned
  <1>2. PICK g : ThinnedBy(b, c, g)
    BY DEF Thinned
  <1> DEFINE from == [i \in DOMAIN a |-> g[f[i]]]
  <1>3. ThinnedBy(a, c, from)
    BY <1>1, <1>2 DEF ThinnedBy
  <1> QED
    BY <1>3 DEF Thinned, ThinnedBy

\* The end of the dictionary from some entry on.
LEMMA SuffixThinned ==
  ASSUME NEW S, NEW cache \in Seq(S), NEW i \in 1..(Len(cache) + 1)
  PROVE  /\ SubSeq(cache, i, Len(cache)) \in Seq(S)
         /\ Len(SubSeq(cache, i, Len(cache))) = Len(cache) - i + 1
         /\ \A k \in 1..(Len(cache) - i + 1) : SubSeq(cache, i, Len(cache))[k] = cache[i + k - 1]
         /\ Thinned(SubSeq(cache, i, Len(cache)), cache)
  <1> DEFINE end == SubSeq(cache, i, Len(cache))
             from == [k \in DOMAIN end |-> i + k - 1]
  <1>1. /\ end \in Seq(S) /\ Len(end) = Len(cache) - i + 1
        /\ \A k \in 1..(Len(cache) - i + 1) : end[k] = cache[i + k - 1]
    OBVIOUS
  <1>2. DOMAIN end = 1..(Len(cache) - i + 1) /\ DOMAIN cache = 1..Len(cache)
    BY <1>1
  <1> HIDE DEF end
  <1>3. from \in [DOMAIN end -> DOMAIN cache]
    BY <1>2
  <1>4. ThinnedBy(end, cache, from)
    <2>1. \A k \in DOMAIN end : from[k] = i + k - 1 /\ end[k] = cache[i + k - 1] /\ k \in Int
      BY <1>1, <1>2
    <2> HIDE DEF from
    <2> QED
      BY <1>3, <2>1 DEF ThinnedBy
  <1>5. Thinned(end, cache)
    BY <1>3, <1>4 DEF Thinned
  <1> QED
    BY <1>1, <1>5 DEF end

\* Dropping one entry.
LEMMA DroppedThinned ==
  ASSUME NEW S, NEW cache \in Seq(S), NEW at \in 1..Len(cache)
  PROVE  LET kept == SubSeq(cache, 1, at - 1) \o SubSeq(cache, at + 1, Len(cache))
         IN /\ kept \in Seq(S) /\ Thinned(kept, cache)
            /\ Entries(kept) = {cache[i] : i \in DOMAIN cache \ {at}}
  <1> DEFINE left == SubSeq(cache, 1, at - 1)
             right == SubSeq(cache, at + 1, Len(cache))
             kept == left \o right
             from == [k \in DOMAIN kept |-> IF k < at THEN k ELSE k + 1]
  <1>1. /\ left \in Seq(S) /\ Len(left) = at - 1
        /\ \A k \in 1..(at - 1) : left[k] = cache[k]
    OBVIOUS
  <1>2. /\ right \in Seq(S) /\ Len(right) = Len(cache) - at
        /\ \A k \in 1..(Len(cache) - at) : right[k] = cache[at + k]
    OBVIOUS
  <1> HIDE DEF left, right
  <1>3. /\ kept \in Seq(S) /\ Len(kept) = Len(cache) - 1
        /\ \A k \in 1..(Len(cache) - 1) : kept[k] = IF k <= at - 1 THEN left[k] ELSE right[k - (at - 1)]
    <2>1. /\ kept \in Seq(S) /\ Len(kept) = Len(left) + Len(right)
          /\ \A k \in 1..(Len(left) + Len(right)) :
               kept[k] = IF k <= Len(left) THEN left[k] ELSE right[k - Len(left)]
      BY <1>1, <1>2, ConcatProperties
    <2>2. Len(left) + Len(right) = Len(cache) - 1 /\ Len(left) = at - 1
      BY <1>1, <1>2
    <2> HIDE DEF kept
    <2> QED
      BY <2>1, <2>2
  <1> HIDE DEF kept
  <1>4. DOMAIN kept = 1..(Len(cache) - 1) /\ DOMAIN cache = 1..Len(cache)
    BY <1>3
  <1>5. \A k \in DOMAIN kept : kept[k] = IF k < at THEN cache[k] ELSE cache[k + 1]
    <2> TAKE k \in DOMAIN kept
    <2>1. CASE k < at
      BY <1>1, <1>3, <1>4, <2>1
    <2>2. CASE ~(k < at)
      <3>1. /\ k - (at - 1) \in 1..(Len(cache) - at) /\ at + (k - (at - 1)) = k + 1
            /\ ~(k <= at - 1)
        BY <1>4, <2>2
      <3>2. right[k - (at - 1)] = cache[k + 1]
        BY <1>2, <3>1
      <3>3. kept[k] = right[k - (at - 1)]
        BY <1>3, <1>4, <3>1
      <3> QED
        BY <2>2, <3>2, <3>3
    <2> QED
      BY <2>1, <2>2
  <1>6. from \in [DOMAIN kept -> DOMAIN cache]
    BY <1>4
  <1>7. ThinnedBy(kept, cache, from)
    BY <1>4, <1>5, <1>6 DEF ThinnedBy
  <1>8. Entries(kept) = {cache[i] : i \in DOMAIN cache \ {at}}
    <2>1. ASSUME NEW i \in DOMAIN cache \ {at} PROVE \E k \in DOMAIN kept : kept[k] = cache[i]
      <3>1. CASE i < at
        BY <1>4, <1>5, <2>1, <3>1
      <3>2. CASE i > at
        <4>1. i - 1 \in DOMAIN kept /\ ~(i - 1 < at) /\ (i - 1) + 1 = i
          BY <1>4, <2>1, <3>2
        <4> QED
          BY <1>5, <4>1
      <3> QED
        BY <1>4, <2>1, <3>1, <3>2
    <2>2. ASSUME NEW k \in DOMAIN kept PROVE \E i \in DOMAIN cache \ {at} : kept[k] = cache[i]
      <3>1. CASE k < at
        BY <1>4, <1>5, <2>2, <3>1
      <3>2. CASE ~(k < at)
        BY <1>4, <1>5, <2>2, <3>2
      <3> QED
        BY <3>1, <3>2
    <2> QED
      BY <2>1, <2>2 DEF Entries
  <1>9. Thinned(kept, cache)
    BY <1>6, <1>7 DEF Thinned
  <1> QED
    BY <1>3, <1>8, <1>9 DEF kept, left, right

\* What order there is survives.
LEMMA ThinnedOrder ==
  ASSUME NEW S, NEW new \in Seq(S), NEW old \in Seq(S), Thinned(new, old)
  PROVE  /\ Entries(new) \subseteq Entries(old)
         /\ Ordered(old) => Ordered(new)
         /\ Forward(old) => Forward(new)
  <1>1. PICK f : ThinnedBy(new, old, f)
    BY DEF Thinned
  <1>2. Entries(new) \subseteq Entries(old)
    BY <1>1 DEF ThinnedBy, Entries
  <1>3. Ordered(old) => Ordered(new)
    BY <1>1 DEF ThinnedBy, Ordered
  <1>4. Forward(old) => Forward(new)
    <2> SUFFICES ASSUME Forward(old), NEW i \in DOMAIN new, NEW j \in DOMAIN new,
                        new[j].key = new[i].next
                 PROVE  i < j
      BY DEF Forward
    <2>1. f[i] < f[j]
      BY <1>1 DEF ThinnedBy, Forward
    <2>2. i \in Nat /\ j \in Nat /\ f[i] \in Nat /\ f[j] \in Nat
      BY <1>1 DEF ThinnedBy
    <2>3. CASE j < i
      BY <1>1, <2>1, <2>2, <2>3 DEF ThinnedBy
    <2>4. CASE i = j
      BY <2>1, <2>2, <2>4
    <2> QED
      BY <2>2, <2>3, <2>4
  <1> QED
    BY <1>2, <1>3, <1>4

(***************************************************************************)
(* _purge_expired keeps exactly the entries that have not expired: the     *)
(* loop may stop at the first of them because the entries are in order.    *)
(***************************************************************************)
LEMMA PurgedOrder ==
  ASSUME NEW T, NEW C, NEW cache \in Seq(Replay(T, C)), NEW now \in Nat
  PROVE  /\ Purged(cache, now) \in Seq(Replay(T, C)) /\ Thinned(Purged(cache, now), cache)
         /\ Ordered(cache) =>
              \A x : x \in Entries(Purged(cache, now)) <=> x \in Entries(cache) /\ ~Expired(x, now)
  <1> DEFINE S == Replay(T, C)
  <1>a. \A i \in DOMAIN cache : cache[i].at \in Nat /\ i \in 1..Len(cache)
    BY EntryAt
  <1>1. CASE \E i \in DOMAIN cache : FirstFresh(cache, now, i)
    <2> DEFINE first == CHOOSE i \in DOMAIN cache : FirstFresh(cache, now, i)
               end == SubSeq(cache, first, Len(cache))
    <2>1. first \in DOMAIN cache /\ FirstFresh(cache, now, first)
      BY <1>1
    <2>2. Purged(cache, now) = end
      BY <1>1 DEF Purged
    <2> HIDE DEF first, end
    <2>3. first \in 1..Len(cache) /\ first \in 1..(Len(cache) + 1) /\ Len(cache) \in Nat
      BY <2>1
    <2>4. /\ end \in Seq(S) /\ Len(end) = Len(cache) - first + 1
          /\ \A k \in 1..(Len(cache) - first + 1) : end[k] = cache[first + k - 1]
          /\ Thinned(end, cache)
      BY <2>3, SuffixThinned DEF end
    <2>5. ASSUME Ordered(cache)
          PROVE  \A x : x \in Entries(end) <=> x \in Entries(cache) /\ ~Expired(x, now)
      <3>1. ASSUME NEW k \in DOMAIN end
            PROVE  end[k] \in Entries(cache) /\ ~Expired(end[k], now)
        <4>1. k \in 1..(Len(cache) - first + 1) /\ end[k] = cache[first + k - 1]
          BY <2>4, <3>1
        <4>2. /\ first + k - 1 \in DOMAIN cache /\ first \in Nat /\ k \in Nat
              /\ first + k - 1 = first \/ first < first + k - 1
          BY <2>3, <4>1
        <4>3. cache[first].at <= cache[first + k - 1].at
          <5>1. CASE first + k - 1 = first
            BY <1>a, <2>1, <5>1
          <5>2. CASE first < first + k - 1
            BY <2>1, <2>5, <4>2, <5>2 DEF Ordered
          <5> QED
            BY <4>2, <5>1, <5>2
        <4>4. ~Expired(cache[first + k - 1], now)
          <5>1. ~(now - cache[first].at > Window)
            BY <2>1 DEF FirstFresh, Expired
          <5>2. cache[first].at \in Nat /\ cache[first + k - 1].at \in Nat
            BY <1>a, <2>1, <4>2
          <5> QED
            BY <4>3, <5>1, <5>2, ReplayCacheAssumption DEF Expired
        <4> QED
          BY <4>1, <4>2, <4>4 DEF Entries
      <3>2. ASSUME NEW i \in DOMAIN cache, ~Expired(cache[i], now)
            PROVE  \E k \in DOMAIN end : end[k] = cache[i]
        <4>1. ~(i < first)
          BY <1>a, <2>1, <2>3, <3>2 DEF FirstFresh
        <4>2. i - first + 1 \in 1..(Len(cache) - first + 1) /\ first + (i - first + 1) - 1 = i
          BY <1>a, <2>3, <4>1
        <4> QED
          BY <2>4, <4>2
      <3> QED
        BY <3>1, <3>2 DEF Entries
    <2> QED
      BY <2>2, <2>4, <2>5
  <1>2. CASE ~\E i \in DOMAIN cache : FirstFresh(cache, now, i)
    <2>1. PICK empty : empty = <<>>
      OBVIOUS
    <2>2. empty \in Seq(S) /\ Len(empty) = 0 /\ DOMAIN empty = {}
      BY <2>1
    <2>3. Purged(cache, now) = empty
      BY <1>2, <2>1 DEF Purged
    <2>4. Thinned(empty, cache)
      <3> DEFINE from == [i \in {} |-> 1]
      <3>1. from \in [{} -> DOMAIN cache]
        OBVIOUS
      <3> QED
        BY <2>2, <3>1 DEF Thinned, ThinnedBy
    <2>5. \A i \in DOMAIN cache : Expired(cache[i], now)
      <3> DEFINE N == {i \in DOMAIN cache : ~Expired(cache[i], now)}
      <3>1. N \subseteq Nat
        BY <1>a
      <3>2. ASSUME N # {} PROVE FALSE
        <4>1. PICK i \in N : \A j \in N : i <= j
          BY <3>1, <3>2, Least
        <4>2. \A j \in 1..(i - 1) : j \in DOMAIN cache /\ ~(i <= j)
          BY <1>a, <4>1
        <4>3. FirstFresh(cache, now, i)
          BY <4>1, <4>2 DEF FirstFresh
        <4> QED
          BY <1>2, <4>1, <4>3
      <3> QED
        BY <3>2
    <2> QED
      BY <2>2, <2>3, <2>4, <2>5 DEF Entries
  <1> QED
    BY <1>1, <1>2

(***************************************************************************)
(* record drops at most the one earlier entry of its key.                  *)
(***************************************************************************)
LEMMA WithoutOrder ==
  ASSUME NEW T, NEW C, NEW cache \in Seq(Replay(T, C)), NEW key
  PROVE  /\ Without(cache, key) \in Seq(Replay(T, C)) /\ Thinned(Without(cache, key), cache)
         /\ Ordered(cache) =>
              \A x : x \in Entries(Without(cache, key)) <=> x \in Entries(cache) /\ x.key # key
  <1>a. \A i \in DOMAIN cache : i \in 1..Len(cache)
    BY EntryAt
  <1>1. CASE \E i \in DOMAIN cache : cache[i].key = key
    <2> DEFINE at == CHOOSE i \in DOMAIN cache : cache[i].key = key
               kept == SubSeq(cache, 1, at - 1) \o SubSeq(cache, at + 1, Len(cache))
    <2>1. at \in 1..Len(cache) /\ at \in DOMAIN cache /\ cache[at].key = key
      BY <1>1
    <2>2. Without(cache, key) = kept
      BY <1>1 DEF Without
    <2> HIDE DEF at
    <2>3. /\ kept \in Seq(Replay(T, C)) /\ Thinned(kept, cache)
          /\ Entries(kept) = {cache[i] : i \in DOMAIN cache \ {at}}
      BY <2>1, DroppedThinned
    <2> HIDE DEF kept
    <2>4. ASSUME Ordered(cache), NEW i \in DOMAIN cache PROVE cache[i].key = key <=> i = at
      <3>1. CASE i < at
        BY <2>1, <2>4, <3>1 DEF Ordered
      <3>2. CASE at < i
        BY <2>1, <2>4, <3>2 DEF Ordered
      <3> QED
        BY <1>a, <2>1, <2>4, <3>1, <3>2
    <2>5. Ordered(cache) => \A x : x \in Entries(kept) <=> x \in Entries(cache) /\ x.key # key
      BY <2>3, <2>4 DEF Entries
    <2> QED
      BY <2>2, <2>3, <2>5
  <1>2. CASE ~\E i \in DOMAIN cache : cache[i].key = key
    <2>1. Without(cache, key) = cache
      BY <1>2 DEF Without
    <2>2. Thinned(cache, cache)
      BY ThinnedItself
    <2> QED
      BY <1>2, <2>1, <2>2 DEF Entries
  <1> QED
    BY <1>1, <1>2

(***************************************************************************)
(* _evict_overflow keeps the youngest entries: with an entry, all recorded *)
(* after it.                                                               *)
(***************************************************************************)
LEMMA EvictedOrder ==
  ASSUME NEW T, NEW C, NEW cache \in Seq(Replay(T, C))
  PROVE  /\ Evicted(cache) \in Seq(Replay(T, C)) /\ Thinned(Evicted(cache), cache)
         /\ Len(cache) # 0 => cache[Len(cache)] \in Entries(Evicted(cache))
         /\ Ordered(cache) =>
              \A i, j \in DOMAIN cache :
                i <= j /\ cache[i] \in Entries(Evicted(cache)) => cache[j] \in Entries(Evicted(cache))
  <1>a. \A i \in DOMAIN cache : i \in 1..Len(cache) /\ cache[i] \in Entries(cache)
    BY EntryAt
  <1>1. CASE Len(cache) > Capacity
    <2> DEFINE first == Len(cache) - Capacity + 1
               end == SubSeq(cache, first, Len(cache))
    <2>1. first \in 1..Len(cache) /\ first \in 1..(Len(cache) + 1) /\ Len(cache) \in Nat
      BY <1>1, ReplayCacheAssumption
    <2>2. Evicted(cache) = end
      BY <1>1 DEF Evicted
    <2> HIDE DEF first, end
    <2>3. /\ end \in Seq(Replay(T, C)) /\ Len(end) = Len(cache) - first + 1
          /\ \A k \in 1..(Len(cache) - first + 1) : end[k] = cache[first + k - 1]
          /\ Thinned(end, cache)
      BY <2>1, SuffixThinned DEF end
    <2>4. ASSUME NEW j \in DOMAIN cache, first <= j PROVE cache[j] \in Entries(end)
      <3>1. j - first + 1 \in 1..(Len(cache) - first + 1) /\ first + (j - first + 1) - 1 = j
        BY <1>a, <2>1, <2>4
      <3>2. j - first + 1 \in DOMAIN end /\ end[j - first + 1] = cache[j]
        BY <2>3, <3>1
      <3> QED
        BY <3>2 DEF Entries
    <2>5. ASSUME Ordered(cache), NEW i \in DOMAIN cache, cache[i] \in Entries(end) PROVE first <= i
      <3>1. PICK k \in DOMAIN end : end[k] = cache[i]
        BY <2>5 DEF Entries
      <3>2. /\ first + k - 1 \in DOMAIN cache /\ cache[first + k - 1] = cache[i]
            /\ first <= first + k - 1
        BY <2>1, <2>3, <3>1
      <3>3. ~(i < first + k - 1)
        BY <2>5, <3>2 DEF Ordered
      <3> QED
        BY <1>a, <2>1, <2>5, <3>2, <3>3
    <2>6. Len(cache) # 0 => cache[Len(cache)] \in Entries(end)
      BY <2>1, <2>4
    <2>7. Ordered(cache) =>
            \A i, j \in DOMAIN cache :
              i <= j /\ cache[i] \in Entries(end) => cache[j] \in Entries(end)
      BY <1>a, <2>1, <2>4, <2>5
    <2> QED
      BY <2>2, <2>3, <2>6, <2>7
  <1>2. CASE ~(Len(cache) > Capacity)
    <2>1. Evicted(cache) = cache
      BY <1>2 DEF Evicted
    <2>2. Thinned(cache, cache)
      BY ThinnedItself
    <2>3. Len(cache) # 0 => Len(cache) \in DOMAIN cache
      OBVIOUS
    <2> QED
      BY <1>a, <2>1, <2>2, <2>3
  <1> QED
    BY <1>1, <1>2

\* The dictionary as record leaves it before it evicts.
Replacing(cache, e, now) == Append(Without(Purged(cache, now), e.key), e)

(***************************************************************************)
(* record, of a pair nobody has rotated yet, before it evicts: what has    *)
(* expired and the earlier entry of the key are gone, the new one is last. *)
(***************************************************************************)
LEMMA ReplacingOrder ==
  ASSUME NEW T, NEW C, NEW cache \in Seq(Replay(T, C)), NEW e \in Replay(T, C), NEW now \in Nat,
         Ordered(cache), Forward(cache), e.key # e.next,
         \A x \in Entries(cache) : x.at <= e.at /\ x.key # e.next
  PROVE  LET new == Replacing(cache, e, now)
         IN /\ new \in Seq(Replay(T, C)) /\ Ordered(new) /\ Forward(new)
            /\ Len(new) # 0 /\ new[Len(new)] = e
            /\ \A x : x \in Entries(new) <=>
                        x = e \/ (x \in Entries(cache) /\ ~Expired(x, now) /\ x.key # e.key)
  <1>0. /\ Purged(cache, now) \in Seq(Replay(T, C)) /\ Thinned(Purged(cache, now), cache)
        /\ \A x : x \in Entries(Purged(cache, now)) <=> x \in Entries(cache) /\ ~Expired(x, now)
    BY PurgedOrder
  <1> DEFINE purged == Purged(cache, now)
             kept == Without(purged, e.key)
             longer == Append(kept, e)
             S == Replay(T, C)
  <1>1. /\ purged \in Seq(S) /\ Ordered(purged) /\ Forward(purged)
        /\ \A x : x \in Entries(purged) <=> x \in Entries(cache) /\ ~Expired(x, now)
    <2>1. Ordered(Purged(cache, now)) /\ Forward(Purged(cache, now))
      BY <1>0, ThinnedOrder
    <2> QED
      BY <1>0, <2>1
  <1> HIDE DEF purged
  <1>2. /\ kept \in Seq(S) /\ Ordered(kept) /\ Forward(kept)
        /\ \A x : x \in Entries(kept) <=> x \in Entries(purged) /\ x.key # e.key
    BY <1>1, WithoutOrder, ThinnedOrder
  <1> HIDE DEF kept
  <1>3. /\ longer \in Seq(S) /\ Len(longer) = Len(kept) + 1 /\ longer[Len(kept) + 1] = e
        /\ \A i \in 1..Len(kept) : longer[i] = kept[i]
    BY <1>2, AppendProperties
  <1> HIDE DEF longer
  <1>4. /\ DOMAIN longer = 1..(Len(kept) + 1) /\ DOMAIN kept = 1..Len(kept) /\ Len(kept) \in Nat
        /\ \A i \in 1..Len(kept) : kept[i] \in Entries(kept)
    BY <1>2, <1>3 DEF Entries
  <1>5. Entries(longer) = Entries(kept) \cup {e}
    <2>1. \A i \in 1..(Len(kept) + 1) : i \in 1..Len(kept) \/ i = Len(kept) + 1
      BY <1>4
    <2>2. Entries(longer) \subseteq Entries(kept) \cup {e}
      BY <1>3, <1>4, <2>1 DEF Entries
    <2>3. \A i \in 1..Len(kept) : i \in DOMAIN longer /\ longer[i] = kept[i]
      BY <1>3, <1>4
    <2>4. Len(kept) + 1 \in DOMAIN longer
      BY <1>4
    <2>5. Entries(kept) \cup {e} \subseteq Entries(longer)
      BY <1>3, <1>4, <2>3, <2>4 DEF Entries
    <2> QED
      BY <2>2, <2>5
  <1>6. \A i \in 1..Len(kept) : kept[i].key # e.key /\ kept[i].at <= e.at /\ kept[i].key # e.next
    BY <1>1, <1>2, <1>4
  <1>7. Ordered(longer)
    <2> SUFFICES ASSUME NEW i \in DOMAIN longer, NEW j \in DOMAIN longer, i < j
                 PROVE  longer[i].key # longer[j].key /\ longer[i].at <= longer[j].at
      BY DEF Ordered
    <2>1. CASE j = Len(kept) + 1
      BY <1>3, <1>4, <1>6, <2>1
    <2>2. CASE j # Len(kept) + 1
      BY <1>2, <1>3, <1>4, <2>2 DEF Ordered
    <2> QED
      BY <2>1, <2>2
  <1>8. Forward(longer)
    <2> SUFFICES ASSUME NEW i \in DOMAIN longer, NEW j \in DOMAIN longer,
                        longer[j].key = longer[i].next
                 PROVE  i < j
      BY DEF Forward
    <2>1. CASE i = Len(kept) + 1
      BY <1>3, <1>4, <1>6, <2>1
    <2>2. CASE i # Len(kept) + 1 /\ j = Len(kept) + 1
      BY <1>4, <2>2
    <2>3. CASE i # Len(kept) + 1 /\ j # Len(kept) + 1
      BY <1>2, <1>3, <1>4, <2>3 DEF Forward
    <2> QED
      BY <2>1, <2>2, <2>3
  <1>9. \A x : x \in Entries(longer) <=>
              x = e \/ (x \in Entries(cache) /\ ~Expired(x, now) /\ x.key # e.key)
    BY <1>1, <1>2, <1>5
  <1>10. Len(longer) # 0 /\ longer[Len(longer)] = e
    BY <1>3, <1>4
  <1>11. Replacing(cache, e, now) = longer
    BY DEF Replacing, longer, kept, purged
  <1> QED
    BY <1>3, <1>7, <1>8, <1>9, <1>10, <1>11

(***************************************************************************)
(* record, of a pair nobody has rotated yet: the dictionary stays in       *)
(* order, holds the new entry, and forgets of what has not expired only    *)
(* the oldest entries and the earlier one of the same key.                 *)
(***************************************************************************)
LEMMA RecordedOrder ==
  ASSUME NEW T, NEW C, NEW cache \in Seq(Replay(T, C)), NEW e \in Replay(T, C), NEW now \in Nat,
         Ordered(cache), Forward(cache), e.key # e.next,
         \A x \in Entries(cache) : x.at <= e.at /\ x.key # e.next
  PROVE  LET new == Recorded(cache, e, now)
         IN /\ new \in Seq(Replay(T, C)) /\ Ordered(new) /\ Forward(new) /\ e \in Entries(new)
            /\ \A x \in Entries(new) \ {e} : x \in Entries(cache) /\ ~Expired(x, now) /\ x.key # e.key
            /\ \A x \in Entries(new) \ {e}, y \in Entries(cache) :
                 y.key = x.next /\ ~Expired(y, now) => y.key = e.key \/ y \in Entries(new)
  <1> DEFINE longer == Replacing(cache, e, now)
             new == Evicted(longer)
             S == Replay(T, C)
  <1>1. /\ longer \in Seq(S) /\ Ordered(longer) /\ Forward(longer)
        /\ Len(longer) # 0 /\ longer[Len(longer)] = e
        /\ \A x : x \in Entries(longer) <=>
                    x = e \/ (x \in Entries(cache) /\ ~Expired(x, now) /\ x.key # e.key)
    BY ReplacingOrder
  <1> HIDE DEF longer
  <1>2. DOMAIN longer \subseteq Nat
    BY <1>1
  <1>3. /\ new \in Seq(S) /\ Ordered(new) /\ Forward(new) /\ e \in Entries(new)
        /\ Entries(new) \subseteq Entries(longer)
        /\ \A i, j \in DOMAIN longer :
             i <= j /\ longer[i] \in Entries(new) => longer[j] \in Entries(new)
    BY <1>1, EvictedOrder, ThinnedOrder
  <1> HIDE DEF new
  <1>4. ASSUME NEW x \in Entries(new) \ {e}, NEW y \in Entries(cache),
               y.key = x.next, ~Expired(y, now), y.key # e.key
        PROVE  y \in Entries(new)
    <2>1. x \in Entries(longer) /\ y \in Entries(longer)
      BY <1>1, <1>3, <1>4
    <2>2. PICK i \in DOMAIN longer, j \in DOMAIN longer : longer[i] = x /\ longer[j] = y
      BY <2>1 DEF Entries
    <2>3. i < j
      BY <1>1, <1>4, <2>2 DEF Forward
    <2> QED
      BY <1>2, <1>3, <1>4, <2>2, <2>3
  <1>5. \A x \in Entries(new) \ {e} : x \in Entries(cache) /\ ~Expired(x, now) /\ x.key # e.key
    BY <1>1, <1>3
  <1>6. Recorded(cache, e, now) = new
    BY DEF Recorded, Replacing, new, longer
  <1> QED
    BY <1>3, <1>4, <1>5, <1>6
=============================================================================
