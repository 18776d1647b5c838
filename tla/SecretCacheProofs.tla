-------------------------- MODULE SecretCacheProofs --------------------------
(***************************************************************************)
(* Proofs about the secret cache, for any number of threads, rotations and *)
(* any delays: how old a password can be, and that it never goes back.     *)
(***************************************************************************)
EXTENDS SecretCache, TLAPS

\* Version v was current when Secrets Manager answered it at time r.
Fetched(v, r) ==
  /\ v \in 1..version
  /\ since[v] <= r /\ r <= now
  /\ v < version => r <= since[v + 1]

(***************************************************************************)
(* What a password's age rests on: rotations are ordered in time, what a   *)
(* thread holds was current less than FetchTime ago, and what is cached    *)
(* was replaced at most FetchTime before it was installed.                 *)
(***************************************************************************)
Ages ==
  /\ \A v \in Version : since[v] <= now
  /\ \A v, w \in 1..version : v <= w => since[v] <= since[w]
  /\ \A t \in Thread :
       At(t, "store") => /\ Fetched(thread[t].value, thread[t].read)
                         /\ now - thread[t].read <= FetchTime
  /\ cached.at <= now
  /\ cached.value # 0 =>
       /\ cached.value \in 1..version
       /\ since[cached.value] <= cached.at
       /\ cached.value < version => cached.at - since[cached.value + 1] <= FetchTime

-----------------------------------------------------------------------------
\* The constants are numbers.
LEMMA Numbers ==
  /\ TTL \in Nat /\ FetchTime \in Nat /\ MaxTime \in Nat /\ MaxVersion \in Nat
  /\ 1 \in Version /\ 0 \in Time
  BY SecretAssumption DEF Version, Time

\* The initial state has its types.
LEMMA TypeInit == Init => TypeOK
  BY Numbers DEF Init, TypeOK, Idle, Threads

\* Every step keeps the types: in particular only a real version is stored.
LEMMA TypeNext == TypeOK /\ [Next]_vars => TypeOK'
  <1> SUFFICES ASSUME TypeOK, [Next]_vars PROVE TypeOK'
    OBVIOUS
  <1>0. /\ now \in Time /\ version \in Version /\ version \in 0..MaxVersion
        /\ cached.value \in 0..MaxVersion /\ cached.at \in Time
        /\ cached.value # 0 => cached.value \in Version
        /\ \A t \in Thread : thread[t] \in Threads
    BY Numbers DEF TypeOK, Version
  <1>1. ASSUME NEW t \in Thread, NEW r \in Threads, Becomes(t, r),
               r.pc \in {"store", "done"} => r.value \in Version
        PROVE  /\ thread' \in [Thread -> Threads]
               /\ \A u \in Thread : thread'[u].pc \in {"store", "done"} => thread'[u].value \in Version
    BY <1>1 DEF Becomes, TypeOK
  <1>2. Idle \in Threads /\ Idle.pc = "idle"
    BY Numbers DEF Idle, Threads
  <1>3. ASSUME NEW t \in Thread, NEW v \in Version, NEW r \in Time, Returns(t, v, r)
        PROVE  /\ thread' \in [Thread -> Threads]
               /\ \A u \in Thread : thread'[u].pc \in {"store", "done"} => thread'[u].value \in Version
    <2>1. v \in 0..MaxVersion /\ thread[t] \in Threads
      BY <1>0, Numbers DEF Version
    <2>2. PICK new : new = [thread[t] EXCEPT !.pc = "done", !.value = v, !.read = r]
      OBVIOUS
    <2>3. new \in Threads /\ new.value \in Version
      BY <2>1, <2>2 DEF Threads
    <2>4. Becomes(t, new)
      BY <1>3, <2>2 DEF Returns
    <2> QED
      BY <1>1, <2>3, <2>4
  <1>4. ASSUME NEW t \in Thread, NEW force \in Forces, Lookup(t, force) PROVE TypeOK'
    <2>1. CASE Fresh /\ Returns(t, cached.value, cached.at)
      BY <1>0, <1>3, <1>4, <2>1 DEF Lookup, Fresh, TypeOK
    <2>2. CASE Becomes(t, [Idle EXCEPT !.pc = "fetch", !.force = force])
      <3> DEFINE new == [Idle EXCEPT !.pc = "fetch", !.force = force]
      <3>1. force \in Forces \cup {FALSE}
        OBVIOUS
      <3>2. new \in Threads /\ new.pc = "fetch"
        BY <1>2, <3>1 DEF Threads
      <3>3. Becomes(t, new)
        BY <2>2
      <3> HIDE DEF new
      <3> QED
        BY <1>1, <1>4, <3>2, <3>3 DEF Lookup, TypeOK
    <2> QED
      BY <1>4, <2>1, <2>2 DEF Lookup
  <1>5. ASSUME NEW t \in Thread, Fetch(t) PROVE TypeOK'
    <2>1. PICK new : new = [thread[t] EXCEPT !.pc = "store", !.value = version, !.read = now]
      OBVIOUS
    <2>2. new \in Threads /\ new.value \in Version
      BY <1>0, <2>1 DEF Threads
    <2>3. Becomes(t, new) \/ Becomes(t, Idle)
      BY <1>5, <2>1 DEF Fetch
    <2>4. /\ thread' \in [Thread -> Threads]
          /\ \A u \in Thread : thread'[u].pc \in {"store", "done"} => thread'[u].value \in Version
      BY <1>1, <1>2, <2>2, <2>3
    <2> QED
      BY <1>5, <2>4 DEF Fetch, TypeOK
  <1>6. ASSUME NEW t \in Thread, Store(t) PROVE TypeOK'
    <2>1. thread[t].value \in Version /\ thread[t].read \in Time
      BY <1>0, <1>6 DEF Store, At, Threads, TypeOK
    <2>2. cached' \in [value : 0..MaxVersion, at : Time]
      BY <1>0, <1>6, <2>1 DEF Store, Version, TypeOK
    <2>3. /\ thread' \in [Thread -> Threads]
          /\ \A u \in Thread : thread'[u].pc \in {"store", "done"} => thread'[u].value \in Version
      BY <1>0, <1>3, <1>6, <2>1 DEF Store, Fresh
    <2> QED
      BY <1>6, <2>2, <2>3 DEF Store, TypeOK
  <1>7. ASSUME NEW t \in Thread, Done(t) PROVE TypeOK'
    BY <1>1, <1>2, <1>7 DEF Done, TypeOK
  <1>8. CASE Rotate
    BY <1>8, Numbers DEF Rotate, Version, Time, TypeOK
  <1>9. CASE Tick
    BY <1>9, Numbers DEF Tick, Time, TypeOK
  <1>10. CASE UNCHANGED vars
    BY <1>10 DEF vars, TypeOK
  <1> QED
    BY <1>4, <1>5, <1>6, <1>7, <1>8, <1>9, <1>10 DEF Next

(***************************************************************************)
(* get_secret always returns something Secrets Manager answered: no thread *)
(* gets past its fetch without a real version.                             *)
(***************************************************************************)
THEOREM TypeCorrect == Spec => []TypeOK
  BY TypeInit, TypeNext, PTL DEF Spec

-----------------------------------------------------------------------------
\* What the types say of the numbers.
LEMMA TypeNumbers ==
  ASSUME TypeOK
  PROVE  /\ now \in Int /\ version \in Int /\ version >= 1 /\ version <= MaxVersion
         /\ cached.value \in Int /\ cached.value >= 0 /\ cached.at \in Int
         /\ \A v \in 1..MaxVersion : since[v] \in Int
         /\ TTL \in Int /\ FetchTime \in Int /\ FetchTime >= 0 /\ MaxVersion \in Int
         /\ thread \in [Thread -> Threads]
         /\ \A t \in Thread : thread[t].read \in Int /\ thread[t].value \in Int
  <1>1. \A t \in Thread : thread[t].read \in Int /\ thread[t].value \in Int
    <2> SUFFICES ASSUME NEW t \in Thread PROVE thread[t].read \in Int /\ thread[t].value \in Int
      OBVIOUS
    <2>1. thread[t] \in Threads
      BY DEF TypeOK
    <2>2. thread[t].read \in Time /\ thread[t].value \in 0..MaxVersion
      BY <2>1 DEF Threads
    <2> QED
      BY <2>2, Numbers DEF Time
  <1>2. \A v \in 1..MaxVersion : since[v] \in Int
    BY Numbers DEF TypeOK, Version, Time
  <1>3. cached.value \in 0..MaxVersion /\ cached.at \in Time
    BY DEF TypeOK
  <1> QED
    BY <1>1, <1>2, <1>3, Numbers DEF TypeOK, Version, Time

\* No thread holds anything yet.
LEMMA AgesInit == Init => Ages
  BY Numbers DEF Init, Ages, Idle, At, Version

\* Nothing but the clock, a rotation or an installation can disturb the ages.
LEMMA AgesNext == TypeOK /\ Ages /\ [Next]_vars => Ages'
  <1> SUFFICES ASSUME TypeOK, Ages, [Next]_vars PROVE Ages'
    OBVIOUS
  <1>0. /\ now \in Int /\ version \in Int /\ version >= 1 /\ version <= MaxVersion
        /\ cached.value \in Int /\ cached.at \in Int
        /\ \A v \in Version : since[v] \in Int
        /\ Version = 1..MaxVersion
        /\ TTL \in Int /\ FetchTime \in Int /\ FetchTime >= 0 /\ MaxVersion \in Int
        /\ thread \in [Thread -> Threads]
        /\ \A t \in Thread : thread[t].read \in Int /\ thread[t].value \in Int
    BY TypeNumbers DEF Version
  <1>1. ASSUME UNCHANGED <<now, version, since, cached>>,
               \A u \in Thread : At(u, "store")' =>
                 (Fetched(thread[u].value, thread[u].read) /\ now - thread[u].read <= FetchTime)'
        PROVE  Ages'
    BY <1>1 DEF Ages
  <1>2. ASSUME NEW t \in Thread, NEW r, Becomes(t, r), r.pc # "store",
               UNCHANGED <<now, version, since>>
        PROVE  \A u \in Thread : At(u, "store")' =>
                 (Fetched(thread[u].value, thread[u].read) /\ now - thread[u].read <= FetchTime)'
    <2>1. \A u \in Thread : At(u, "store")' => u # t /\ thread'[u] = thread[u]
      BY <1>0, <1>2 DEF Becomes, At
    <2> QED
      BY <1>2, <2>1 DEF Ages, At, Fetched
  <1>3. ASSUME NEW t \in Thread, NEW v \in 0..MaxVersion, NEW r \in Time, Returns(t, v, r),
               UNCHANGED <<now, version, since>>
        PROVE  \A u \in Thread : At(u, "store")' =>
                 (Fetched(thread[u].value, thread[u].read) /\ now - thread[u].read <= FetchTime)'
    <2>1. PICK new : new = [thread[t] EXCEPT !.pc = "done", !.value = v, !.read = r]
      OBVIOUS
    <2>2. thread[t] \in Threads
      BY <1>0
    <2>3. new.pc # "store"
      BY <2>1, <2>2 DEF Threads
    <2>4. Becomes(t, new)
      BY <1>3, <2>1 DEF Returns
    <2> QED
      BY <1>2, <1>3, <2>3, <2>4
  <1>4. ASSUME NEW t \in Thread, NEW force \in Forces, Lookup(t, force) PROVE Ages'
    <2>1. cached.value \in 0..MaxVersion /\ cached.at \in Time
      BY DEF TypeOK
    <2>2. CASE Returns(t, cached.value, cached.at)
      BY <1>1, <1>3, <1>4, <2>1, <2>2 DEF Lookup
    <2>3. CASE Becomes(t, [Idle EXCEPT !.pc = "fetch", !.force = force])
      <3>1. ([Idle EXCEPT !.pc = "fetch", !.force = force]).pc # "store"
        BY DEF Idle
      <3> QED
        BY <1>1, <1>2, <1>4, <2>3, <3>1 DEF Lookup
    <2> QED
      BY <1>4, <2>2, <2>3 DEF Lookup
  <1>5. ASSUME NEW t \in Thread, Fetch(t) PROVE Ages'
    <2>1. CASE Becomes(t, [thread[t] EXCEPT !.pc = "store", !.value = version, !.read = now])
      <3>0. PICK new : new = [thread[t] EXCEPT !.pc = "store", !.value = version, !.read = now]
        OBVIOUS
      <3>1. new.value = version /\ new.read = now
        <4>1. version \in 0..MaxVersion /\ now \in Time /\ thread[t] \in Threads
          BY <1>0 DEF TypeOK
        <4> QED
          BY <3>0, <4>1 DEF Threads
      <3>2. thread'[t] = new /\ \A u \in Thread : u # t => thread'[u] = thread[u]
        BY <1>0, <2>1, <3>0 DEF Becomes
      <3>3. Fetched(version, now) /\ now - now <= FetchTime
        BY <1>0 DEF Fetched, Ages
      <3>4. (Fetched(thread[t].value, thread[t].read) /\ now - thread[t].read <= FetchTime)'
        BY <1>5, <3>1, <3>2, <3>3 DEF Fetch, Fetched
      <3>5. ASSUME NEW u \in Thread, u # t, At(u, "store")'
            PROVE (Fetched(thread[u].value, thread[u].read) /\ now - thread[u].read <= FetchTime)'
        BY <1>5, <3>2, <3>5 DEF Fetch, Fetched, Ages, At
      <3> QED
        BY <1>1, <1>5, <3>4, <3>5 DEF Fetch
    <2>2. CASE Becomes(t, Idle)
      <3>1. Idle.pc # "store"
        BY DEF Idle
      <3> QED
        BY <1>1, <1>2, <1>5, <2>2, <3>1 DEF Fetch
    <2> QED
      BY <1>5, <2>1, <2>2 DEF Fetch
  <1>6. ASSUME NEW t \in Thread, Store(t) PROVE Ages'
    <2>1. /\ Fetched(thread[t].value, thread[t].read)
          /\ now - thread[t].read <= FetchTime
          /\ UNCHANGED <<now, version, since>>
          /\ thread[t].value \in 0..MaxVersion /\ thread[t].read \in Time
          /\ cached.value \in 0..MaxVersion /\ cached.at \in Time
      BY <1>0, <1>6 DEF Store, Ages, TypeOK, Threads
    <2>2. \A u \in Thread : At(u, "store")' =>
            (Fetched(thread[u].value, thread[u].read) /\ now - thread[u].read <= FetchTime)'
      BY <1>3, <1>6, <2>1 DEF Store
    <2>3. CASE UNCHANGED cached
      BY <1>1, <2>1, <2>2, <2>3
    <2>4. CASE cached' = [value |-> thread[t].value, at |-> now]
      <3>1. cached'.value = thread[t].value /\ cached'.at = now
        BY <2>4
      <3>2. /\ cached'.at <= now'
            /\ cached'.value \in 1..version'
            /\ since'[cached'.value] <= cached'.at
            /\ cached'.value < version' => cached'.at - since'[cached'.value + 1] <= FetchTime
        <4>1. thread[t].value < version => thread[t].value + 1 \in Version
          BY <1>0, <2>1 DEF Fetched
        <4>2. thread[t].value \in Version
          BY <1>0, <2>1 DEF Fetched
        <4> QED
          BY <1>0, <2>1, <3>1, <4>1, <4>2 DEF Fetched
      <3> QED
        BY <2>1, <2>2, <3>2 DEF Ages
    <2> QED
      BY <1>6, <2>3, <2>4 DEF Store
  <1>7. ASSUME NEW t \in Thread, Done(t) PROVE Ages'
    <2>1. Idle.pc # "store"
      BY DEF Idle
    <2> QED
      BY <1>1, <1>2, <1>7, <2>1 DEF Done
  <1>8. CASE Rotate
    <2>1. /\ version' = version + 1 /\ UNCHANGED <<now, cached, thread>>
          /\ version < MaxVersion
          /\ since' = [since EXCEPT ![version + 1] = now]
      BY <1>8 DEF Rotate
    <2>2. /\ since'[version + 1] = now
          /\ \A v \in 1..version : since'[v] = since[v]
          /\ \A v \in Version : since'[v] <= now
      BY <1>0, <2>1 DEF TypeOK, Ages
    <2>3. \A v, w \in 1..version' : v <= w => since'[v] <= since'[w]
      <3> SUFFICES ASSUME NEW v \in 1..version', NEW w \in 1..version', v <= w
                   PROVE  since'[v] <= since'[w]
        OBVIOUS
      <3>1. CASE w = version + 1
        BY <1>0, <2>1, <2>2, <3>1
      <3>2. CASE w # version + 1
        <4>1. v \in 1..version /\ w \in 1..version
          BY <1>0, <2>1, <3>2
        <4> QED
          BY <2>2, <4>1 DEF Ages
      <3> QED
        BY <3>1, <3>2
    <2>4. ASSUME NEW v, NEW r, Fetched(v, r) PROVE Fetched(v, r)'
      <3>1. v \in 1..version /\ v \in 1..(version + 1) /\ since'[v] = since[v]
        BY <1>0, <2>2, <2>4 DEF Fetched
      <3>2. CASE v < version
        <4>1. v + 1 \in 1..version
          BY <1>0, <3>1, <3>2
        <4> QED
          BY <2>1, <2>2, <2>4, <3>1, <3>2, <4>1 DEF Fetched
      <3>3. CASE v = version
        BY <2>1, <2>2, <2>4, <3>1, <3>3 DEF Fetched
      <3> QED
        BY <1>0, <3>1, <3>2, <3>3
    <2>5. \A u \in Thread : At(u, "store")' =>
            (Fetched(thread[u].value, thread[u].read) /\ now - thread[u].read <= FetchTime)'
      <3> SUFFICES ASSUME NEW u \in Thread, At(u, "store")
                   PROVE (Fetched(thread[u].value, thread[u].read) /\ now - thread[u].read <= FetchTime)'
        BY <2>1 DEF At
      <3>1. Fetched(thread[u].value, thread[u].read) /\ now - thread[u].read <= FetchTime
        BY DEF Ages
      <3>2. Fetched(thread[u].value, thread[u].read)'
        <4>1. thread[u]' = thread[u]
          BY <2>1
        <4> QED
          BY <2>1, <2>4, <3>1, <4>1 DEF Fetched
      <3> QED
        BY <2>1, <3>1, <3>2
    <2>6. ASSUME cached.value # 0
          PROVE /\ cached.value \in 1..version'
                /\ since'[cached.value] <= cached.at
                /\ cached.value < version' => cached.at - since'[cached.value + 1] <= FetchTime
      <3>1. /\ cached.value \in 1..version /\ cached.value \in 1..(version + 1)
            /\ since'[cached.value] = since[cached.value]
        BY <1>0, <2>2, <2>6 DEF Ages
      <3>2. CASE cached.value < version
        <4>1. cached.value + 1 \in 1..version
          BY <1>0, <3>1, <3>2
        <4> QED
          BY <2>1, <2>2, <2>6, <3>1, <3>2, <4>1 DEF Ages
      <3>3. CASE cached.value = version
        BY <1>0, <2>1, <2>2, <2>6, <3>1, <3>3 DEF Ages
      <3> QED
        BY <1>0, <3>1, <3>2, <3>3
    <2>7. cached.at <= now /\ cached' = cached /\ now' = now
      BY <2>1 DEF Ages
    <2> QED
      BY <2>2, <2>3, <2>5, <2>6, <2>7 DEF Ages
  <1>9. CASE Tick
    <2>1. now' = now + 1 /\ UNCHANGED <<version, since, cached, thread>>
      BY <1>9 DEF Tick
    <2>2. \A v \in Version : since'[v] <= now'
      BY <1>0, <2>1 DEF Ages
    <2>3. \A u \in Thread : At(u, "store")' =>
            (Fetched(thread[u].value, thread[u].read) /\ now - thread[u].read <= FetchTime)'
      <3> SUFFICES ASSUME NEW u \in Thread, At(u, "store")
                   PROVE (Fetched(thread[u].value, thread[u].read) /\ now - thread[u].read <= FetchTime)'
        BY <2>1 DEF At
      <3>1. Fetched(thread[u].value, thread[u].read) /\ now - thread[u].read < FetchTime
        BY <1>9 DEF Ages, Tick
      <3> QED
        BY <1>0, <2>1, <3>1 DEF Fetched
    <2> QED
      BY <1>0, <2>1, <2>2, <2>3 DEF Ages
  <1>10. CASE UNCHANGED vars
    BY <1>10 DEF vars, Ages, At, Fetched
  <1> QED
    BY <1>4, <1>5, <1>6, <1>7, <1>8, <1>9, <1>10 DEF Next

\* The ages hold of every reachable state.
THEOREM AgesCorrect == Spec => [](TypeOK /\ Ages)
  <1>1. Init => TypeOK /\ Ages
    BY TypeInit, AgesInit
  <1>2. TypeOK /\ Ages /\ [Next]_vars => (TypeOK /\ Ages)'
    BY TypeNext, AgesNext
  <1> QED
    BY <1>1, <1>2, PTL DEF Spec

-----------------------------------------------------------------------------
\* What a fresh cache or a fresh answer hands out is not outdated.
LEMMA FreshEnough ==
  ASSUME TypeOK, Ages, TTL > 0
  PROVE  /\ Fresh => ~Outdated(cached.value)
         /\ \A t \in Thread : At(t, "store") => ~Outdated(thread[t].value)
  <1>0. /\ now \in Int /\ version \in Int /\ version <= MaxVersion
        /\ cached.value \in Int /\ cached.at \in Int
        /\ \A v \in 1..MaxVersion : since[v] \in Int
        /\ TTL \in Int /\ FetchTime \in Int /\ MaxVersion \in Int
        /\ \A t \in Thread : thread[t].read \in Int /\ thread[t].value \in Int
    BY TypeNumbers DEF Version
  <1>1. ASSUME Fresh, cached.value < version PROVE now - since[cached.value + 1] < TTL + FetchTime
    <2>1. /\ now - cached.at < TTL
          /\ cached.value \in 1..version
          /\ cached.at - since[cached.value + 1] <= FetchTime
      BY <1>1 DEF Fresh, Ages
    <2>2. since[cached.value + 1] \in Int
      BY <1>0, <1>1, <2>1
    <2> QED
      BY <1>0, <2>1, <2>2
  <1>2. ASSUME NEW t \in Thread, At(t, "store"), thread[t].value < version
        PROVE  now - since[thread[t].value + 1] < TTL + FetchTime
    <2>1. /\ thread[t].value \in 1..version
          /\ thread[t].read <= since[thread[t].value + 1]
          /\ now - thread[t].read <= FetchTime
      BY <1>2 DEF Ages, Fetched
    <2>2. since[thread[t].value + 1] \in Int
      BY <1>0, <1>2, <2>1
    <2> QED
      BY <1>0, <2>1, <2>2
  <1>3. \A v : v < version /\ now - since[v + 1] < TTL + FetchTime /\ since[v + 1] \in Int => ~Outdated(v)
    BY <1>0 DEF Outdated
  <1>4. Fresh => ~Outdated(cached.value)
    <2>1. ASSUME Fresh, cached.value < version PROVE since[cached.value + 1] \in Int
      BY <1>0, <2>1 DEF Ages, Fresh
    <2> QED
      BY <1>1, <1>3, <2>1 DEF Outdated
  <1>5. ASSUME NEW t \in Thread, At(t, "store") PROVE ~Outdated(thread[t].value)
    <2>1. ASSUME thread[t].value < version PROVE since[thread[t].value + 1] \in Int
      BY <1>0, <1>5, <2>1 DEF Ages, Fetched
    <2> QED
      BY <1>2, <1>3, <1>5, <2>1 DEF Outdated
  <1> QED
    BY <1>4, <1>5

\* A step hands out only what is not outdated, and a later rotation is too recent to matter.
LEMMA NothingOutdatedNext == TypeOK /\ Ages /\ NothingOutdated /\ [Next]_vars => NothingOutdated'
  <1> SUFFICES ASSUME TypeOK, Ages, NothingOutdated, [Next]_vars, TTL > 0,
                      NEW t \in Thread, At(t, "done")'
               PROVE  ~Outdated(thread[t].value)'
    BY DEF NothingOutdated
  <1>0. /\ now \in Int /\ version \in Int
        /\ TTL \in Int /\ FetchTime \in Int /\ FetchTime >= 0 /\ MaxVersion \in Int
        /\ thread \in [Thread -> Threads]
        /\ \A u \in Thread : thread[u].value \in Int
        /\ since \in [1..MaxVersion -> Int]
    BY TypeNumbers, Numbers DEF TypeOK, Version, Time
  <1>1. ASSUME UNCHANGED <<now, version, since>>, ~Outdated(thread'[t].value)
        PROVE  ~Outdated(thread[t].value)'
    BY <1>1 DEF Outdated
  <1>2. ASSUME thread'[t] = thread[t], UNCHANGED <<now, version, since>>
        PROVE  ~Outdated(thread[t].value)'
    BY <1>1, <1>2 DEF At, NothingOutdated
  <1>3. ASSUME NEW u \in Thread, NEW v, NEW r, Returns(u, v, r), u = t
        PROVE  thread'[t].value = v
    BY <1>0, <1>3 DEF Returns, Becomes, Threads
  <1>4. ASSUME NEW u \in Thread, NEW r, Becomes(u, r), u # t PROVE thread'[t] = thread[t]
    BY <1>0, <1>4 DEF Becomes
  <1>5. ASSUME NEW u \in Thread, NEW r, Becomes(u, r), u = t PROVE r.pc = "done"
    BY <1>0, <1>5 DEF Becomes, At
  <1>6. ASSUME NEW u \in Thread, NEW force \in Forces, Lookup(u, force)
        PROVE  ~Outdated(thread[t].value)'
    <2>1. CASE Fresh /\ Returns(u, cached.value, cached.at)
      BY <1>1, <1>2, <1>3, <1>4, <1>6, <2>1, FreshEnough DEF Lookup, Returns
    <2>2. CASE Becomes(u, [Idle EXCEPT !.pc = "fetch", !.force = force])
      <3>1. ([Idle EXCEPT !.pc = "fetch", !.force = force]).pc # "done"
        BY DEF Idle
      <3> QED
        BY <1>2, <1>4, <1>5, <1>6, <2>2, <3>1 DEF Lookup
    <2> QED
      BY <1>6, <2>1, <2>2 DEF Lookup
  <1>7. ASSUME NEW u \in Thread, Fetch(u) PROVE ~Outdated(thread[t].value)'
    <2>1. ([thread[u] EXCEPT !.pc = "store", !.value = version, !.read = now]).pc # "done"
      BY <1>0 DEF Threads
    <2>2. Idle.pc # "done"
      BY DEF Idle
    <2> QED
      BY <1>2, <1>4, <1>5, <1>7, <2>1, <2>2 DEF Fetch
  <1>8. ASSUME NEW u \in Thread, Store(u) PROVE ~Outdated(thread[t].value)'
    <2>1. UNCHANGED <<now, version, since>>
      BY <1>8 DEF Store
    <2>2. CASE u # t
      BY <1>2, <1>4, <1>8, <2>1, <2>2 DEF Store, Returns
    <2>3. CASE u = t
      <3>1. ~Outdated(thread[u].value)
        BY <1>8, FreshEnough DEF Store
      <3>2. thread'[t].value = thread[u].value \/ (Fresh /\ thread'[t].value = cached.value)
        BY <1>3, <1>8, <2>3 DEF Store
      <3> QED
        BY <1>1, <2>1, <3>1, <3>2, FreshEnough
    <2> QED
      BY <2>2, <2>3
  <1>9. ASSUME NEW u \in Thread, Done(u) PROVE ~Outdated(thread[t].value)'
    <2>1. Idle.pc # "done"
      BY DEF Idle
    <2> QED
      BY <1>2, <1>4, <1>5, <1>9, <2>1 DEF Done
  <1>10. CASE Rotate
    <2>1. /\ version' = version + 1 /\ UNCHANGED <<now, cached, thread>>
          /\ since' = [since EXCEPT ![version + 1] = now] /\ version + 1 \in 1..MaxVersion
      BY <1>0, <1>10, Numbers DEF Rotate, TypeOK, Version
    <2>2. ~Outdated(thread[t].value)
      BY <2>1 DEF At, NothingOutdated
    <2>3. CASE thread[t].value < version
      BY <1>0, <2>1, <2>2, <2>3 DEF Outdated
    <2>4. CASE thread[t].value >= version
      BY <1>0, <2>1, <2>4 DEF Outdated
    <2> QED
      BY <1>0, <2>3, <2>4
  <1>11. CASE Tick
    BY <1>11 DEF Tick, At
  <1>12. CASE UNCHANGED vars
    BY <1>2, <1>12 DEF vars
  <1> QED
    BY <1>6, <1>7, <1>8, <1>9, <1>10, <1>11, <1>12 DEF Next

(***************************************************************************)
(* A rotation reaches every connection within TTL + FetchTime: whatever    *)
(* fetches overlap, get_secret returns nothing older.                      *)
(***************************************************************************)
THEOREM NothingOutdatedCorrect == Spec => []NothingOutdated
  <1>1. Init => NothingOutdated
    BY DEF Init, NothingOutdated, Idle, At
  <1> QED
    BY <1>1, AgesCorrect, NothingOutdatedNext, PTL DEF Spec

(***************************************************************************)
(* With answers faster than TTL only a forced refresh can put an older     *)
(* password back: the second look at the cache under _cache_lock is what   *)
(* keeps the newer one.                                                    *)
(***************************************************************************)
THEOREM NeverGoesBackCorrect ==
  ASSUME FetchTime < TTL
  PROVE  Spec => NeverGoesBack
  <1>1. ASSUME TypeOK, Ages, [Next]_vars, NEW t \in Thread, Store(t),
               ~Fresh, cached' = [value |-> thread[t].value, at |-> now]
        PROVE  cached'.value >= cached.value
    <2>1. /\ Fetched(thread[t].value, thread[t].read) /\ now - thread[t].read <= FetchTime
          /\ cached'.value = thread[t].value
      BY <1>1 DEF Store, Ages
    <2>2. /\ now \in Int /\ version \in Int /\ version <= MaxVersion /\ MaxVersion \in Int
          /\ cached.value \in Int /\ cached.value >= 0 /\ cached.at \in Int
          /\ \A v \in 1..MaxVersion : since[v] \in Int
          /\ TTL \in Int /\ FetchTime \in Int
          /\ thread[t].read \in Int /\ thread[t].value \in Int
      BY <1>1, TypeNumbers DEF Version
    <2>3. CASE cached.value = 0
      BY <2>1, <2>2, <2>3 DEF Fetched
    <2>4. CASE cached.value # 0
      <3> SUFFICES ASSUME cached.value > thread[t].value PROVE FALSE
        BY <2>1, <2>2
      <3>1. cached.value \in 1..version /\ since[cached.value] <= cached.at
        BY <1>1, <2>4 DEF Ages
      <3>2. thread[t].value \in 1..version /\ thread[t].read <= since[thread[t].value + 1]
        BY <2>1, <2>2, <3>1 DEF Fetched
      <3>3. thread[t].value + 1 \in 1..version /\ thread[t].value + 1 <= cached.value
        BY <2>2, <3>1, <3>2
      <3>4. since[thread[t].value + 1] <= since[cached.value]
        BY <1>1, <3>1, <3>3 DEF Ages
      <3>5. since[thread[t].value + 1] \in Int /\ since[cached.value] \in Int
        BY <2>2, <3>1, <3>3
      <3>6. now - cached.at >= TTL
        BY <1>1, <2>2, <2>4 DEF Fresh
      <3> QED
        BY <2>1, <2>2, <3>1, <3>2, <3>4, <3>5, <3>6
    <2> QED
      BY <2>3, <2>4
  <1>2. TypeOK /\ Ages /\ [Next]_vars => [cached'.value >= cached.value \/ ForcedStore]_vars
    <2> SUFFICES ASSUME TypeOK, Ages, [Next]_vars, ~ForcedStore PROVE cached'.value >= cached.value
      OBVIOUS
    <2>1. CASE UNCHANGED cached
      <3>1. cached.value \in Int
        BY Numbers DEF TypeOK
      <3> QED
        BY <2>1, <3>1
    <2>2. ASSUME NEW t \in Thread, Store(t), cached' # cached PROVE cached'.value >= cached.value
      <3>1. thread[t].force \/ ~Fresh
        BY <2>2 DEF Store
      <3>2. ~thread[t].force
        <4>1. thread[t].force => At(t, "done")'
          <5>1. thread \in [Thread -> Threads]
            BY DEF TypeOK
          <5>2. ASSUME NEW n, n = [thread[t] EXCEPT !.pc = "done", !.value = thread[t].value,
                                                    !.read = thread[t].read]
                PROVE  n.pc = "done"
            BY <5>1, <5>2 DEF Threads
          <5>3. thread[t].force => Returns(t, thread[t].value, thread[t].read)
            BY <2>2 DEF Store
          <5> QED
            BY <5>1, <5>2, <5>3 DEF Returns, Becomes, At
        <4> QED
          BY <2>2, <4>1 DEF ForcedStore, Store
      <3> QED
        BY <1>1, <2>2, <3>1, <3>2 DEF Store
    <2> QED
      BY <2>1, <2>2 DEF Next, Lookup, Fetch, Done, Rotate, Tick, vars
  <1> QED
    BY <1>2, AgesCorrect, PTL DEF Spec, NeverGoesBack
=============================================================================
