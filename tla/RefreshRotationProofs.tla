------------------------- MODULE RefreshRotationProofs -------------------------
(***************************************************************************)
(* What the exchange says of refresh tokens over time, for any number of   *)
(* requests, background refreshes, clients and sessions:                   *)
(*   - nobody presents a refresh token Cognito has rotated away;           *)
(*   - a refresh token is exchanged for one pair, by one grant;            *)
(*   - a client is told to sign in again only for a good reason;           *)
(*   - without rotation at Cognito, both of these whatever fails;          *)
(*   - a replay ends on a token that works.                                *)
(* None of them is inductive: each section states the invariant that is.   *)
(***************************************************************************)
EXTENDS RefreshExchangeProofs

-----------------------------------------------------------------------------
(***************************************************************************)
(* What is read from the token set is Cognito's current token, because     *)
(* whoever rotated it is still about to save the new one, inside the lock, *)
(* or has saved it.                                                        *)
(***************************************************************************)
SentIsCurrent(t) ==
  t.pc \in {"upstream", "save"} => cognito[t.session] \in {0, t.rt}

OnItsWay(s) == \E w \in Worker : At(w, "save") /\ task[w].session = s

Fetching == {"queue", "upstream", "save"}

RotationInv ==
  /\ \A w \in Worker : SentIsCurrent(task[w])
  /\ \A s \in Session : cognito[s] \notin {0, stored[s]} => OnItsWay(s)
  /\ \A b \in Background : task[b].pc \in Fetching => owner[task[b].session] # NoClient

\* A session that is refreshed has been signed in to.
LEMMA RefreshedIsSignedIn ==
  ASSUME TypeOK, ClientInv, RotationInv, NEW w \in Worker, task[w].pc \in {"upstream", "save"}
  PROVE  task[w].session \in Session /\ owner[task[w].session] # NoClient
  <1>1. task[w] \in Task /\ Fits(w, task[w])
    BY DEF TypeOK
  <1>2. task[w].session \in Session
    BY <1>1 DEF Fits
  <1>3. CASE w \in Request
    <2>1. task[w].client \in Client /\ Rightful(task[w])
      BY <1>1, <1>3 DEF Fits, ClientInv
    <2> QED
      BY <1>2, <2>1, Bounds DEF Rightful, PastLoad, WithSession, Belongs
  <1>4. CASE w \in Background
    BY <1>2, <1>4 DEF RotationInv, Fetching
  <1> QED
    BY <1>2, <1>3, <1>4, Bounds

\* A step of one worker that is not about to save, and that touches neither
\* Cognito's token nor the server's.
LEMMA OneMovesOn ==
  ASSUME TypeOK, RotationInv, NEW w \in Worker, NEW n, Becomes(w, n),
         task[w].pc # "save", UNCHANGED <<cognito, stored, owner>>, SentIsCurrent(n),
         w \in Background /\ n.pc \in Fetching => owner[n.session] # NoClient
  PROVE  RotationInv'
  <1>1. task'[w] = n /\ \A v \in Worker : v # w => task'[v] = task[v]
    BY DEF Becomes, TypeOK
  <1>2. ASSUME NEW v \in Worker PROVE SentIsCurrent(task[v])'
    BY <1>1 DEF RotationInv, SentIsCurrent
  <1>3. ASSUME NEW s \in Session, OnItsWay(s) PROVE OnItsWay(s)'
    BY <1>1, <1>3 DEF OnItsWay, At
  <1>4. ASSUME NEW b \in Background, task'[b].pc \in Fetching
        PROVE  owner'[task'[b].session] # NoClient
    BY <1>1, <1>4, Bounds DEF RotationInv
  <1> QED
    BY <1>2, <1>3, <1>4 DEF RotationInv

\* What the token set holds is Cognito's when nobody else is upstream.
LEMMA ReadIsCurrent ==
  ASSUME TypeOK, RotationInv, OneUpstreamCall', NEW w \in Worker, NEW n, Becomes(w, n),
         task[w].pc # "save", n.pc = "upstream", n.session \in Session
  PROVE  cognito[n.session] \in {0, stored[n.session]}
  <1>1. task'[w] = n /\ \A v \in Worker : v # w => task'[v] = task[v]
    BY DEF Becomes, TypeOK
  <1>2. ASSUME NEW v \in Worker, At(v, "save"), task[v].session = n.session PROVE FALSE
    <2>1. v # w /\ task'[v] = task[v]
      BY <1>1, <1>2 DEF At
    <2> QED
      BY <1>1, <1>2, <2>1 DEF OneUpstreamCall, At
  <1> QED
    BY <1>2 DEF RotationInv, OnItsWay

\* Every step preserves the invariant.
LEMMA RotationNext ==
  ASSUME StoreFaults = FALSE, AnswersLost = FALSE, Crashes = FALSE, TypeOK, ClientInv,
         RotationInv, OneUpstreamCall, OneUpstreamCall', [Next]_vars
  PROVE  RotationInv'
  <1>a. \A w \in Worker : task[w] \in Task /\ Fits(w, task[w])
    BY DEF TypeOK
  <1>b. ASSUME NEW w \in Worker, NEW n, Becomes(w, n), task[w].pc # "save",
               n.pc \notin Fetching, UNCHANGED <<cognito, stored, owner>>
        PROVE  RotationInv'
    BY <1>b, OneMovesOn DEF Fetching, SentIsCurrent
  <1>c. ASSUME NEW t, NEW kind, NEW n PROVE Answered(t, kind, n).pc = "done"
    BY DEF Answered
  <1>d. ASSUME NEW p PROVE Idle(p).pc = "idle"
    BY DEF Idle
  <1>e. ASSUME NEW r \in Request, NEW n, Becomes(r, n), task[r].pc # "save",
               n.pc = "queue", UNCHANGED <<cognito, stored, owner>>
        PROVE  RotationInv'
    BY <1>e, OneMovesOn, Bounds DEF SentIsCurrent
  <1>f. ASSUME NEW r \in Request, NEW t, NEW step, ReplayOr(r, t, step),
               [t EXCEPT !.pc = step].pc \notin Fetching,
               task[r].pc # "save", UNCHANGED <<cognito, stored, owner>>
        PROVE  RotationInv'
    <2>1. PICK n : n = [t EXCEPT !.pc = step]
      OBVIOUS
    <2>2. CASE Becomes(r, n)
      BY <1>b, <1>f, <2>1, <2>2, Bounds
    <2>3. CASE \E m \in ReplayFor(t) : Becomes(r, Answered(t, "tokens", m.next))
      <3>1. PICK m : Becomes(r, Answered(t, "tokens", m.next))
        BY <2>3
      <3>2. Answered(t, "tokens", m.next).pc = "done"
        BY <1>c
      <3> QED
        BY <1>b, <1>f, <3>1, <3>2, Bounds DEF Fetching
    <2> QED
      BY <1>f, <2>1, <2>2, <2>3 DEF ReplayOr
  <1>1. ASSUME NEW s \in Session, NEW c \in Client, SignIn(s, c) PROVE RotationInv'
    <2>1. ASSUME NEW w \in Worker, task[w].pc \in {"upstream", "save"} PROVE task[w].session # s
      BY <1>1, <2>1, RefreshedIsSignedIn DEF SignIn
    <2>2. UNCHANGED task
      BY <1>1 DEF SignIn
    <2>3. cognito'[s] = 1 /\ stored'[s] = 1 /\ owner'[s] = c
      BY <1>1 DEF SignIn, TypeOK
    <2>4. ASSUME NEW u \in Session, u # s
          PROVE  cognito'[u] = cognito[u] /\ stored'[u] = stored[u] /\ owner'[u] = owner[u]
      BY <1>1, <2>4 DEF SignIn, TypeOK
    <2>5. ASSUME NEW w \in Worker PROVE SentIsCurrent(task[w])'
      BY <2>1, <2>2, <2>4, RefreshedIsSignedIn DEF RotationInv, SentIsCurrent
    <2>6. ASSUME NEW u \in Session, cognito'[u] \notin {0, stored'[u]} PROVE OnItsWay(u)'
      BY <2>2, <2>3, <2>4, <2>6 DEF RotationInv, OnItsWay, At
    <2>7. ASSUME NEW b \in Background, task[b].pc \in Fetching
          PROVE  owner'[task[b].session] # NoClient
      <3>1. task[b].session \in Session
        BY <1>a, <2>7, Bounds DEF Fits, Fetching
      <3> QED
        BY <2>3, <2>4, <2>7, <3>1, Bounds DEF RotationInv
    <2> QED
      BY <2>2, <2>5, <2>6, <2>7 DEF RotationInv
  <1>2. ASSUME NEW r \in Request, NEW p \in Replica, NEW c \in Client, NEW t \in Token,
               Present(r, p, c, t)
        PROVE  RotationInv'
    <2> DEFINE asked == [Idle(p) EXCEPT !.client = c, !.token = t]
    <2>1. [asked EXCEPT !.pc = "load"].pc = "load"
      BY DEF Idle
    <2>2. ReplayOr(r, asked, "load") /\ UNCHANGED <<cognito, stored, owner>> /\ task[r].pc = "idle"
      BY <1>2 DEF Present, stores, At
    <2> HIDE DEF asked
    <2> QED
      BY <1>f, <2>1, <2>2 DEF Fetching
  <1>3. ASSUME NEW r \in Request, Load(r) PROVE RotationInv'
    <2>1. [task[r] EXCEPT !.pc = "resolve"].pc = "resolve"
      BY <1>a, Bounds DEF Task
    <2>2. UNCHANGED <<cognito, stored, owner>> /\ task[r].pc = "load"
      BY <1>3 DEF Load, stores, At
    <2> QED
      BY <1>3, <1>b, <1>c, <1>f, <2>1, <2>2, Bounds DEF Load, Fetching
  <1>4. ASSUME NEW r \in Request, Resolve(r) PROVE RotationInv'
    <2>1. r \in Worker /\ task[r] \in Task
      BY <1>a, Bounds
    <2>2. UNCHANGED <<cognito, stored, owner>> /\ task[r].pc = "resolve"
      BY <1>4 DEF Resolve, stores, At
    <2>3. [task[r] EXCEPT !.pc = "queue", !.session = mapping[task[r].token]].pc = "queue"
      BY <2>1 DEF Task
    <2>4. [task[r] EXCEPT !.pc = "exchange"].pc = "exchange"
      BY <2>1 DEF Task
    <2>5. CASE Becomes(r, [task[r] EXCEPT !.pc = "queue", !.session = mapping[task[r].token]])
      BY <1>e, <2>2, <2>3, <2>5
    <2>6. CASE Goto(r, "exchange")
      BY <1>b, <2>1, <2>2, <2>4, <2>6 DEF Goto, Fetching
    <2> QED
      BY <1>4, <2>5, <2>6 DEF Resolve
  <1>5. ASSUME NEW r \in Request, Acquire(r) PROVE RotationInv'
    <2> DEFINE t == [task[r] EXCEPT !.locked = TRUE]
    <2>1. [t EXCEPT !.pc = "exchange"].pc = "exchange"
      BY <1>a, Bounds DEF Task
    <2>2. ReplayOr(r, t, "exchange") /\ UNCHANGED <<cognito, stored, owner>> /\ task[r].pc = "queue"
      BY <1>5 DEF Acquire, stores, At
    <2> HIDE DEF t
    <2> QED
      BY <1>f, <2>1, <2>2 DEF Fetching
  <1>6. ASSUME NEW r \in Request, ReadGrant(r) PROVE RotationInv'
    <2> DEFINE s == mapping[task[r].token]
               u == [task[r] EXCEPT !.pc = "upstream", !.session = s, !.rt = stored[s]]
               f == Raised(task[r], "unmapped")
    <2>1. /\ r \in Worker /\ r \notin Background /\ task[r] \in Task /\ task[r].pc = "exchange"
          /\ UNCHANGED <<cognito, stored, owner>>
      BY <1>6, <1>a, Bounds DEF ReadGrant, At, stores
    <2>2. u.pc = "upstream" /\ u.session = s /\ u.rt = stored[s] /\ f.pc = "failed"
      <3>1. u.pc = "upstream" /\ u.session = s /\ u.rt = stored[s]
        BY <2>1 DEF Task
      <3>2. f.pc = "failed"
        BY <2>1, RaisedFields
      <3> QED
        BY <3>1, <3>2
    <2>3. Becomes(r, f) \/ (s # NoSession /\ Becomes(r, u))
      BY <1>6 DEF ReadGrant
    <2>4. s # NoSession => s \in Session
      BY <1>a, <2>1 DEF TypeOK, Fits
    <2> HIDE DEF u, f
    <2>5. CASE Becomes(r, f)
      BY <1>b, <2>1, <2>2, <2>5 DEF Fetching
    <2>6. CASE s # NoSession /\ Becomes(r, u)
      <3>1. cognito[s] \in {0, stored[s]}
        BY <2>1, <2>2, <2>4, <2>6, ReadIsCurrent
      <3>2. SentIsCurrent(u)
        BY <2>2, <3>1 DEF SentIsCurrent
      <3> QED
        BY <2>1, <2>6, <3>2, OneMovesOn
    <2> QED
      BY <2>3, <2>5, <2>6
  <1>7. ASSUME NEW b \in Background, NEW p \in Replica, NEW s \in Session,
               StartBackground(b, p, s)
        PROVE  RotationInv'
    <2> DEFINE n == [Idle(p) EXCEPT !.pc = "queue", !.session = s]
    <2>1. n.pc = "queue" /\ n.session = s
      BY DEF Idle
    <2>2. /\ Becomes(b, n) /\ UNCHANGED <<cognito, stored, owner>> /\ task[b].pc = "idle"
          /\ owner[s] # NoClient /\ b \in Worker
      BY <1>7, Bounds DEF StartBackground, stores, At
    <2> HIDE DEF n
    <2> QED
      BY <2>1, <2>2, OneMovesOn DEF SentIsCurrent
  <1>8. ASSUME NEW b \in Background, AcquireBackground(b) PROVE RotationInv'
    <2> DEFINE s == task[b].session
               u == [task[b] EXCEPT !.pc = "upstream", !.locked = TRUE, !.rt = stored[s]]
    <2>1. /\ b \in Worker /\ task[b] \in Task /\ task[b].pc = "queue" /\ s \in Session
          /\ UNCHANGED <<cognito, stored, owner>> /\ owner[s] # NoClient
      BY <1>8, <1>a, Bounds DEF AcquireBackground, At, stores, Fits, RotationInv, Fetching
    <2>2. u.pc = "upstream" /\ u.session = s /\ u.rt = stored[s]
      BY <2>1 DEF Task
    <2>3. Becomes(b, Idle(Home)) \/ Becomes(b, u)
      BY <1>8 DEF AcquireBackground
    <2> HIDE DEF u
    <2>4. CASE Becomes(b, Idle(Home))
      BY <1>b, <1>d, <2>1, <2>4 DEF Fetching
    <2>5. CASE Becomes(b, u)
      <3>1. cognito[s] \in {0, stored[s]}
        BY <2>1, <2>2, <2>5, ReadIsCurrent
      <3>2. SentIsCurrent(u)
        BY <2>2, <3>1 DEF SentIsCurrent
      <3> QED
        BY <2>1, <2>2, <2>5, <3>2, OneMovesOn
    <2> QED
      BY <2>3, <2>4, <2>5
  <1>9. ASSUME NEW w \in Worker, UpstreamGrants(w) PROVE RotationInv'
    <2> DEFINE s == task[w].session
               n == [task[w] EXCEPT !.pc = "save", !.rt = NextGeneration(s)]
    <2>1. /\ task[w] \in Task /\ task[w].pc = "upstream" /\ s \in Session
          /\ UNCHANGED <<stored, owner>>
          /\ cognito' = [cognito EXCEPT ![s] = NextGeneration(s)] /\ Becomes(w, n)
      BY <1>9, <1>a DEF UpstreamGrants, At, stores, Fits
    <2>2. n.pc = "save" /\ n.session = s /\ n.rt = NextGeneration(s)
      BY <2>1 DEF Task
    <2> HIDE DEF n
    <2>3. task'[w] = n /\ \A v \in Worker : v # w => task'[v] = task[v]
      BY <2>1 DEF Becomes, TypeOK
    <2>4. cognito'[s] = NextGeneration(s) /\ \A u \in Session : u # s => cognito'[u] = cognito[u]
      BY <2>1 DEF TypeOK
    <2>5. ASSUME NEW v \in Worker PROVE SentIsCurrent(task[v])'
      <3>1. CASE v = w
        BY <2>2, <2>3, <2>4, <3>1 DEF SentIsCurrent
      <3>2. CASE v # w /\ task[v].pc \in {"upstream", "save"}
        <4>1. task[v].session # s
          BY <2>1, <3>2 DEF OneUpstreamCall
        <4>2. task[v].session \in Session
          BY <3>2, RefreshedIsSignedIn
        <4> QED
          BY <2>3, <2>4, <3>2, <4>1, <4>2 DEF RotationInv, SentIsCurrent
      <3>3. CASE v # w /\ task[v].pc \notin {"upstream", "save"}
        BY <2>3, <3>3 DEF SentIsCurrent
      <3> QED
        BY <3>1, <3>2, <3>3
    <2>6. ASSUME NEW u \in Session, cognito'[u] \notin {0, stored'[u]} PROVE OnItsWay(u)'
      <3>1. CASE u = s
        BY <2>2, <2>3, <3>1 DEF OnItsWay, At
      <3>2. CASE u # s
        <4>1. PICK v \in Worker : At(v, "save") /\ task[v].session = u
          BY <2>1, <2>4, <2>6, <3>2 DEF RotationInv, OnItsWay
        <4>2. task'[v] = task[v]
          BY <2>1, <2>3, <4>1 DEF At
        <4> QED
          BY <4>1, <4>2 DEF OnItsWay, At
      <3> QED
        BY <3>1, <3>2
    <2>7. ASSUME NEW b \in Background, task'[b].pc \in Fetching
          PROVE  owner'[task'[b].session] # NoClient
      BY <2>1, <2>2, <2>3, <2>7, Bounds DEF RotationInv, Fetching
    <2> QED
      BY <2>5, <2>6, <2>7 DEF RotationInv
  <1>10. ASSUME NEW w \in Worker, UpstreamRejects(w) \/ UpstreamFails(w) PROVE RotationInv'
    <2>1. /\ task[w] \in Task /\ task[w].pc = "upstream" /\ UNCHANGED <<cognito, stored, owner>>
      BY <1>10, <1>a DEF UpstreamRejects, UpstreamFails, At, stores
    <2>2. PICK c \in UpstreamCauses : Becomes(w, Raised(task[w], c))
      BY <1>10, UpstreamRaises
    <2>3. Raised(task[w], c).pc = "failed"
      BY <2>1, RaisedFields
    <2> QED
      BY <1>b, <2>1, <2>2, <2>3 DEF Fetching
  <1>11. ASSUME NEW w \in Worker, Fail(w) PROVE RotationInv'
    BY <1>11, <1>b, <1>c, <1>d DEF Fail, Fetching, At, stores
  <1>12. ASSUME NEW w \in Worker, Save(w) PROVE RotationInv'
    <2> DEFINE s == task[w].session
    <2>1. /\ task[w] \in Task /\ task[w].pc = "save" /\ s \in Session
          /\ UNCHANGED <<cognito, owner>> /\ stored' = [stored EXCEPT ![s] = task[w].rt]
      BY <1>12, <1>a DEF Save, At, Fits
    <2>2. PICK n : Becomes(w, n) /\ n.pc \notin Fetching
      <3>1. [task[w] EXCEPT !.pc = "issue"].pc = "issue"
        BY <2>1 DEF Task
      <3> QED
        BY <1>12, <1>d, <3>1 DEF Save, Goto, Fetching
    <2>3. task'[w] = n /\ \A v \in Worker : v # w => task'[v] = task[v]
      BY <2>2 DEF Becomes, TypeOK
    <2>4. ASSUME NEW v \in Worker PROVE SentIsCurrent(task[v])'
      BY <2>1, <2>2, <2>3 DEF RotationInv, SentIsCurrent, Fetching
    <2>5. ASSUME NEW u \in Session, cognito'[u] \notin {0, stored'[u]} PROVE OnItsWay(u)'
      <3>1. u # s
        BY <2>1, <2>5 DEF RotationInv, SentIsCurrent, TypeOK
      <3>2. stored'[u] = stored[u]
        BY <2>1, <3>1 DEF TypeOK
      <3>3. PICK v \in Worker : At(v, "save") /\ task[v].session = u
        BY <2>1, <2>5, <3>2 DEF RotationInv, OnItsWay
      <3> QED
        BY <2>3, <3>1, <3>3 DEF OnItsWay, At
    <2>6. ASSUME NEW b \in Background, task'[b].pc \in Fetching
          PROVE  owner'[task'[b].session] # NoClient
      BY <2>1, <2>2, <2>3, <2>6, Bounds DEF RotationInv
    <2> QED
      BY <2>4, <2>5, <2>6 DEF RotationInv
  <1>13. ASSUME NEW r \in Request, Issue(r) PROVE RotationInv'
    <2>1. /\ task[r] \in Task /\ task[r].pc = "issue" /\ UNCHANGED <<cognito, stored, owner>>
          /\ Becomes(r, [task[r] EXCEPT !.pc = "rotate", !.fresh = issued + 1])
      BY <1>13, <1>a, Bounds DEF Issue, At
    <2>2. [task[r] EXCEPT !.pc = "rotate", !.fresh = issued + 1].pc = "rotate"
      BY <2>1 DEF Task
    <2> QED
      BY <1>b, <2>1, <2>2, Bounds DEF Fetching
  <1>14. ASSUME NEW r \in Request, Rotate(r) \/ Register(r) \/ Retire(r) PROVE RotationInv'
    <2>1. /\ task[r] \in Task /\ task[r].pc # "save" /\ UNCHANGED <<cognito, stored, owner>>
      BY <1>14, <1>a, Bounds DEF Rotate, Register, Retire, At
    <2>2. PICK k \in {"register", "retire", "record"} : Becomes(r, [task[r] EXCEPT !.pc = k])
      BY <1>14 DEF Rotate, Register, Retire, Goto
    <2>3. [task[r] EXCEPT !.pc = k].pc = k
      BY <2>1 DEF Task
    <2> QED
      BY <1>b, <2>1, <2>2, <2>3, Bounds DEF Fetching
  <1>15. ASSUME NEW r \in Request, Record(r) \/ Finish(r) PROVE RotationInv'
    BY <1>15, <1>b, <1>c, <1>d, Bounds DEF Record, Finish, Fetching, At, stores
  <1>16. ASSUME NEW s \in Session, Revoke(s) PROVE RotationInv'
    <2>1. /\ UNCHANGED <<task, stored, owner>>
          /\ \A u \in Session : cognito'[u] = IF u = s THEN 0 ELSE cognito[u]
      BY <1>16 DEF Revoke, stores, TypeOK
    <2>2. ASSUME NEW w \in Worker PROVE SentIsCurrent(task[w])'
      BY <2>1, RefreshedIsSignedIn DEF RotationInv, SentIsCurrent
    <2>3. ASSUME NEW u \in Session, cognito'[u] \notin {0, stored'[u]} PROVE OnItsWay(u)'
      BY <2>1, <2>3 DEF RotationInv, OnItsWay, At
    <2> QED
      BY <2>1, <2>2, <2>3 DEF RotationInv
  <1>17. UNCHANGED <<task, cognito, stored, owner>> => RotationInv'
    BY DEF RotationInv, SentIsCurrent, OnItsWay, At
  <1>18. Tick \/ UNCHANGED vars => RotationInv'
    BY <1>17 DEF Tick, vars, stores
  <1>19. ASSUME NEW p \in Replica, Crash(p) PROVE RotationInv'
    BY <1>19 DEF Crash
  <1>20. ASSUME NEW r \in Request, Exchange(r) \/ Finish(r) PROVE RotationInv'
    BY <1>3, <1>4, <1>5, <1>6, <1>13, <1>14, <1>15, <1>20 DEF Exchange
  <1>21. ASSUME NEW w \in Worker, Upstream(w) \/ Save(w) \/ StoreFails(w) \/ Fail(w)
         PROVE  RotationInv'
    BY <1>9, <1>10, <1>11, <1>12, <1>21 DEF Upstream, StoreFails
  <1> QED
    BY <1>1, <1>2, <1>7, <1>8, <1>16, <1>18, <1>19, <1>20, <1>21 DEF Next

\* Nobody is signed in at the start.
LEMMA RotationInit == Init => RotationInv
  BY Bounds DEF Init, RotationInv, SentIsCurrent, Idle, Fetching

(***************************************************************************)
(* In one process that is not restarted, whose mapping store answers and   *)
(* whose calls to Cognito are not acted on and then lost, what a worker    *)
(* sent to Cognito stays Cognito's current refresh token, or is revoked,   *)
(* until the call returns.  A lost answer or a restart between Cognito's   *)
(* rotation and the save of the new token breaks it, and then no lock      *)
(* could repair it.                                                        *)
(***************************************************************************)
THEOREM NothingSpentCorrect ==
  ASSUME \A p, q \in Replica : p = q, StoreFaults = FALSE, AnswersLost = FALSE, Crashes = FALSE
  PROVE  Spec => []NothingSpentIsPresented
  <1>1. Spec => []OneUpstreamCall
    BY OneUpstreamCallCorrect
  <1>2. TypeOK /\ ClientInv /\ OneUpstreamCall /\ OneUpstreamCall' /\ RotationInv /\ [Next]_vars
        => RotationInv'
    BY RotationNext
  <1>3. RotationInv => NothingSpentIsPresented
    BY DEF RotationInv, SentIsCurrent, NothingSpentIsPresented, At
  <1> QED
    BY TypeCorrect, ClientCorrect, RotationInit, <1>1, <1>2, <1>3, PTL DEF Spec

-----------------------------------------------------------------------------
(***************************************************************************)
(* What a request may become in one step, from its record t to n: the      *)
(* paths of the handler, and an end without an answer.                     *)
(***************************************************************************)
Keeps(t, n) == n.token = t.token /\ n.client = t.client /\ n.session = t.session /\ n.locked = t.locked

Asks(t, n) ==
  \/ /\ t.pc = "idle" /\ n.pc \in {"load", "done"}
     /\ n.token \in handed /\ n.answer # "invalid_grant"
  \/ /\ t.pc \in {"load", "queue"} /\ n.pc = "done" /\ n.answer = "tokens"
     /\ n.token = t.token
  \/ /\ t.pc \in {"load", "resolve", "queue"} /\ n.pc \in {"resolve", "queue", "exchange"}
     /\ n.token = t.token

Refused(t, n) ==
  /\ n.pc \in {"failed", "done"} /\ n.token = t.token /\ n.client = t.client
  /\ \/ t.pc = "load" /\ metadata[t.token] # t.client
     \/ t.pc = "exchange" /\ mapping[t.token] = NoSession
     \/ t.pc = "upstream" /\ t.rt # cognito[t.session]
     \/ t.pc = "upstream" /\ (n.cause = "other" \/ n.answer = "unavailable")
     \/ StoreFaults /\ t.pc # "idle" /\ n.answer = "server_error"
     \/ t.pc = "failed" /\ n.answer = t.answer /\ n.cause = t.cause

Granted(r, t, n) ==
  \/ /\ t.pc = "exchange" /\ n.pc = "upstream" /\ n.token = t.token /\ n.locked = t.locked
     /\ n.session = mapping[t.token] /\ n.rt = stored[n.session]
     /\ mapping[t.token] # NoSession /\ UNCHANGED <<mapping, metadata>>
  \/ /\ t.pc = "upstream" /\ n.pc = "save" /\ Keeps(t, n) /\ UNCHANGED <<mapping, metadata>>
     /\ UpstreamGrants(r) /\ n.rt = NextGeneration(t.session)
  \/ t.pc = "save" /\ n.pc = "issue" /\ Keeps(t, n) /\ UNCHANGED <<mapping, metadata>>
  \/ t.pc = "issue" /\ n.pc = "rotate" /\ Keeps(t, n) /\ n.fresh = issued + 1 /\ Issue(r)
  \/ t.pc = "rotate" /\ n.pc = "register" /\ Keeps(t, n) /\ n.fresh = t.fresh /\ Rotate(r)
  \/ t.pc = "register" /\ n.pc = "retire" /\ Keeps(t, n) /\ n.fresh = t.fresh /\ Register(r)
  \/ t.pc = "retire" /\ n.pc = "record" /\ Keeps(t, n) /\ n.fresh = t.fresh /\ Retire(r)
  \/ t.pc = "record" /\ n.pc = "done" /\ n.token = t.token /\ n.answer = "tokens" /\ Record(r)

Ended(t, n) == n.pc = "idle" /\ (t.pc = "done" \/ \E p \in Replica : Crash(p))

Advances(r, t, n) == n = t \/ Asks(t, n) \/ Refused(t, n) \/ Granted(r, t, n) \/ Ended(t, n)

\* A step of another worker, or of none, leaves the request where it is.
LEMMA OthersWait ==
  ASSUME TypeOK, NEW r \in Request, NEW w \in Worker \ {r}, NEW n, Becomes(w, n)
  PROVE  task'[r] = task[r]
  BY Bounds DEF Becomes, TypeOK

\* A worker that becomes n has the record n, and the others keep theirs.
LEMMA BecomesNow ==
  ASSUME TypeOK, NEW r \in Request, NEW n, Becomes(r, n)
  PROVE  task'[r] = n
  BY Bounds DEF Becomes, TypeOK

\* A replay check answers, or lets the request go on.
LEMMA ReplayAsks ==
  ASSUME TypeOK, NEW r \in Request, NEW t, NEW step, ReplayOr(r, t, step)
  PROVE  \/ task'[r] = [t EXCEPT !.pc = step]
         \/ /\ task'[r].pc = "done" /\ task'[r].answer = "tokens" /\ task'[r].token = t.token
            /\ task'[r].client = t.client
  <1>1. CASE Becomes(r, [t EXCEPT !.pc = step])
    BY <1>1, BecomesNow
  <1>2. CASE \E m \in ReplayFor(t) : Becomes(r, Answered(t, "tokens", m.next))
    <2>1. PICK m \in ReplayFor(t) : Becomes(r, Answered(t, "tokens", m.next))
      BY <1>2
    <2>2. task'[r] = Answered(t, "tokens", m.next)
      BY <2>1, BecomesNow
    <2> QED
      BY <2>2 DEF Answered
  <1> QED
    BY <1>1, <1>2 DEF ReplayOr

\* Every step takes a request along one of the paths above.
LEMMA RequestAdvances ==
  ASSUME TypeOK, [Next]_vars, NEW r \in Request
  PROVE  Advances(r, task[r], task'[r])
  <1> DEFINE x == task[r]
  <1>a. x \in Task /\ r \in Worker /\ r \notin Background
    BY Bounds DEF TypeOK
  <1>b. ASSUME UNCHANGED task PROVE Advances(r, x, task'[r])
    BY <1>b DEF Advances
  <1>c. ASSUME NEW w \in Worker \ {r}, NEW n, Becomes(w, n) PROVE Advances(r, x, task'[r])
    BY <1>c, OthersWait DEF Advances
  <1>d. ASSUME NEW t, NEW kind, NEW n
        PROVE  /\ Answered(t, kind, n).pc = "done" /\ Answered(t, kind, n).answer = kind
               /\ Answered(t, kind, n).token = t.token /\ Answered(t, kind, n).client = t.client
               /\ Answered(t, kind, n).cause = t.cause
    BY DEF Answered
  <1>e. ASSUME NEW p PROVE Idle(p).pc = "idle" /\ Idle(p).answer = "none"
    BY DEF Idle
  <1>1. ASSUME NEW p \in Replica, NEW c \in Client, NEW t \in Token, Present(r, p, c, t)
        PROVE  Advances(r, x, task'[r])
    <2> DEFINE asked == [Idle(p) EXCEPT !.client = c, !.token = t]
               n == [asked EXCEPT !.pc = "load"]
    <2>1. n.pc = "load" /\ n.token = t /\ n.answer = "none" /\ asked.token = t
      BY DEF Idle
    <2>2. ReplayOr(r, asked, "load") /\ x.pc = "idle" /\ t \in handed
      BY <1>1 DEF Present, At
    <2>3. task'[r] = n \/ (task'[r].pc = "done" /\ task'[r].answer = "tokens" /\ task'[r].token = asked.token)
      BY <2>2, ReplayAsks
    <2> HIDE DEF asked, n
    <2> QED
      BY <2>1, <2>2, <2>3 DEF Advances, Asks
  <1>2. CASE Load(r)
    <2>1. x.pc = "load"
      BY <1>2 DEF Load, At
    <2>2. CASE metadata[x.token] # x.client /\ Becomes(r, Answered(x, "invalid_grant", 0))
      <3>1. task'[r] = Answered(x, "invalid_grant", 0)
        BY <2>2, BecomesNow
      <3> QED
        BY <1>d, <2>1, <2>2, <3>1 DEF Advances, Refused
    <2>3. CASE ReplayOr(r, x, "resolve")
      <3>1. [x EXCEPT !.pc = "resolve"].pc = "resolve" /\ [x EXCEPT !.pc = "resolve"].token = x.token
        BY <1>a DEF Task
      <3> QED
        BY <2>1, <2>3, <3>1, ReplayAsks DEF Advances, Asks
    <2> QED
      BY <1>2, <2>2, <2>3 DEF Load
  <1>3. CASE Resolve(r)
    <2> DEFINE q == [x EXCEPT !.pc = "queue", !.session = mapping[x.token]]
               e == [x EXCEPT !.pc = "exchange"]
    <2>1. x.pc = "resolve" /\ (Becomes(r, q) \/ Becomes(r, e))
      BY <1>3 DEF Resolve, At, Goto
    <2>2. q.pc = "queue" /\ q.token = x.token /\ e.pc = "exchange" /\ e.token = x.token
      BY <1>a DEF Task
    <2>3. task'[r] = q \/ task'[r] = e
      BY <2>1, BecomesNow
    <2> HIDE DEF q, e
    <2> QED
      BY <2>1, <2>2, <2>3 DEF Advances, Asks
  <1>4. CASE Acquire(r)
    <2> DEFINE t == [x EXCEPT !.locked = TRUE]
               n == [t EXCEPT !.pc = "exchange"]
    <2>1. n.pc = "exchange" /\ n.token = x.token /\ t.token = x.token
      BY <1>a DEF Task
    <2>2. ReplayOr(r, t, "exchange") /\ x.pc = "queue"
      BY <1>4 DEF Acquire, At
    <2>3. task'[r] = n \/ (task'[r].pc = "done" /\ task'[r].answer = "tokens" /\ task'[r].token = t.token)
      BY <2>2, ReplayAsks
    <2> HIDE DEF t, n
    <2> QED
      BY <2>1, <2>2, <2>3 DEF Advances, Asks
  <1>5. CASE ReadGrant(r)
    <2> DEFINE s == mapping[x.token]
               u == [x EXCEPT !.pc = "upstream", !.session = s, !.rt = stored[s]]
               f == Raised(x, "unmapped")
    <2>1. /\ x.pc = "exchange" /\ UNCHANGED <<mapping, metadata>>
          /\ (s = NoSession /\ Becomes(r, f)) \/ (s # NoSession /\ Becomes(r, u))
      BY <1>5 DEF ReadGrant, At, stores
    <2>2. /\ u.pc = "upstream" /\ u.token = x.token /\ u.locked = x.locked
          /\ u.session = s /\ u.rt = stored[s]
          /\ f.pc = "failed" /\ f.token = x.token /\ f.client = x.client
      <3>1. /\ u.pc = "upstream" /\ u.token = x.token /\ u.locked = x.locked
            /\ u.session = s /\ u.rt = stored[s]
        BY <1>a DEF Task
      <3>2. f.pc = "failed" /\ f.token = x.token /\ f.client = x.client
        BY <1>a, RaisedFields
      <3> QED
        BY <3>1, <3>2
    <2>3. (s = NoSession /\ task'[r] = f) \/ (s # NoSession /\ task'[r] = u)
      BY <2>1, BecomesNow
    <2> HIDE DEF u, f
    <2> QED
      BY <2>1, <2>2, <2>3 DEF Advances, Refused, Granted
  <1>6. CASE Issue(r)
    <2> DEFINE n == [x EXCEPT !.pc = "rotate", !.fresh = issued + 1]
    <2>1. x.pc = "issue" /\ Becomes(r, n)
      BY <1>6 DEF Issue, At
    <2>2. n.pc = "rotate" /\ Keeps(x, n) /\ n.fresh = issued + 1
      BY <1>a DEF Task, Keeps
    <2>3. task'[r] = n
      BY <2>1, BecomesNow
    <2> HIDE DEF n
    <2> QED
      BY <1>6, <2>1, <2>2, <2>3 DEF Advances, Granted
  <1>7. CASE Rotate(r) \/ Register(r) \/ Retire(r)
    <2>1. ASSUME NEW k \in {"register", "retire", "record"}
          PROVE  /\ [x EXCEPT !.pc = k].pc = k /\ Keeps(x, [x EXCEPT !.pc = k])
                 /\ [x EXCEPT !.pc = k].fresh = x.fresh
      BY <1>a DEF Task, Keeps
    <2>2. \/ Rotate(r) /\ x.pc = "rotate" /\ Becomes(r, [x EXCEPT !.pc = "register"])
          \/ Register(r) /\ x.pc = "register" /\ Becomes(r, [x EXCEPT !.pc = "retire"])
          \/ Retire(r) /\ x.pc = "retire" /\ Becomes(r, [x EXCEPT !.pc = "record"])
      BY <1>7 DEF Rotate, Register, Retire, At, Goto
    <2>3. PICK k \in {"register", "retire", "record"} :
            /\ Becomes(r, [x EXCEPT !.pc = k])
            /\ \/ Rotate(r) /\ x.pc = "rotate" /\ k = "register"
               \/ Register(r) /\ x.pc = "register" /\ k = "retire"
               \/ Retire(r) /\ x.pc = "retire" /\ k = "record"
      BY <2>2
    <2>4. task'[r] = [x EXCEPT !.pc = k]
      BY <2>3, BecomesNow
    <2> QED
      BY <2>1, <2>3, <2>4 DEF Advances, Granted
  <1>8. CASE Record(r)
    <2>1. x.pc = "record" /\ Becomes(r, Answered(x, "tokens", x.fresh))
      BY <1>8 DEF Record, At
    <2>2. task'[r] = Answered(x, "tokens", x.fresh)
      BY <2>1, BecomesNow
    <2> QED
      BY <1>d, <1>8, <2>1, <2>2 DEF Advances, Granted
  <1>9. CASE Finish(r)
    <2>1. x.pc = "done" /\ task'[r] = Idle(Home)
      BY <1>9, BecomesNow DEF Finish, At
    <2> QED
      BY <1>e, <2>1 DEF Advances, Ended
  <1>10. CASE Upstream(r)
    <2> DEFINE g == [x EXCEPT !.pc = "save", !.rt = NextGeneration(x.session)]
    <2>1. /\ x.pc = "upstream" /\ UNCHANGED <<mapping, metadata>>
          /\ \/ UpstreamGrants(r) /\ Becomes(r, g)
             \/ x.rt # cognito[x.session] /\ Becomes(r, Raised(x, "rejected"))
             \/ \E c \in {"transient", "other"} : Becomes(r, Raised(x, c))
      BY <1>10 DEF Upstream, UpstreamGrants, UpstreamRejects, UpstreamFails, At, stores
    <2>2. g.pc = "save" /\ Keeps(x, g) /\ g.rt = NextGeneration(x.session)
      BY <1>a DEF Task, Keeps
    <2>3. \A c : /\ Raised(x, c).pc = "failed" /\ Raised(x, c).token = x.token
                 /\ Raised(x, c).client = x.client /\ Raised(x, c).cause = c
                 /\ Raised(x, c).answer = AnswerTo(c)
      BY <1>a, RaisedFields
    <2>4. AnswerTo("transient") = "unavailable"
      BY DEF AnswerTo
    <2>5. CASE UpstreamGrants(r) /\ Becomes(r, g)
      <3>1. task'[r] = g
        BY <2>5, BecomesNow
      <3> HIDE DEF g
      <3> QED
        BY <2>1, <2>2, <2>5, <3>1 DEF Advances, Granted
    <2>6. CASE x.rt # cognito[x.session] /\ Becomes(r, Raised(x, "rejected"))
      <3>1. task'[r] = Raised(x, "rejected")
        BY <2>6, BecomesNow
      <3> QED
        BY <2>1, <2>3, <2>6, <3>1 DEF Advances, Refused
    <2>7. ASSUME NEW c \in {"transient", "other"}, Becomes(r, Raised(x, c))
          PROVE  Advances(r, x, task'[r])
      <3>1. task'[r] = Raised(x, c)
        BY <2>7, BecomesNow
      <3>2. task'[r].cause = "other" \/ task'[r].answer = "unavailable"
        BY <2>3, <2>4, <3>1
      <3> QED
        BY <2>1, <2>3, <3>1, <3>2 DEF Advances, Refused
    <2> QED
      BY <2>1, <2>5, <2>6, <2>7
  <1>11. CASE Save(r)
    <2>1. x.pc = "save" /\ UNCHANGED <<mapping, metadata>> /\ Becomes(r, [x EXCEPT !.pc = "issue"])
      BY <1>11, <1>a DEF Save, At, Goto
    <2>2. task'[r] = [x EXCEPT !.pc = "issue"]
      BY <2>1, BecomesNow
    <2>3. [x EXCEPT !.pc = "issue"].pc = "issue" /\ Keeps(x, [x EXCEPT !.pc = "issue"])
      BY <1>a DEF Task, Keeps
    <2> QED
      BY <2>1, <2>2, <2>3 DEF Advances, Granted
  <1>12. CASE Fail(r)
    <2>1. x.pc = "failed" /\ task'[r] = Answered(x, x.answer, 0)
      BY <1>12, BecomesNow DEF Fail, At
    <2> QED
      BY <1>d, <2>1 DEF Advances, Refused
  <1>20. CASE StoreFails(r)
    <2>1. \A c : /\ Raised(x, c).pc = "failed" /\ Raised(x, c).token = x.token
                 /\ Raised(x, c).client = x.client /\ Raised(x, c).answer = AnswerTo(c)
      BY <1>a, RaisedFields
    <2>2. AnswerTo("store") = "server_error" /\ StoreFaults /\ x.pc # "idle"
      BY <1>20 DEF AnswerTo, StoreFails, At, Storing
    <2>3. CASE Becomes(r, Raised(x, "store"))
      <3>1. task'[r] = Raised(x, "store")
        BY <2>3, BecomesNow
      <3> QED
        BY <2>1, <2>2, <3>1 DEF Advances, Refused
    <2>4. CASE Becomes(r, Answered(Raised(x, "store"), "server_error", 0))
      <3>1. task'[r] = Answered(Raised(x, "store"), "server_error", 0)
        BY <2>4, BecomesNow
      <3>2. /\ task'[r].pc = "done" /\ task'[r].token = x.token /\ task'[r].client = x.client
            /\ task'[r].answer = "server_error"
        BY <1>d, <2>1, <3>1
      <3> QED
        BY <2>2, <3>2 DEF Advances, Refused
    <2> QED
      BY <1>20, <2>3, <2>4 DEF StoreFails
  <1>13. ASSUME NEW p \in Replica, Crash(p) PROVE Advances(r, x, task'[r])
    <2>1. task'[r] = Idle(Home) \/ task'[r] = x
      BY <1>13, <1>a DEF Crash
    <2> QED
      BY <1>e, <1>13, <2>1 DEF Advances, Ended
  <1>14. ASSUME NEW q \in Request \ {r},
                \/ \E p \in Replica, c \in Client, t \in Token : Present(q, p, c, t)
                \/ Exchange(q) \/ Finish(q)
         PROVE  Advances(r, x, task'[r])
    <2>1. \E n : Becomes(q, n)
      BY <1>14 DEF Present, ReplayOr, Exchange, Load, Resolve, Acquire, ReadGrant, Issue, Rotate,
                   Register, Retire, Record, Finish, Goto
    <2> QED
      BY <1>c, <2>1, Bounds
  <1>15. ASSUME NEW b \in Background,
                \/ \E p \in Replica, s \in Session : StartBackground(b, p, s)
                \/ AcquireBackground(b)
         PROVE  Advances(r, x, task'[r])
    <2>1. \E n : Becomes(b, n)
      BY <1>15 DEF StartBackground, AcquireBackground
    <2> QED
      BY <1>a, <1>c, <2>1, Bounds
  <1>16. ASSUME NEW w \in Worker \ {r}, Upstream(w) \/ Save(w) \/ StoreFails(w) \/ Fail(w)
         PROVE  Advances(r, x, task'[r])
    <2>1. \E n : Becomes(w, n)
      BY <1>16 DEF Upstream, UpstreamGrants, UpstreamRejects, UpstreamFails, Save, StoreFails,
                   Fail, Goto
    <2> QED
      BY <1>c, <2>1
  <1>17. CASE SignsIn \/ Tick \/ (\E s \in Session : Revoke(s)) \/ UNCHANGED vars
    BY <1>b, <1>17 DEF SignsIn, SignIn, Tick, Revoke, vars
  <1>18. ASSUME NEW q \in Request,
                \/ \E p \in Replica, c \in Client, t \in Token : Present(q, p, c, t)
                \/ Exchange(q) \/ Finish(q)
         PROVE  Advances(r, x, task'[r])
    BY <1>1, <1>2, <1>3, <1>4, <1>5, <1>6, <1>7, <1>8, <1>9, <1>14, <1>18 DEF Exchange
  <1>19. ASSUME NEW w \in Worker, Upstream(w) \/ Save(w) \/ StoreFails(w) \/ Fail(w)
         PROVE  Advances(r, x, task'[r])
    BY <1>10, <1>11, <1>12, <1>16, <1>19, <1>20
  <1> QED
    BY <1>13, <1>15, <1>17, <1>18, <1>19 DEF Next, SignsIn

\* Which steps write the parents, what clients hold, and Cognito's tokens.
LEMMA WhoElseWrites ==
  ASSUME [Next]_vars
  PROVE  /\ \/ UNCHANGED <<issued, parent>>
            \/ SignsIn \/ \E r \in Request : Issue(r)
         /\ \/ UNCHANGED handed
            \/ SignsIn \/ \E r \in Request : Record(r)
         /\ \/ UNCHANGED cognito
            \/ SignsIn
            \/ \E w \in Worker : UpstreamGrants(w) \/ UpstreamFails(w)
            \/ \E s \in Session : Revoke(s)
  <1> USE DEF stores, history
  <1> DEFINE Same == UNCHANGED <<issued, parent, handed, cognito>>
  <1>1. ASSUME NEW r \in Request
        PROVE  /\ Load(r) \/ Resolve(r) \/ Acquire(r) \/ ReadGrant(r) \/ Finish(r) => Same
               /\ Rotate(r) \/ Register(r) \/ Retire(r) => Same
               /\ Issue(r) => UNCHANGED <<handed, cognito>>
               /\ Record(r) => UNCHANGED <<issued, parent, cognito>>
    BY DEF Load, Resolve, Acquire, ReadGrant, Finish, Rotate, Register, Retire, Issue, Record
  <1>2. ASSUME NEW b \in Background
        PROVE  AcquireBackground(b)
               \/ (\E p \in Replica, s \in Session : StartBackground(b, p, s)) => Same
    BY DEF AcquireBackground, StartBackground
  <1>3. ASSUME NEW w \in Worker
        PROVE  /\ Upstream(w) => UNCHANGED <<issued, parent, handed>>
               /\ UpstreamRejects(w) \/ Save(w) \/ StoreFails(w) \/ Fail(w) => Same
    BY DEF Upstream, UpstreamGrants, UpstreamRejects, UpstreamFails, Save, StoreFails, Fail
  <1>4. ASSUME NEW s \in Session PROVE Revoke(s) => UNCHANGED <<issued, parent, handed>>
    BY DEF Revoke
  <1>5. Presents \/ Tick \/ (\E p \in Replica : Crash(p)) \/ UNCHANGED vars => Same
    BY DEF Presents, Present, Tick, Crash, vars
  <1>6. CASE SignsIn
    BY <1>6
  <1>7. CASE \E r \in Request : Exchange(r) \/ Finish(r)
    BY <1>1, <1>7 DEF Exchange
  <1>8. CASE \/ \E b \in Background : \/ AcquireBackground(b)
                                      \/ \E p \in Replica, s \in Session : StartBackground(b, p, s)
             \/ Presents \/ Tick \/ (\E p \in Replica : Crash(p)) \/ UNCHANGED vars
    <2>1. Same
      BY <1>2, <1>5, <1>8
    <2> QED
      BY <2>1
  <1>9. CASE \E w \in Worker : Upstream(w) \/ Save(w) \/ StoreFails(w) \/ Fail(w)
    BY <1>3, <1>9 DEF Upstream
  <1>10. CASE \E s \in Session : Revoke(s)
    BY <1>4, <1>10
  <1> QED
    BY <1>6, <1>7, <1>8, <1>9, <1>10 DEF Next, SignsIn, Presents

-----------------------------------------------------------------------------
(***************************************************************************)
(* A refresh token is exchanged once.  Whoever is being granted tokens     *)
(* holds the session lock, its token has none yet, and a token that has a  *)
(* successor is spent as soon as the one who got it leaves "rotate".       *)
(***************************************************************************)
Granting == {"upstream", "save", "issue"}

GrantsHeld ==
  \A r \in Request : task[r].pc \in Granting \cup WithFresh => task[r].locked

BeingRotated(t) == \E r \in Request : At(r, "rotate") /\ task[r].token = t

ParentsIssued == \A n \in Token : parent[n] \in 0..issued /\ (n > issued => parent[n] = 0)

SuccessorInv ==
  /\ \A r \in Request : task[r].pc \in Granting => ~Exchanged(task[r].token)
  /\ \A t \in Token : mapping[t] # NoSession /\ Exchanged(t) => BeingRotated(t)
  /\ ParentsIssued
  /\ OneSuccessor

\* Two requests inside the lock for the same token are one.
LEMMA OneHolder ==
  ASSUME \A p, q \in Replica : p = q, TypeOK, ClientInv, LockInv,
         NEW q \in Request, NEW r \in Request,
         task[q].locked, task[r].locked, task[q].token = task[r].token
  PROVE  q = r
  <1>1. task[q].session = task[r].session
    BY DEF ClientInv, Rightful
  <1>2. task[q].replica = task[r].replica
    BY Bounds DEF TypeOK, Task
  <1> QED
    BY <1>1, <1>2, Bounds DEF LockInv, HoldsLock

\* A grant stays inside the lock, until its pair is recorded.
LEMMA GrantsHeldNext ==
  ASSUME TypeOK, UpstreamInv, GrantsHeld, [Next]_vars
  PROVE  GrantsHeld'
  <1> SUFFICES ASSUME NEW r \in Request, task'[r].pc \in Granting \cup WithFresh
               PROVE  task'[r].locked
    BY DEF GrantsHeld
  <1> DEFINE x == task[r]
             n == task'[r]
  <1>1. Advances(r, x, n)
    BY RequestAdvances
  <1>2. /\ x.pc \in Granting \cup WithFresh => x.locked
        /\ x.pc = "exchange" /\ ~x.locked => mapping[x.token] = NoSession
    BY Bounds DEF GrantsHeld, UpstreamInv, UnlockedIsSpent
  <1>3. x.locked \in BOOLEAN
    BY Bounds DEF TypeOK, Task
  <1> QED
    BY <1>1, <1>2, <1>3
       DEF Advances, Asks, Refused, Granted, Ended, Keeps, Granting, WithFresh

\* What a sign-in and an exchange enter in the ledger.
LEMMA ParentEntered ==
  ASSUME TypeOK, ParentsIssued, SignsIn \/ \E r \in Request : Issue(r)
  PROVE  /\ issued' = issued + 1 /\ issued + 1 \in Token /\ issued \in Nat
         /\ \A n \in 1..issued : parent'[n] = parent[n]
         /\ \A t \in Token : t # issued + 1 => mapping'[t] = mapping[t]
  <1>1. issued \in Nat /\ parent \in [Token -> 0..MaxToken] /\ MaxToken \in Nat
    BY Bounds DEF TypeOK
  <1>2. CASE SignsIn
    <2>1. PICK s \in Session, c \in Client : SignIn(s, c)
      BY <1>2 DEF SignsIn
    <2>2. issued < MaxToken /\ issued' = issued + 1 /\ UNCHANGED parent
      BY <2>1 DEF SignIn, TokensLeft
    <2>3. \A t \in Token : t # issued + 1 => mapping'[t] = mapping[t]
      BY <2>1 DEF SignIn, TypeOK
    <2> QED
      BY <1>1, <2>2, <2>3 DEF Token
  <1>3. ASSUME NEW r \in Request, Issue(r)
        PROVE  /\ issued' = issued + 1 /\ issued + 1 \in Token /\ issued \in Nat
               /\ \A n \in 1..issued : parent'[n] = parent[n]
               /\ \A t \in Token : t # issued + 1 => mapping'[t] = mapping[t]
    <2>1. issued < MaxToken /\ issued' = issued + 1
      BY <1>3 DEF Issue
    <2>2. \A t \in Token : t # issued + 1 => mapping'[t] = mapping[t] /\ parent'[t] = parent[t]
      BY <1>3 DEF Issue, TypeOK
    <2> QED
      BY <1>1, <2>1, <2>2 DEF Token
  <1> QED
    BY <1>2, <1>3

\* A token has a successor after a step only if it had one, or is being
\* given one.
LEMMA SuccessorFrom ==
  ASSUME TypeOK, ParentsIssued, [Next]_vars, NEW t \in 1..MaxToken, Exchanged(t)'
  PROVE  Exchanged(t) \/ \E q \in Request : Issue(q) /\ task[q].token = t
  <1>1. CASE UNCHANGED <<issued, parent>>
    BY <1>1 DEF Exchanged
  <1>2. CASE SignsIn
    <2>1. UNCHANGED parent /\ issued' = issued + 1 /\ issued + 1 \in Token /\ issued \in Nat
      BY <1>2, ParentEntered DEF SignsIn, SignIn
    <2>2. parent[issued + 1] = 0
      BY <2>1 DEF ParentsIssued
    <2>3. PICK n \in 1..(issued + 1) : parent[n] = t
      BY <2>1 DEF Exchanged
    <2> QED
      BY <2>1, <2>2, <2>3 DEF Exchanged
  <1>3. ASSUME NEW q \in Request, Issue(q)
        PROVE  Exchanged(t) \/ task[q].token = t
    <2>1. /\ issued' = issued + 1 /\ issued + 1 \in Token /\ issued \in Nat
          /\ \A n \in 1..issued : parent'[n] = parent[n]
      BY <1>3, ParentEntered
    <2>2. parent'[issued + 1] = task[q].token
      BY <1>3, <2>1 DEF Issue, TypeOK
    <2>3. PICK n \in 1..(issued + 1) : parent'[n] = t
      BY <2>1 DEF Exchanged
    <2> QED
      BY <2>1, <2>2, <2>3 DEF Exchanged
  <1> QED
    BY <1>1, <1>2, <1>3, WhoElseWrites

\* Whoever is being granted tokens, for a token without any.
LEMMA GrantingNext ==
  ASSUME \A p, q \in Replica : p = q, TypeOK, ClientInv, LockInv, UpstreamInv, GrantsHeld,
         SuccessorInv, [Next]_vars, NEW r \in Request, task'[r].pc \in Granting
  PROVE  ~Exchanged(task[r].token)' /\ task'[r].token = task[r].token
  <1> DEFINE x == task[r]
             n == task'[r]
  <1>a. Advances(r, x, n) /\ x.locked \in BOOLEAN /\ ParentsIssued /\ r \in Worker
    BY RequestAdvances, Bounds DEF SuccessorInv, TypeOK, Task
  <1>1. x.pc \in Granting \cup {"exchange"} /\ n.token = x.token
    BY <1>a DEF Advances, Asks, Refused, Granted, Ended, Keeps, Granting
  <1>2. x.token \in 1..MaxToken
    <2>1. x.pc # "idle"
      BY <1>1 DEF Granting
    <2> QED
      BY <1>a, <2>1 DEF TypeOK, Fits, Token
  <1>3. x.locked /\ ~Exchanged(x.token)
    <2>1. CASE x.pc \in Granting
      BY <2>1 DEF SuccessorInv, GrantsHeld
    <2>2. CASE x.pc = "exchange"
      <3>1. mapping[x.token] # NoSession
        BY <1>a, <2>2 DEF Advances, Asks, Refused, Granted, Ended, Granting
      <3>2. x.locked
        BY <1>a, <2>2, <3>1 DEF UpstreamInv, UnlockedIsSpent
      <3>3. ASSUME Exchanged(x.token) PROVE FALSE
        <4>1. PICK q \in Request : At(q, "rotate") /\ task[q].token = x.token
          BY <1>2, <3>1, <3>3 DEF SuccessorInv, BeingRotated, Token
        <4>2. task[q].locked
          BY <4>1 DEF GrantsHeld, WithFresh, At
        <4>3. q = r
          BY <3>2, <4>1, <4>2, OneHolder
        <4> QED
          BY <2>2, <4>1, <4>3 DEF At
      <3> QED
        BY <3>2, <3>3
    <2> QED
      BY <1>1, <2>1, <2>2
  <1>4. ASSUME NEW q \in Request, Issue(q), task[q].token = x.token PROVE FALSE
    <2>1. task[q].pc = "issue" /\ task[q].locked
      BY <1>4 DEF Issue, At, GrantsHeld, Granting
    <2>2. q = r
      BY <1>3, <1>4, <2>1, OneHolder
    <2>3. task'[r] = [x EXCEPT !.pc = "rotate", !.fresh = issued + 1]
      BY <1>4, <2>2, BecomesNow DEF Issue
    <2>4. n.pc = "rotate"
      BY <2>3, <1>a DEF TypeOK, Task
    <2> QED
      BY <2>4 DEF Granting
  <1> QED
    BY <1>a, <1>1, <1>2, <1>3, <1>4, SuccessorFrom

\* A token that has a successor is spent, or about to be.
LEMMA SpentNext ==
  ASSUME StoreFaults = FALSE, Crashes = FALSE, TypeOK, SuccessorInv, [Next]_vars,
         NEW t \in Token, mapping'[t] # NoSession, Exchanged(t)'
  PROVE  BeingRotated(t)'
  <1>a. t \in 1..MaxToken /\ ParentsIssued
    BY DEF Token, SuccessorInv
  <1>1. CASE \E q \in Request : Issue(q) /\ task[q].token = t
    <2>1. PICK q \in Request : Issue(q) /\ task[q].token = t
      BY <1>1
    <2>2. task'[q] = [task[q] EXCEPT !.pc = "rotate", !.fresh = issued + 1] /\ task[q] \in Task
      BY <2>1, BecomesNow, Bounds DEF Issue, TypeOK
    <2>3. task'[q].pc = "rotate" /\ task'[q].token = t
      BY <2>1, <2>2 DEF Task
    <2> QED
      BY <2>3 DEF BeingRotated, At
  <1>2. CASE Exchanged(t)
    <2>1. mapping[t] # NoSession
      <3>1. CASE UNCHANGED mapping
        BY <3>1
      <3>2. CASE SignsIn \/ \E r \in Request : Issue(r)
        <4>1. issued \in Nat /\ issued + 1 \in Token
          BY <1>a, <3>2, ParentEntered
        <4>2. PICK m \in 1..issued : parent[m] = t
          BY <1>2 DEF Exchanged
        <4>3. m \in Token
          BY <4>1, Bounds DEF Token
        <4>4. t # issued + 1
          BY <4>1, <4>2, <4>3, <1>a DEF ParentsIssued
        <4> QED
          BY <3>2, <4>4, <1>a, ParentEntered
      <3>3. CASE \E r \in Request : Rotate(r)
        BY <3>3 DEF Rotate, TypeOK
      <3> QED
        BY <3>1, <3>2, <3>3, WhoWrites
    <2>2. PICK q \in Request : At(q, "rotate") /\ task[q].token = t
      BY <1>2, <2>1 DEF SuccessorInv, BeingRotated
    <2>3. CASE Rotate(q)
      BY <2>2, <2>3 DEF Rotate, TypeOK
    <2>4. CASE ~Rotate(q)
      <3>1. task'[q] = task[q]
        BY <2>2, <2>4, RequestAdvances DEF At, Advances, Asks, Refused, Granted, Ended, Crash
      <3> QED
        BY <2>2, <3>1 DEF BeingRotated, At
    <2> QED
      BY <2>3, <2>4
  <1> QED
    BY <1>a, <1>1, <1>2, SuccessorFrom

\* A step leaves the parents of what has been issued, and adds that of the new pair.
LEMMA ParentsNext ==
  ASSUME TypeOK, ClientInv, ParentsIssued, [Next]_vars
  PROVE  ParentsIssued'
  <1>1. CASE UNCHANGED <<issued, parent>>
    BY <1>1 DEF ParentsIssued
  <1>2. CASE SignsIn
    <2>1. UNCHANGED parent /\ issued' = issued + 1 /\ issued \in Nat
      BY <1>2, ParentEntered DEF SignsIn, SignIn
    <2> QED
      BY <2>1 DEF ParentsIssued, Token
  <1>3. ASSUME NEW q \in Request, Issue(q) PROVE ParentsIssued'
    <2>1. issued' = issued + 1 /\ issued \in Nat /\ issued + 1 \in Token
      BY <1>3, ParentEntered
    <2>2. task[q].token \in 1..issued
      BY <1>3 DEF Issue, At, ClientInv, Rightful, PastLoad, Belongs
    <2>3. parent' = [parent EXCEPT ![issued + 1] = task[q].token] /\ parent \in [Token -> 0..MaxToken]
      BY <1>3 DEF Issue, TypeOK
    <2> QED
      BY <2>1, <2>2, <2>3 DEF ParentsIssued, Token
  <1> QED
    BY <1>1, <1>2, <1>3, WhoElseWrites

\* The token exchanged has not been exchanged before.
LEMMA OneSuccessorNext ==
  ASSUME TypeOK, SuccessorInv, [Next]_vars
  PROVE  OneSuccessor'
  <1>1. CASE UNCHANGED <<issued, parent>>
    BY <1>1 DEF SuccessorInv, OneSuccessor
  <1>2. CASE SignsIn
    <2>1. ParentsIssued /\ UNCHANGED parent
      BY <1>2 DEF SuccessorInv, SignsIn, SignIn
    <2>2. issued' = issued + 1 /\ issued \in Nat /\ issued + 1 \in Token
      BY <1>2, <2>1, ParentEntered
    <2>3. parent[issued + 1] = 0
      BY <2>1, <2>2 DEF ParentsIssued
    <2> QED
      BY <2>1, <2>2, <2>3 DEF SuccessorInv, OneSuccessor
  <1>3. ASSUME NEW q \in Request, Issue(q) PROVE OneSuccessor'
    <2>1. /\ issued' = issued + 1 /\ issued \in Nat /\ issued + 1 \in Token
          /\ \A n \in 1..issued : parent'[n] = parent[n]
      BY <1>3, ParentEntered DEF SuccessorInv
    <2>2. parent'[issued + 1] = task[q].token
      BY <1>3, <2>1 DEF Issue, TypeOK
    <2>3. \A n \in 1..issued : parent[n] # task[q].token
      BY <1>3 DEF Issue, At, SuccessorInv, Granting, Exchanged
    <2> QED
      BY <2>1, <2>2, <2>3 DEF SuccessorInv, OneSuccessor
  <1> QED
    BY <1>1, <1>2, <1>3, WhoElseWrites

\* Every step preserves the invariant, once grants are held.
LEMMA SuccessorNext ==
  ASSUME \A p, q \in Replica : p = q, StoreFaults = FALSE, Crashes = FALSE,
         TypeOK, ClientInv, LockInv, UpstreamInv, GrantsHeld, SuccessorInv, [Next]_vars
  PROVE  SuccessorInv'
  <1>1. ASSUME NEW r \in Request, task'[r].pc \in Granting PROVE ~Exchanged(task[r].token)'
    <2> DEFINE t == task[r].token
    <2>1. ~Exchanged(t)' /\ task'[r].token = task[r].token
      BY <1>1, GrantingNext
    <2> QED
      BY <2>1 DEF Exchanged
  <1>2. \A t \in Token : mapping'[t] # NoSession /\ Exchanged(t)' => BeingRotated(t)'
    BY SpentNext
  <1>3. ParentsIssued'
    BY ParentsNext DEF SuccessorInv
  <1>4. OneSuccessor'
    BY OneSuccessorNext
  <1> QED
    BY <1>1, <1>2, <1>3, <1>4 DEF SuccessorInv

\* Nothing has been granted or issued at the start.
LEMMA GrantsHeldInit == Init => GrantsHeld
  BY Bounds DEF Init, GrantsHeld, Granting, WithFresh, Idle

\* No token has a successor at the start.
LEMMA SuccessorInit == Init => SuccessorInv
  BY Bounds DEF Init, SuccessorInv, Granting, Exchanged, ParentsIssued,
     OneSuccessor, Idle

\* With the mapping store up, tokens are granted within the session lock.
LEMMA GrantsHeldCorrect ==
  ASSUME StoreFaults = FALSE
  PROVE  Spec => []GrantsHeld
  <1>1. TypeOK /\ ClientInv /\ UpstreamInv /\ [Next]_vars => UpstreamInv'
    BY UpstreamNext
  <1>2. TypeOK /\ UpstreamInv /\ GrantsHeld /\ [Next]_vars => GrantsHeld'
    BY GrantsHeldNext
  <1> QED
    BY TypeCorrect, ClientCorrect, UpstreamInit, GrantsHeldInit, <1>1, <1>2, PTL DEF Spec

(***************************************************************************)
(* In one process that is not restarted and whose mapping store answers, a *)
(* refresh token is exchanged once: however duplicates, transparent        *)
(* refreshes, failures and revocations interleave, no two pairs are issued *)
(* for it.  A restart between the write of the new mapping and the removal *)
(* of the old one leaves a token that can be exchanged again.              *)
(***************************************************************************)
THEOREM OneSuccessorCorrect ==
  ASSUME \A p, q \in Replica : p = q, StoreFaults = FALSE, Crashes = FALSE
  PROVE  Spec => []OneSuccessor
  <1>1. TypeOK /\ ClientInv /\ UpstreamInv /\ [Next]_vars => UpstreamInv'
    BY UpstreamNext
  <1>2. TypeOK /\ ClientInv /\ LockInv /\ UpstreamInv /\ GrantsHeld /\ SuccessorInv
        /\ [Next]_vars => SuccessorInv'
    BY SuccessorNext
  <1>3. SuccessorInv => OneSuccessor
    BY DEF SuccessorInv
  <1> QED
    BY TypeCorrect, ClientCorrect, LockCorrect, GrantsHeldCorrect, UpstreamInit, SuccessorInit,
       <1>1, <1>2, <1>3, PTL DEF Spec

-----------------------------------------------------------------------------
(***************************************************************************)
(* What clients hold.  Every token a client was sent belongs to some       *)
(* client, and while it can be exchanged the metadata store says to whom.  *)
(***************************************************************************)
Spent(t) == mapping[t] = NoSession

Owned(t) == t \in 1..issued /\ origin[t] \in Session /\ owner[origin[t]] \in Client

Usable(t) == mapping[t] # NoSession => metadata[t] = owner[origin[t]]

Accounted(t) ==
  /\ t.pc # "idle" => t.token \in handed
  /\ t.pc \in Rotating => Spent(t.token)
  /\ t.pc \in {"retire", "record"} => Usable(t.fresh)

HandedInv ==
  /\ \A t \in handed : Owned(t) /\ Usable(t)
  /\ \A r \in Request : Accounted(task[r])

\* Whose a token is never changes.
LEMMA OwnedForGood ==
  ASSUME TypeOK, [Next]_vars, NEW t, Owned(t)
  PROVE  Owned(t)' /\ origin'[t] = origin[t] /\ owner'[origin[t]] = owner[origin[t]]
  <1>1. \A c \in Client : Belongs(t, c) => Belongs(t, c)' /\ origin'[t] = origin[t]
    BY BelongsForGood
  <1>2. Belongs(t, owner[origin[t]])
    BY DEF Owned, Belongs
  <1>3. PICK c \in Client : c = owner[origin[t]]
    BY DEF Owned
  <1>4. Belongs(t, c)' /\ origin'[t] = origin[t]
    BY <1>1, <1>2, <1>3
  <1> QED
    BY <1>3, <1>4 DEF Owned, Belongs

\* A spent token stays spent.
LEMMA StaysSpent ==
  ASSUME TypeOK, [Next]_vars, NEW t \in 1..issued, Spent(t)
  PROVE  Spent(t)'
  <1>1. issued \in Nat /\ issued <= MaxToken /\ MaxToken \in Nat /\ t \in Token
    BY Bounds DEF TypeOK, Token
  <1>2. CASE SignsIn
    BY <1>1, <1>2 DEF SignsIn, SignIn, TypeOK, Spent
  <1>3. CASE \E q \in Request : Issue(q)
    BY <1>1, <1>3 DEF Issue, TypeOK, Spent
  <1>4. CASE \E q \in Request : Rotate(q)
    BY <1>1, <1>4 DEF Rotate, TypeOK, Spent
  <1> QED
    BY <1>2, <1>3, <1>4, WhoWrites DEF Spent

\* A token that can be exchanged stays registered for its client.
LEMMA StaysUsable ==
  ASSUME TypeOK, ClientInv, HandedInv, [Next]_vars, NEW t, Owned(t), Usable(t)
  PROVE  Usable(t)'
  <1>1. issued \in Nat /\ issued <= MaxToken /\ MaxToken \in Nat /\ t \in 1..issued /\ t \in Token
    BY Bounds DEF TypeOK, Token, Owned
  <1>2. origin'[t] = origin[t] /\ owner'[origin[t]] = owner[origin[t]]
    BY OwnedForGood
  <1>3. CASE Spent(t)
    BY <1>1, <1>3, StaysSpent DEF Usable, Spent
  <1>4. CASE metadata[t] = owner[origin[t]]
    <2>1. CASE UNCHANGED metadata
      BY <1>2, <1>4, <2>1 DEF Usable
    <2>2. CASE SignsIn
      <3>1. metadata'[t] = metadata[t]
        BY <1>1, <2>2 DEF SignsIn, SignIn, TypeOK
      <3> QED
        BY <1>2, <1>4, <3>1 DEF Usable
    <2>3. ASSUME NEW q \in Request, Register(q) PROVE Usable(t)'
      <3>1. CASE t = task[q].fresh
        <4>1. Belongs(t, task[q].client)
          BY <2>3, <3>1 DEF Register, At, ClientInv, Rightful, WithFresh
        <4>2. metadata'[t] = task[q].client
          BY <1>1, <2>3, <3>1 DEF Register, TypeOK
        <4> QED
          BY <1>2, <4>1, <4>2 DEF Usable, Belongs
      <3>2. CASE t # task[q].fresh
        <4>1. metadata'[t] = metadata[t]
          BY <1>1, <2>3, <3>2 DEF Register, TypeOK
        <4> QED
          BY <1>2, <1>4, <4>1 DEF Usable
      <3> QED
        BY <3>1, <3>2
    <2>4. ASSUME NEW q \in Request, Retire(q) PROVE Usable(t)'
      <3>1. CASE t = task[q].token
        <4>1. Spent(t)
          BY <2>4, <3>1 DEF Retire, At, HandedInv, Accounted, Rotating
        <4> QED
          BY <1>3, <4>1
      <3>2. CASE t # task[q].token
        <4>1. metadata'[t] = metadata[t]
          BY <1>1, <2>4, <3>2 DEF Retire, TypeOK
        <4> QED
          BY <1>2, <1>4, <4>1 DEF Usable
      <3> QED
        BY <3>1, <3>2
    <2> QED
      BY <2>1, <2>2, <2>3, <2>4, WhoWrites
  <1> QED
    BY <1>3, <1>4 DEF Usable, Spent

\* What clients were sent: a sign-in and the end of an exchange add to it.
LEMMA HandedNext ==
  ASSUME TypeOK, ClientInv, HandedInv, [Next]_vars, NEW t \in handed'
  PROVE  Owned(t)' /\ Usable(t)'
  <1>1. CASE t \in handed
    BY <1>1, OwnedForGood, StaysUsable DEF HandedInv
  <1>2. ASSUME NEW s \in Session, NEW c \in Client, SignIn(s, c), t = issued + 1
        PROVE  Owned(t)' /\ Usable(t)'
    <2>1. issued < MaxToken /\ issued \in Nat /\ MaxToken \in Nat /\ t \in Token /\ issued' = issued + 1
      BY <1>2, Bounds DEF SignIn, TokensLeft, TypeOK, Token
    <2>2. origin'[t] = s /\ owner'[s] = c /\ metadata'[t] = c
      BY <1>2, <2>1 DEF SignIn, TypeOK
    <2> QED
      BY <1>2, <2>1, <2>2 DEF Owned, Usable
  <1>3. ASSUME NEW q \in Request, Record(q), t = task[q].fresh
        PROVE  Owned(t)' /\ Usable(t)'
    <2>1. task[q].client \in Client
      BY <1>3, Bounds DEF Record, At, TypeOK, Fits
    <2>2. Owned(t) /\ Usable(t)
      BY <1>3, <2>1 DEF Record, At, ClientInv, Rightful, WithFresh, Belongs, Owned,
                        HandedInv, Accounted
    <2> QED
      BY <2>2, OwnedForGood, StaysUsable
  <1>4. CASE SignsIn
    BY <1>1, <1>2, <1>4 DEF SignsIn, SignIn
  <1>5. CASE \E q \in Request : Record(q)
    BY <1>1, <1>3, <1>5 DEF Record
  <1> QED
    BY <1>1, <1>4, <1>5, WhoElseWrites

\* What a client holds it keeps.
LEMMA HandedStays ==
  ASSUME [Next]_vars
  PROVE  handed \subseteq handed'
  BY WhoElseWrites DEF SignsIn, SignIn, Record

\* A request stands where its step accounts for.
LEMMA AccountedNext ==
  ASSUME TypeOK, ClientInv, HandedInv, [Next]_vars, NEW r \in Request
  PROVE  Accounted(task[r])'
  <1> DEFINE x == task[r]
             n == task'[r]
  <1>. PICK tok, fr : tok = x.token /\ fr = x.fresh
    OBVIOUS
  <1>a. /\ Advances(r, x, n) /\ handed \subseteq handed' /\ r \in Worker
        /\ Accounted(x) /\ Rightful(x) /\ x \in Task /\ Fits(r, x)
    BY RequestAdvances, HandedStays, Bounds DEF HandedInv, ClientInv, TypeOK
  <1>b. x.pc # "idle" => /\ x.token \in handed /\ Owned(x.token)
                         /\ x.token \in Token /\ x.client \in Client
    BY <1>a DEF Accounted, HandedInv, Fits
  <1>c. Spent(x.token) /\ x.pc # "idle" => Spent(tok)'
    BY <1>b, StaysSpent DEF Owned
  <1>d. x.pc \in {"retire", "record"} => Usable(fr)'
    <2>1. x.pc \in {"retire", "record"} => Owned(fr) /\ Usable(fr)
      BY <1>a, <1>b DEF Accounted, Rightful, WithFresh, Belongs, Owned
    <2> QED
      BY <2>1, StaysUsable
  <1>1. CASE n = x
    <2>1. x.pc \in Rotating => Spent(tok)'
      BY <1>a, <1>c DEF Accounted, Rotating
    <2> QED
      BY <1>a, <1>1, <1>d, <2>1 DEF Accounted, Spent, Usable
  <1>2. CASE Asks(x, n)
    BY <1>a, <1>b, <1>2 DEF Asks, Accounted, Rotating
  <1>3. CASE Refused(x, n)
    BY <1>a, <1>b, <1>3 DEF Refused, Accounted, Rotating
  <1>4. CASE Granted(r, x, n)
    <2>1. x.pc # "idle" /\ n.token = x.token /\ n.token \in handed'
      BY <1>4, <1>a, <1>b DEF Granted, Keeps
    <2>2. CASE n.pc \notin Rotating
      BY <1>4, <2>1, <2>2 DEF Granted, Accounted, Rotating
    <2>3. CASE n.pc = "register"
      <3>1. Rotate(r)
        BY <1>4, <2>3 DEF Granted
      <3>2. Spent(tok)'
        BY <1>b, <2>1, <3>1 DEF Rotate, Spent, TypeOK
      <3> QED
        BY <2>1, <2>3, <3>2 DEF Accounted, Spent
    <2>4. CASE n.pc \in {"retire", "record"}
      <3>1. Spent(tok)' /\ n.fresh = x.fresh
        BY <1>4, <1>a, <1>c, <2>1, <2>4 DEF Granted, Accounted, Rotating
      <3>2. Usable(fr)'
        <4>1. CASE n.pc = "record"
          BY <1>4, <1>d, <4>1 DEF Granted
        <4>2. CASE n.pc = "retire"
          <5>1. Register(r) /\ x.pc = "register"
            BY <1>4, <4>2 DEF Granted
          <5>2. Belongs(x.fresh, x.client)
            BY <1>a, <5>1 DEF Rightful, WithFresh
          <5>3. x.fresh \in Token /\ UNCHANGED <<origin, owner>>
            BY <1>a, <5>1 DEF Fits, Register, history
          <5>4. metadata'[x.fresh] = x.client
            BY <5>1, <5>3 DEF Register, TypeOK
          <5> QED
            BY <5>2, <5>3, <5>4 DEF Usable, Belongs
        <4> QED
          BY <2>4, <4>1, <4>2
      <3> QED
        BY <2>1, <2>4, <3>1, <3>2 DEF Accounted, Spent, Usable
    <2> QED
      BY <2>2, <2>3, <2>4 DEF Rotating
  <1>5. CASE Ended(x, n)
    BY <1>5 DEF Ended, Accounted, Rotating
  <1> QED
    BY <1>a, <1>1, <1>2, <1>3, <1>4, <1>5 DEF Advances

\* What clients hold is theirs, whatever fails or is restarted.
LEMMA HandedCorrect == Spec => []HandedInv
  <1>1. Init => HandedInv
    BY Bounds DEF Init, HandedInv, Accounted, Rotating, Idle
  <1>2. TypeOK /\ ClientInv /\ HandedInv /\ [Next]_vars => HandedInv'
    <2> HAVE TypeOK /\ ClientInv /\ HandedInv /\ [Next]_vars
    <2>1. \A r \in Request : Accounted(task[r])'
      BY AccountedNext
    <2>2. \A t \in handed' : Owned(t)' /\ Usable(t)'
      BY HandedNext
    <2> QED
      BY <2>1, <2>2 DEF HandedInv
  <1> QED
    BY TypeCorrect, ClientCorrect, <1>1, <1>2, PTL DEF Spec

-----------------------------------------------------------------------------
(***************************************************************************)
(* A token loses its session only to the pair it was exchanged for: the    *)
(* new pair is written before the old mapping is removed, and nothing else *)
(* removes one.                                                            *)
(***************************************************************************)
ExchangedInv ==
  /\ \A r \in Request : task[r].pc \in WithFresh => Exchanged(task[r].token)
  /\ \A t \in 1..issued : Spent(t) => Exchanged(t)

\* A token that was exchanged stays so.
LEMMA ExchangedForGood ==
  ASSUME TypeOK, [Next]_vars, NEW t, Exchanged(t)
  PROVE  Exchanged(t)'
  <1>1. PICK m \in 1..issued : parent[m] = t
    BY DEF Exchanged
  <1>2. issued \in Nat /\ MaxToken \in Nat /\ issued <= MaxToken /\ m \in Token
        /\ parent \in [Token -> 0..MaxToken]
    BY Bounds DEF TypeOK, Token
  <1>3. CASE SignsIn
    <2>1. issued' = issued + 1 /\ UNCHANGED parent
      BY <1>3 DEF SignsIn, SignIn
    <2> QED
      BY <1>1, <1>2, <2>1 DEF Exchanged
  <1>4. ASSUME NEW q \in Request, Issue(q) PROVE Exchanged(t)'
    <2>1. issued' = issued + 1 /\ parent'[m] = parent[m]
      BY <1>2, <1>4 DEF Issue
    <2> QED
      BY <1>1, <1>2, <2>1 DEF Exchanged
  <1> QED
    BY <1>3, <1>4, WhoElseWrites DEF Exchanged

\* Every step preserves it: an exchange issues before it removes.
LEMMA ExchangedNext ==
  ASSUME TypeOK, ExchangedInv, [Next]_vars
  PROVE  ExchangedInv'
  <1>a. issued \in Nat /\ MaxToken \in Nat /\ issued <= MaxToken
    BY Bounds DEF TypeOK
  <1>1. ASSUME NEW r \in Request, task'[r].pc \in WithFresh PROVE Exchanged(task[r].token)'
    <2>. PICK tok : tok = task'[r].token
      OBVIOUS
    <2>1. CASE Issue(r)
      <3>1. issued' = issued + 1 /\ issued + 1 \in Token /\ issued < MaxToken
        BY <1>a, <2>1 DEF Issue, Token
      <3>2. parent'[issued + 1] = task[r].token
        BY <2>1, <3>1 DEF Issue, TypeOK
      <3>3. task'[r] = [task[r] EXCEPT !.pc = "rotate", !.fresh = issued + 1] /\ task[r] \in Task
        BY <2>1, BecomesNow, Bounds DEF Issue, TypeOK
      <3>4. task'[r].token = task[r].token
        BY <3>3 DEF Task
      <3> QED
        BY <1>a, <3>1, <3>2, <3>4 DEF Exchanged
    <2>2. CASE ~Issue(r)
      <3>1. task[r].pc \in WithFresh /\ tok = task[r].token
        BY <1>1, <2>2, RequestAdvances
           DEF Advances, Asks, Refused, Granted, Ended, Keeps, WithFresh
      <3>2. Exchanged(tok)'
        BY <3>1, ExchangedForGood DEF ExchangedInv
      <3> QED
        BY <3>2 DEF Exchanged
    <2> QED
      BY <2>1, <2>2
  <1>2. ASSUME NEW t \in 1..issued', mapping'[t] = NoSession PROVE Exchanged(t)'
    <2>1. CASE t \in 1..issued /\ mapping[t] = NoSession
      BY <2>1, ExchangedForGood DEF ExchangedInv, Spent
    <2>2. CASE ~(t \in 1..issued /\ mapping[t] = NoSession)
      <3>1. ASSUME NEW s \in Session, NEW c \in Client, SignIn(s, c) PROVE FALSE
        <4>1. issued' = issued + 1 /\ issued + 1 \in Token /\ mapping' = [mapping EXCEPT ![issued + 1] = s]
          BY <1>a, <3>1 DEF SignIn, TokensLeft, Token
        <4> QED
          BY <1>2, <1>a, <2>2, <4>1, Bounds DEF TypeOK
      <3>2. ASSUME NEW q \in Request, Issue(q) PROVE FALSE
        <4>1. /\ issued' = issued + 1 /\ issued + 1 \in Token
              /\ mapping' = [mapping EXCEPT ![issued + 1] = task[q].session]
          BY <1>a, <3>2 DEF Issue, Token
        <4>2. task[q].session \in Session
          BY <3>2, Bounds DEF Issue, At, TypeOK, Fits
        <4> QED
          BY <1>2, <1>a, <2>2, <4>1, <4>2, Bounds DEF TypeOK
      <3>3. ASSUME NEW q \in Request, Rotate(q) PROVE Exchanged(t)'
        <4>1. t = task[q].token
          BY <1>2, <2>2, <3>3 DEF Rotate, TypeOK
        <4>2. Exchanged(t)
          BY <3>3, <4>1 DEF Rotate, At, ExchangedInv, WithFresh
        <4> QED
          BY <4>2, ExchangedForGood
      <3>4. CASE UNCHANGED <<mapping, issued>>
        BY <1>2, <2>2, <3>4
      <3>5. UNCHANGED issued \/ SignsIn \/ \E q \in Request : Issue(q)
        BY WhoElseWrites
      <3> QED
        BY <3>1, <3>2, <3>3, <3>4, <3>5, WhoWrites DEF SignsIn
    <2> QED
      BY <2>1, <2>2
  <1> QED
    BY <1>1, <1>2 DEF ExchangedInv, Spent

\* A token without a session was exchanged, whatever fails or is restarted.
LEMMA ExchangedCorrect == Spec => []ExchangedInv
  <1>1. Init => ExchangedInv
    BY Bounds DEF Init, ExchangedInv, WithFresh, Idle
  <1>2. TypeOK /\ ExchangedInv /\ [Next]_vars => ExchangedInv'
    BY ExchangedNext
  <1> QED
    BY TypeCorrect, <1>1, <1>2, PTL DEF Spec

-----------------------------------------------------------------------------
(***************************************************************************)
(* A rejection is deserved: a token the stores do not hold for the client  *)
(* was exchanged or is another's, while nothing spent is presented Cognito *)
(* rejects only what it has revoked, and no transient failure and no store *)
(* that raised is answered as a rejection.                                 *)
(***************************************************************************)
Deserved(t, c) ==
  Exchanged(t) \/ owner[origin[t]] # c \/ cognito[origin[t]] = 0

Justified(t) ==
  t.pc \in {"failed", "done"} /\ t.answer = "invalid_grant" =>
    t.cause = "other" \/ Deserved(t.token, t.client)

RejectionInv == \A r \in Request : Justified(task[r])

\* What deserves a rejection goes on deserving it.
LEMMA StaysDeserved ==
  ASSUME TypeOK, [Next]_vars, NEW t, NEW c, Owned(t), Deserved(t, c)
  PROVE  Deserved(t, c)'
  <1>1. t \in 1..issued /\ origin[t] \in Session /\ owner[origin[t]] # NoClient
    BY Bounds DEF Owned
  <1>2. origin'[t] = origin[t] /\ owner'[origin[t]] = owner[origin[t]]
    BY OwnedForGood
  <1>3. CASE Exchanged(t)
    BY <1>3, ExchangedForGood DEF Deserved
  <1>4. CASE owner[origin[t]] # c
    BY <1>2, <1>4 DEF Deserved
  <1>5. CASE cognito[origin[t]] = 0
    <2> DEFINE o == origin[t]
    <2>1. ASSUME NEW s \in Session, NEW d \in Client, SignIn(s, d) PROVE cognito'[o] = 0
      BY <1>1, <1>5, <2>1 DEF SignIn, TypeOK
    <2>2. ASSUME NEW w \in Worker, UpstreamGrants(w) \/ UpstreamFails(w) PROVE cognito'[o] = 0
      BY <1>1, <1>5, <2>2 DEF UpstreamGrants, UpstreamFails, TypeOK
    <2>3. ASSUME NEW s \in Session, Revoke(s) PROVE cognito'[o] = 0
      BY <1>1, <1>5, <2>3 DEF Revoke, TypeOK
    <2>4. cognito'[origin[t]] = 0
      BY <1>1, <1>5, <2>1, <2>2, <2>3, WhoElseWrites DEF SignsIn
    <2> QED
      BY <1>2, <2>4 DEF Deserved
  <1> QED
    BY <1>3, <1>4, <1>5 DEF Deserved

\* Every step preserves it, while nothing spent is presented.
LEMMA RejectionNext ==
  ASSUME TypeOK, ClientInv, HandedInv, ExchangedInv, RejectionInv, NothingSpentIsPresented,
         [Next]_vars
  PROVE  RejectionInv'
  <1> SUFFICES ASSUME NEW r \in Request,
                      task'[r].pc \in {"failed", "done"}, task'[r].answer = "invalid_grant",
                      task'[r].cause # "other"
               PROVE  Deserved(task[r].token, task[r].client)'
    BY DEF RejectionInv, Justified
  <1> DEFINE x == task[r]
             n == task'[r]
  <1>. PICK tok, cl : tok = x.token /\ cl = x.client
    OBVIOUS
  <1>a. /\ Advances(r, x, n) /\ r \in Worker
        /\ Accounted(x) /\ Justified(x) /\ Rightful(x) /\ x \in Task /\ Fits(r, x)
    BY RequestAdvances, Bounds DEF HandedInv, RejectionInv, ClientInv, TypeOK
  <1>b. x.pc # "idle" => Owned(tok) /\ Usable(tok) /\ x.client \in Client
    BY <1>a DEF Accounted, HandedInv, Fits
  <1>1. Deserved(tok, cl) /\ x.pc # "idle" /\ n.token = tok /\ n.client = cl
    <2>1. CASE n = x
      BY <1>a, <2>1 DEF Justified
    <2>2. CASE Refused(x, n)
      <3>1. CASE x.pc = "load" /\ metadata[x.token] # x.client
        BY <1>b, <2>2, <3>1 DEF Refused, Usable, Deserved, Spent, Owned, ExchangedInv
      <3>2. CASE x.pc = "exchange" /\ mapping[x.token] = NoSession
        BY <1>b, <2>2, <3>2 DEF Refused, Deserved, Spent, Owned, ExchangedInv
      <3>3. CASE x.pc = "upstream" /\ x.rt # cognito[x.session]
        <4>1. cognito[x.session] = 0
          BY <1>a, <3>3 DEF NothingSpentIsPresented, At
        <4>2. x.session = origin[x.token]
          BY <1>a, <3>3 DEF Rightful, WithSession
        <4> QED
          BY <2>2, <3>3, <4>1, <4>2 DEF Refused, Deserved
      <3>4. CASE x.pc = "failed" /\ n.answer = x.answer /\ n.cause = x.cause
        BY <1>a, <2>2, <3>4 DEF Refused, Justified
      <3> QED
        BY <2>2, <3>1, <3>2, <3>3, <3>4 DEF Refused
    <2> QED
      BY <1>a, <2>1, <2>2 DEF Advances, Asks, Granted, Ended
  <1>2. Deserved(tok, cl)'
    BY <1>b, <1>1, StaysDeserved
  <1> QED
    BY <1>1, <1>2 DEF Deserved, Exchanged

\* The rejections of a server that presents nothing Cognito has spent.
LEMMA RejectionCorrect ==
  Spec /\ []NothingSpentIsPresented => []RejectionIsDeserved
  <1>1. RejectionInv => RejectionIsDeserved
    BY DEF RejectionInv, Justified, Deserved, RejectionIsDeserved, At
  <1>2. TypeOK /\ ClientInv /\ HandedInv /\ ExchangedInv /\ RejectionInv
        /\ NothingSpentIsPresented /\ [Next]_vars => RejectionInv'
    BY RejectionNext
  <1>3. Init => RejectionInv
    BY Bounds DEF Init, RejectionInv, Justified, Idle
  <1> QED
    BY TypeCorrect, ClientCorrect, HandedCorrect, ExchangedCorrect, <1>1, <1>2, <1>3, PTL
       DEF Spec

(***************************************************************************)
(* Under the conditions of NothingSpentCorrect, invalid_grant is answered  *)
(* only for a token already exchanged, for one of another client, for a    *)
(* session Cognito revoked, or when the upstream call failed for a reason  *)
(* that is not transient.                                                  *)
(***************************************************************************)
THEOREM RejectionIsDeservedCorrect ==
  ASSUME \A p, q \in Replica : p = q, StoreFaults = FALSE, AnswersLost = FALSE, Crashes = FALSE
  PROVE  Spec => []RejectionIsDeserved
  BY NothingSpentCorrect, RejectionCorrect, PTL

-----------------------------------------------------------------------------
(***************************************************************************)
(* While Cognito keeps its refresh token on use, which is what its app     *)
(* client does unless rotation is switched on, nothing is ever spent:      *)
(* there is one generation, whatever is lost or restarted.                 *)
(***************************************************************************)
BackgroundAdvances(b, t, n) ==
  \/ n = t
  \/ n.pc \in {"idle", "failed"}
  \/ t.pc = "idle" /\ n.pc = "queue" /\ n.session \in Session /\ owner[n.session] # NoClient
  \/ t.pc = "queue" /\ n.pc = "upstream" /\ n.rt = stored[t.session]
  \/ t.pc = "upstream" /\ n.pc = "save" /\ UpstreamGrants(b) /\ n.rt = NextGeneration(t.session)

\* Every step takes a background refresh along one of the paths above.
LEMMA RefreshAdvances ==
  ASSUME TypeOK, [Next]_vars, NEW b \in Background
  PROVE  BackgroundAdvances(b, task[b], task'[b])
  <1> DEFINE x == task[b]
  <1>a. x \in Task /\ b \in Worker /\ b \notin Request
    BY Bounds DEF TypeOK
  <1>b. ASSUME NEW n, Becomes(b, n) PROVE task'[b] = n
    BY <1>a, <1>b DEF Becomes, TypeOK
  <1>c. ASSUME NEW w \in Worker \ {b}, \E n : Becomes(w, n) PROVE task'[b] = x
    BY <1>a, <1>c DEF Becomes, TypeOK
  <1>d. ASSUME NEW p PROVE Idle(p).pc = "idle"
    BY DEF Idle
  <1>1. ASSUME NEW p \in Replica, NEW s \in Session, StartBackground(b, p, s)
        PROVE  BackgroundAdvances(b, x, task'[b])
    <2> DEFINE n == [Idle(p) EXCEPT !.pc = "queue", !.session = s]
    <2>1. n.pc = "queue" /\ n.session = s
      BY DEF Idle
    <2>2. task'[b] = n /\ x.pc = "idle" /\ owner[s] # NoClient
      BY <1>1, <1>b DEF StartBackground, At
    <2> HIDE DEF n
    <2> QED
      BY <2>1, <2>2 DEF BackgroundAdvances
  <1>2. CASE AcquireBackground(b)
    <2> DEFINE u == [x EXCEPT !.pc = "upstream", !.locked = TRUE, !.rt = stored[x.session]]
    <2>1. u.pc = "upstream" /\ u.rt = stored[x.session]
      BY <1>a DEF Task
    <2>2. x.pc = "queue" /\ (task'[b] = Idle(Home) \/ task'[b] = u)
      BY <1>2, <1>b DEF AcquireBackground, At
    <2> HIDE DEF u
    <2> QED
      BY <1>d, <2>1, <2>2 DEF BackgroundAdvances
  <1>3. CASE Upstream(b)
    <2> DEFINE g == [x EXCEPT !.pc = "save", !.rt = NextGeneration(x.session)]
    <2>1. g.pc = "save" /\ g.rt = NextGeneration(x.session)
      BY <1>a DEF Task
    <2>2. CASE UpstreamGrants(b)
      <3>1. x.pc = "upstream" /\ task'[b] = g
        BY <2>2, <1>b DEF UpstreamGrants, At
      <3> HIDE DEF g
      <3> QED
        BY <2>1, <2>2, <3>1 DEF BackgroundAdvances
    <2>3. CASE UpstreamRejects(b) \/ UpstreamFails(b)
      <3>1. PICK c \in UpstreamCauses : Becomes(b, Raised(x, c))
        BY <1>a, <2>3, UpstreamRaises
      <3>2. task'[b] = Raised(x, c) /\ Raised(x, c).pc = "failed"
        BY <1>a, <1>b, <3>1, RaisedFields
      <3> QED
        BY <3>2 DEF BackgroundAdvances
    <2> QED
      BY <1>3, <2>2, <2>3 DEF Upstream
  <1>4. CASE Save(b) \/ Fail(b)
    <2>1. task'[b] = Idle(Home)
      BY <1>4, <1>a, <1>b DEF Save, Fail
    <2> QED
      BY <1>d, <2>1 DEF BackgroundAdvances
  <1>12. CASE StoreFails(b)
    <2>1. Raised(x, "store").pc = "failed" /\ x.pc # "load"
      <3>1. x.pc # "load"
        BY <1>a DEF TypeOK, Fits
      <3> QED
        BY <1>a, <3>1, RaisedFields
    <2>2. task'[b] = Raised(x, "store")
      BY <1>12, <1>b, <2>1 DEF StoreFails, At
    <2> QED
      BY <2>1, <2>2 DEF BackgroundAdvances
  <1>5. ASSUME NEW p \in Replica, Crash(p) PROVE BackgroundAdvances(b, x, task'[b])
    <2>1. task'[b] = Idle(Home) \/ task'[b] = x
      BY <1>5, <1>a DEF Crash
    <2> QED
      BY <1>d, <2>1 DEF BackgroundAdvances
  <1>6. ASSUME NEW q \in Request,
               \/ \E p \in Replica, c \in Client, t \in Token : Present(q, p, c, t)
               \/ Exchange(q) \/ Finish(q)
        PROVE  BackgroundAdvances(b, x, task'[b])
    <2>1. \E n : Becomes(q, n)
      BY <1>6 DEF Present, ReplayOr, Exchange, Load, Resolve, Acquire, ReadGrant, Issue, Rotate,
                  Register, Retire, Record, Finish, Goto
    <2> QED
      BY <1>a, <1>c, <2>1, Bounds DEF BackgroundAdvances
  <1>7. ASSUME NEW v \in Background \ {b},
               \/ \E p \in Replica, s \in Session : StartBackground(v, p, s)
               \/ AcquireBackground(v)
        PROVE  BackgroundAdvances(b, x, task'[b])
    <2>1. \E n : Becomes(v, n)
      BY <1>7 DEF StartBackground, AcquireBackground
    <2> QED
      BY <1>a, <1>c, <2>1, Bounds DEF BackgroundAdvances
  <1>8. ASSUME NEW w \in Worker \ {b}, Upstream(w) \/ Save(w) \/ StoreFails(w) \/ Fail(w)
        PROVE  BackgroundAdvances(b, x, task'[b])
    <2>1. \E n : Becomes(w, n)
      BY <1>8 DEF Upstream, UpstreamGrants, UpstreamRejects, UpstreamFails, Save, StoreFails,
                  Fail, Goto
    <2> QED
      BY <1>c, <2>1 DEF BackgroundAdvances
  <1>9. CASE SignsIn \/ Tick \/ (\E s \in Session : Revoke(s)) \/ UNCHANGED vars
    BY <1>9 DEF SignsIn, SignIn, Tick, Revoke, vars, BackgroundAdvances
  <1>10. ASSUME NEW v \in Background,
                \/ \E p \in Replica, s \in Session : StartBackground(v, p, s)
                \/ AcquireBackground(v)
         PROVE  BackgroundAdvances(b, x, task'[b])
    BY <1>1, <1>2, <1>7, <1>10
  <1>11. ASSUME NEW w \in Worker, Upstream(w) \/ Save(w) \/ StoreFails(w) \/ Fail(w)
         PROVE  BackgroundAdvances(b, x, task'[b])
    BY <1>3, <1>4, <1>8, <1>11, <1>12
  <1> QED
    BY <1>5, <1>6, <1>9, <1>10, <1>11 DEF Next, SignsIn

SteadyInv ==
  /\ \A s \in Session : cognito[s] \in {0, 1} /\ (owner[s] # NoClient => stored[s] = 1)
  /\ \A w \in Worker : task[w].pc \in {"upstream", "save"} => task[w].rt = 1
  /\ \A b \in Background : task[b].pc = "queue" => owner[task[b].session] # NoClient

\* Which steps write the token set and its owner.
LEMMA WhoSaves ==
  ASSUME [Next]_vars
  PROVE  UNCHANGED <<stored, owner>> \/ SignsIn \/ \E w \in Worker : Save(w)
  <1> USE DEF stores
  <1>1. ASSUME NEW r \in Request
        PROVE  Exchange(r) \/ Finish(r) => UNCHANGED <<stored, owner>>
    BY DEF Exchange, Load, Resolve, Acquire, ReadGrant, Finish, Rotate, Register, Retire, Issue, Record
  <1>2. ASSUME NEW b \in Background
        PROVE  AcquireBackground(b)
               \/ (\E p \in Replica, s \in Session : StartBackground(b, p, s))
               => UNCHANGED <<stored, owner>>
    BY DEF AcquireBackground, StartBackground
  <1>3. ASSUME NEW w \in Worker
        PROVE  Upstream(w) \/ StoreFails(w) \/ Fail(w) => UNCHANGED <<stored, owner>>
    BY DEF Upstream, UpstreamGrants, UpstreamRejects, UpstreamFails, StoreFails, Fail
  <1>4. \/ Presents \/ Tick \/ \E p \in Replica : Crash(p)
        \/ \E s \in Session : Revoke(s)
        \/ UNCHANGED vars
        => UNCHANGED <<stored, owner>>
    BY DEF Presents, Present, Tick, Crash, Revoke, vars
  <1> QED
    BY <1>1, <1>2, <1>3, <1>4 DEF Next, SignsIn, Presents

\* Every step preserves it, while Cognito does not rotate.
LEMMA SteadyNext ==
  ASSUME UpstreamRotates = FALSE, TypeOK, ClientInv, SteadyInv, [Next]_vars
  PROVE  SteadyInv'
  <1>a. ASSUME NEW w \in Worker, At(w, "upstream"), UpstreamGrants(w) \/ UpstreamFails(w)
        PROVE  /\ task[w].session \in Session /\ NextGeneration(task[w].session) = cognito[task[w].session]
               /\ UpstreamGrants(w) => task[w].rt = cognito[task[w].session]
               /\ UNCHANGED cognito
    <2>1. task[w].session \in Session
      BY <1>a DEF At, TypeOK, Fits
    <2> QED
      BY <1>a, <2>1 DEF UpstreamGrants, UpstreamFails, NextGeneration, TypeOK
  <1>1. ASSUME NEW s \in Session PROVE cognito'[s] \in {0, 1}
    <2>1. cognito[s] \in {0, 1}
      BY DEF SteadyInv
    <2>2. ASSUME NEW u \in Session, NEW c \in Client, SignIn(u, c) PROVE cognito'[s] \in {0, 1}
      BY <2>1, <2>2 DEF SignIn, TypeOK
    <2>3. ASSUME NEW u \in Session, Revoke(u) PROVE cognito'[s] \in {0, 1}
      BY <2>1, <2>3 DEF Revoke, TypeOK
    <2>4. ASSUME NEW w \in Worker, UpstreamGrants(w) \/ UpstreamFails(w) PROVE cognito'[s] \in {0, 1}
      BY <1>a, <2>1, <2>4 DEF UpstreamGrants, UpstreamFails
    <2> QED
      BY <2>1, <2>2, <2>3, <2>4, WhoElseWrites DEF SignsIn
  <1>2. ASSUME NEW s \in Session, owner'[s] # NoClient PROVE stored'[s] = 1
    <2>1. ASSUME NEW u \in Session, NEW c \in Client, SignIn(u, c) PROVE stored'[s] = 1
      BY <1>2, <2>1 DEF SignIn, TypeOK, SteadyInv
    <2>2. ASSUME NEW w \in Worker, Save(w) PROVE stored'[s] = 1
      BY <1>2, <2>2 DEF Save, At, TypeOK, SteadyInv
    <2> QED
      BY <1>2, <2>1, <2>2, WhoSaves DEF SignsIn, SteadyInv
  <1>3. ASSUME NEW w \in Worker, task'[w].pc \in {"upstream", "save"} PROVE task'[w].rt = 1
    <2>1. CASE w \in Request
      <3>1. Advances(w, task[w], task'[w])
        BY <2>1, RequestAdvances
      <3>2. CASE task'[w] = task[w]
        BY <1>3, <3>2 DEF SteadyInv
      <3>3. CASE task[w].pc = "exchange" /\ task'[w].rt = stored[mapping[task[w].token]]
                 /\ mapping[task[w].token] # NoSession
        <4>1. Belongs(task[w].token, task[w].client) /\ task[w].client \in Client /\ task[w].token \in Token
          BY <2>1, <3>3 DEF ClientInv, Rightful, PastLoad, TypeOK, Fits
        <4>2. mapping[task[w].token] \in Session /\ owner[mapping[task[w].token]] # NoClient
          BY <3>3, <4>1, Bounds DEF ClientInv, MappedRightly, Belongs
        <4> QED
          BY <3>3, <4>2 DEF SteadyInv
      <3>4. CASE UpstreamGrants(w) /\ task'[w].rt = NextGeneration(task[w].session)
        <4>1. task[w].rt = 1
          BY <3>4 DEF UpstreamGrants, At, SteadyInv
        <4> QED
          BY <1>a, <3>4, <4>1 DEF UpstreamGrants
      <3> QED
        BY <1>3, <3>1, <3>2, <3>3, <3>4 DEF Advances, Asks, Refused, Granted, Ended
    <2>2. CASE w \in Background
      <3>1. BackgroundAdvances(w, task[w], task'[w])
        BY <2>2, RefreshAdvances
      <3>2. CASE task'[w] = task[w]
        BY <1>3, <3>2 DEF SteadyInv
      <3>3. CASE task[w].pc = "queue" /\ task'[w].rt = stored[task[w].session]
        <4>1. task[w].session \in Session /\ owner[task[w].session] # NoClient
          BY <2>2, <3>3 DEF TypeOK, Fits, SteadyInv
        <4> QED
          BY <3>3, <4>1 DEF SteadyInv
      <3>4. CASE UpstreamGrants(w) /\ task'[w].rt = NextGeneration(task[w].session)
        <4>1. task[w].rt = 1
          BY <3>4 DEF UpstreamGrants, At, SteadyInv
        <4> QED
          BY <1>a, <3>4, <4>1 DEF UpstreamGrants
      <3> QED
        BY <1>3, <3>1, <3>2, <3>3, <3>4 DEF BackgroundAdvances
    <2> QED
      BY <2>1, <2>2, Bounds
  <1>4. ASSUME NEW b \in Background, task'[b].pc = "queue"
        PROVE  owner'[task'[b].session] # NoClient
    <2>1. task'[b].session \in Session /\ owner[task'[b].session] # NoClient
      <3>1. BackgroundAdvances(b, task[b], task'[b])
        BY RefreshAdvances
      <3>2. CASE task'[b] = task[b]
        BY <1>4, <3>2, Bounds DEF SteadyInv, TypeOK, Fits
      <3> QED
        BY <1>4, <3>1, <3>2 DEF BackgroundAdvances
    <2>2. ASSUME NEW u \in Session, NEW c \in Client, SignIn(u, c)
          PROVE  owner'[task'[b].session] # NoClient
      BY <2>1, <2>2, Bounds DEF SignIn, TypeOK
    <2>3. ASSUME NEW w \in Worker, Save(w) PROVE UNCHANGED owner
      BY <2>3 DEF Save
    <2> QED
      BY <2>1, <2>2, <2>3, WhoSaves DEF SignsIn
  <1> QED
    BY <1>1, <1>2, <1>3, <1>4 DEF SteadyInv

\* It holds initially: nobody has signed in.
LEMMA SteadyInit == Init => SteadyInv
  BY Bounds DEF Init, SteadyInv, Idle

(***************************************************************************)
(* While Cognito does not rotate its refresh token, a rejection is         *)
(* deserved for any number of replicas, and whatever restarts, store       *)
(* faults and lost answers there are.                                      *)
(***************************************************************************)
THEOREM RejectionDeservedWithoutRotation ==
  ASSUME UpstreamRotates = FALSE
  PROVE  Spec => [](NothingSpentIsPresented /\ RejectionIsDeserved)
  <1>1. TypeOK /\ SteadyInv => NothingSpentIsPresented
    BY DEF TypeOK, Fits, SteadyInv, NothingSpentIsPresented, At
  <1>2. TypeOK /\ ClientInv /\ SteadyInv /\ [Next]_vars => SteadyInv'
    BY SteadyNext
  <1> QED
    BY TypeCorrect, ClientCorrect, SteadyInit, RejectionCorrect, <1>1, <1>2, PTL DEF Spec

-----------------------------------------------------------------------------
(***************************************************************************)
(* A replay ends on a token that works.  The pair a request is issuing is  *)
(* its own and live until the client has it; a replay window is in order,  *)
(* and a rotation of a pair is recorded after the one that issued it.      *)
(***************************************************************************)
FreshInv ==
  /\ \A r \in Request : task[r].pc \in WithFresh =>
       task[r].fresh \notin handed /\ mapping[task[r].fresh] # NoSession
  /\ \A q, r \in Request :
       /\ task[q].pc \in WithFresh /\ task[r].pc \in WithFresh
       /\ task[q].fresh = task[r].fresh
       => q = r

WindowInv ==
  \A p \in Replica :
    /\ Ordered(recent[p]) /\ Forward(recent[p])
    /\ \A e \in Entries(recent[p]) : e.at <= clock /\ e.key \in handed /\ e.next \in handed

\* A request with a pair of its own has just issued it, or had it before.
LEMMA FreshFrom ==
  ASSUME TypeOK, [Next]_vars, NEW r \in Request, task'[r].pc \in WithFresh
  PROVE  \/ Issue(r) /\ task'[r].fresh = issued + 1
         \/ task[r].pc \in WithFresh /\ task'[r].fresh = task[r].fresh
  BY RequestAdvances DEF Advances, Asks, Refused, Granted, Ended, WithFresh

\* The pair being issued belongs to the request's client.
LEMMA FreshBelongs ==
  ASSUME TypeOK, ClientInv, NEW r \in Request, task[r].pc \in WithFresh
  PROVE  /\ Belongs(task[r].fresh, task[r].client) /\ task[r].client \in Client
         /\ Belongs(task[r].token, task[r].client)
         /\ task[r].fresh \in 1..issued /\ issued \in Nat /\ Owned(task[r].fresh)
  <1>1. task[r].client \in Client /\ issued \in Nat
    BY Bounds DEF TypeOK, Fits, WithFresh
  <1>2. Belongs(task[r].fresh, task[r].client) /\ Belongs(task[r].token, task[r].client)
    BY DEF ClientInv, Rightful, WithFresh, PastLoad
  <1> QED
    BY <1>1, <1>2 DEF Belongs, Owned

\* Every step preserves the part about the pairs being issued.
LEMMA FreshNext ==
  ASSUME TypeOK, ClientInv, HandedInv, FreshInv, [Next]_vars
  PROVE  FreshInv'
  <1>1. ASSUME NEW r \in Request, Issue(r)
        PROVE  /\ issued + 1 \notin handed' /\ mapping'[issued + 1] # NoSession
               /\ issued \in Nat
    <2>1. issued \in Nat /\ issued + 1 \in Token /\ task[r].session \in Session
      <3>1. issued \in Nat /\ MaxToken \in Nat /\ issued < MaxToken
        BY <1>1, Bounds DEF Issue, TypeOK
      <3>2. task[r].session \in Session
        BY <1>1, Bounds DEF Issue, At, TypeOK, Fits
      <3> QED
        BY <3>1, <3>2 DEF Token
    <2>2. UNCHANGED handed /\ mapping'[issued + 1] = task[r].session
      BY <1>1, <2>1 DEF Issue, TypeOK
    <2> QED
      BY <2>1, <2>2, Bounds DEF HandedInv, Owned
  <1>2. ASSUME NEW r \in Request, task[r].pc \in WithFresh, task'[r].pc \in WithFresh,
               task'[r].fresh = task[r].fresh
        PROVE  task[r].fresh \notin handed' /\ mapping'[task[r].fresh] # NoSession
    <2> DEFINE f == task[r].fresh
    <2>1. f \in 1..issued /\ issued \in Nat /\ issued <= MaxToken /\ MaxToken \in Nat /\ f \in Token
          /\ f \notin handed /\ mapping[f] # NoSession
      BY <1>2, FreshBelongs, Bounds DEF TypeOK, Token, FreshInv
    <2>2. f \notin handed'
      <3>1. ASSUME NEW s \in Session, NEW c \in Client, SignIn(s, c) PROVE f \notin handed'
        BY <2>1, <3>1 DEF SignIn
      <3>2. ASSUME NEW q \in Request, Record(q) PROVE f \notin handed'
        <4>1. task'[q].pc = "done" /\ task[q].pc \in WithFresh
          BY <3>2, BecomesNow DEF Record, At, WithFresh, Answered
        <4>2. q # r
          BY <1>2, <4>1 DEF WithFresh
        <4>3. task[q].fresh # f
          BY <1>2, <4>1, <4>2 DEF FreshInv
        <4> QED
          BY <2>1, <3>2, <4>3 DEF Record
      <3> QED
        BY <2>1, <3>1, <3>2, WhoElseWrites DEF SignsIn
    <2>3. mapping'[f] # NoSession
      <3>1. ASSUME NEW s \in Session, NEW c \in Client, SignIn(s, c) PROVE mapping'[f] # NoSession
        BY <2>1, <3>1 DEF SignIn, TypeOK
      <3>2. ASSUME NEW q \in Request, Issue(q) PROVE mapping'[f] # NoSession
        BY <2>1, <3>2 DEF Issue, TypeOK
      <3>3. ASSUME NEW q \in Request, Rotate(q) PROVE mapping'[f] # NoSession
        <4>1. task[q].token \in handed
          BY <3>3 DEF Rotate, At, HandedInv, Accounted
        <4> QED
          BY <2>1, <3>3, <4>1 DEF Rotate, TypeOK
      <3> QED
        BY <2>1, <3>1, <3>2, <3>3, WhoWrites DEF SignsIn
    <2> QED
      BY <2>2, <2>3
  <1>3. ASSUME NEW r \in Request, task'[r].pc \in WithFresh
        PROVE  task'[r].fresh \notin handed' /\ mapping'[task'[r].fresh] # NoSession
    BY <1>1, <1>2, <1>3, FreshFrom
  <1>4. ASSUME NEW q \in Request, NEW r \in Request,
               task'[q].pc \in WithFresh, task'[r].pc \in WithFresh,
               task'[q].fresh = task'[r].fresh
        PROVE  q = r
    <2>1. ASSUME NEW u \in Request, NEW v \in Request, u # v, Issue(u), task'[v].pc \in WithFresh
          PROVE  task'[v].fresh \in 1..issued /\ issued \in Nat
      <3>1. task'[v] = task[v]
        BY <2>1, Bounds, OthersWait DEF Issue
      <3> QED
        BY <2>1, <3>1, FreshBelongs
    <2>2. CASE Issue(q) /\ task'[q].fresh = issued + 1
      <3>1. ASSUME q # r PROVE task'[r].fresh \in 1..issued /\ issued \in Nat
        BY <1>4, <2>1, <2>2, <3>1
      <3> QED
        BY <1>4, <2>2, <3>1
    <2>3. CASE Issue(r) /\ task'[r].fresh = issued + 1
      <3>1. ASSUME q # r PROVE task'[q].fresh \in 1..issued /\ issued \in Nat
        BY <1>4, <2>1, <2>3, <3>1
      <3> QED
        BY <1>4, <2>3, <3>1
    <2>4. CASE /\ task[q].pc \in WithFresh /\ task'[q].fresh = task[q].fresh
               /\ task[r].pc \in WithFresh /\ task'[r].fresh = task[r].fresh
      BY <1>4, <2>4 DEF FreshInv
    <2> QED
      BY <1>4, <2>2, <2>3, <2>4, FreshFrom
  <1> QED
    BY <1>3, <1>4 DEF FreshInv

\* A pair being issued is in one request's hands only.
LEMMA FreshCorrect == Spec => []FreshInv
  <1>1. Init => FreshInv
    BY Bounds DEF Init, FreshInv, WithFresh, Idle
  <1>2. TypeOK /\ ClientInv /\ HandedInv /\ FreshInv /\ [Next]_vars => FreshInv'
    BY FreshNext
  <1> QED
    BY TypeCorrect, ClientCorrect, HandedCorrect, <1>1, <1>2, PTL DEF Spec

\* What a step does to a replay window.
Forgets(p) == recent'[p] = recent[p] \/ recent'[p] = Purged(recent[p], clock)

Remembers(r, p) ==
  Record(r) /\ task[r].replica = p /\ recent'[p] = Recorded(recent[p], Rotation(r), clock)

\* What a step does to the replay windows.
LEMMA RecentStep ==
  ASSUME TypeOK, [Next]_vars, NEW p \in Replica
  PROVE  \/ Forgets(p) /\ (UNCHANGED clock \/ recent'[p] = recent[p])
         \/ recent'[p] = <<>>
         \/ UNCHANGED clock /\ \E r \in Request : Remembers(r, p)
  <1>1. ASSUME NEW r \in Request, NEW t, NEW step, ReplayOr(r, t, step) PROVE Forgets(p)
    BY <1>1 DEF ReplayOr, Forgets, TypeOK
  <1>2. CASE Presents
    BY <1>1, <1>2 DEF Presents, Present
  <1>3. ASSUME NEW r \in Request, Load(r) \/ Acquire(r) PROVE Forgets(p) /\ UNCHANGED clock
    BY <1>1, <1>3 DEF Load, Acquire, Forgets
  <1>4. ASSUME NEW r \in Request, Record(r)
        PROVE  UNCHANGED clock /\ (Forgets(p) \/ Remembers(r, p))
    BY <1>4 DEF Record, Remembers, Forgets, TypeOK
  <1>5. ASSUME NEW q \in Replica, Crash(q) PROVE recent'[p] = <<>> \/ recent'[p] = recent[p]
    BY <1>5 DEF Crash, TypeOK
  <1>6. CASE UNCHANGED recent
    BY <1>6 DEF Forgets
  <1> QED
    BY <1>2, <1>3, <1>4, <1>5, <1>6, WhoWrites DEF Forgets

\* Time does not go back.
LEMMA ClockForward ==
  ASSUME TypeOK, [Next]_vars
  PROVE  clock \in Nat /\ clock' \in Nat /\ clock <= clock'
  <1>1. TypeOK'
    BY TypeNext
  <1>2. clock' = clock \/ clock' = clock + 1
    <2>1. ASSUME NEW r \in Request
          PROVE  /\ Exchange(r) \/ Finish(r) => UNCHANGED clock
                 /\ (\E p \in Replica, c \in Client, t \in Token : Present(r, p, c, t)) => UNCHANGED clock
      BY DEF Exchange, Load, Resolve, Acquire, ReadGrant, Finish, Rotate, Register, Retire, Issue,
             Record, Present
    <2>2. ASSUME NEW b \in Background
          PROVE  AcquireBackground(b)
                 \/ (\E p \in Replica, s \in Session : StartBackground(b, p, s)) => UNCHANGED clock
      BY DEF AcquireBackground, StartBackground
    <2>3. ASSUME NEW w \in Worker
          PROVE  Upstream(w) \/ Save(w) \/ StoreFails(w) \/ Fail(w) => UNCHANGED clock
      BY DEF Upstream, UpstreamGrants, UpstreamRejects, UpstreamFails, Save, StoreFails, Fail
    <2>4. \/ SignsIn \/ (\E p \in Replica : Crash(p)) \/ (\E s \in Session : Revoke(s))
          \/ UNCHANGED vars
          => UNCHANGED clock
      BY DEF SignsIn, SignIn, Crash, Revoke, vars
    <2>5. Tick => clock' = clock + 1
      BY DEF Tick
    <2> QED
      BY <2>1, <2>2, <2>3, <2>4, <2>5 DEF Next, SignsIn
  <1> QED
    BY <1>1, <1>2, Bounds DEF TypeOK

\* The rotation recorded, as an entry of the replay window.
LEMMA RotationEntry ==
  ASSUME TypeOK, ClientInv, HandedInv, FreshInv, NEW r \in Request, At(r, "record")
  PROVE  /\ Rotation(r) \in Replay(Token, Client)
         /\ Rotation(r).key = task[r].token /\ Rotation(r).next = task[r].fresh
         /\ Rotation(r).client = task[r].client /\ Rotation(r).at = clock
         /\ task[r].token \in handed /\ task[r].fresh \notin handed
         /\ task[r].token # task[r].fresh
  <1>1. /\ task[r].token \in Token /\ task[r].client \in Client /\ task[r].fresh \in Token
        /\ Lifetime \in Nat /\ clock \in Nat
    BY Bounds DEF At, TypeOK, Fits
  <1>2. task[r].token \in handed /\ task[r].fresh \notin handed
    BY DEF At, HandedInv, Accounted, FreshInv, WithFresh
  <1> QED
    BY <1>1, <1>2 DEF Rotation, Replay

\* Every step preserves the order of the windows.
LEMMA WindowNext ==
  ASSUME TypeOK, ClientInv, HandedInv, FreshInv, WindowInv, [Next]_vars
  PROVE  WindowInv'
  <1> SUFFICES ASSUME NEW p \in Replica
               PROVE  /\ Ordered(recent'[p]) /\ Forward(recent'[p])
                      /\ \A e \in Entries(recent'[p]) :
                           e.at <= clock' /\ e.key \in handed' /\ e.next \in handed'
    BY DEF WindowInv
  <1>a. /\ recent[p] \in Seq(Replay(Token, Client)) /\ handed \subseteq handed'
        /\ clock \in Nat /\ clock' \in Nat /\ clock <= clock'
        /\ \A e \in Entries(recent[p]) : e.at \in Nat
    <2>1. recent[p] \in Seq(Replay(Token, Client))
      BY DEF TypeOK
    <2>2. \A e \in Entries(recent[p]) : e.at \in Nat
      BY <2>1, EntryAt DEF Entries
    <2> QED
      BY <2>1, <2>2, ClockForward, HandedStays
  <1>b. /\ Ordered(recent[p]) /\ Forward(recent[p])
        /\ \A e \in Entries(recent[p]) : e.at <= clock /\ e.key \in handed /\ e.next \in handed
    BY DEF WindowInv
  <1>1. CASE recent'[p] = <<>>
    <2>1. DOMAIN recent'[p] = {}
      BY <1>1
    <2> QED
      BY <2>1 DEF Ordered, Forward, Entries
  <1>2. CASE Forgets(p)
    <2>1. /\ Ordered(recent'[p]) /\ Forward(recent'[p])
          /\ Entries(recent'[p]) \subseteq Entries(recent[p])
      <3>1. CASE recent'[p] = recent[p]
        BY <1>b, <3>1 DEF Ordered, Forward, Entries
      <3>2. CASE recent'[p] = Purged(recent[p], clock)
        <4>1. /\ Purged(recent[p], clock) \in Seq(Replay(Token, Client))
              /\ Thinned(Purged(recent[p], clock), recent[p])
          BY <1>a, PurgedOrder
        <4>2. /\ Ordered(Purged(recent[p], clock)) /\ Forward(Purged(recent[p], clock))
              /\ Entries(Purged(recent[p], clock)) \subseteq Entries(recent[p])
          BY <1>a, <1>b, <4>1, ThinnedOrder
        <4> QED
          BY <3>2, <4>2
      <3> QED
        BY <1>2, <3>1, <3>2 DEF Forgets
    <2> QED
      BY <1>a, <1>b, <2>1
  <1>3. ASSUME NEW r \in Request, Remembers(r, p)
        PROVE  /\ Ordered(recent'[p]) /\ Forward(recent'[p])
               /\ \A e \in Entries(recent'[p]) :
                    e.at <= clock' /\ e.key \in handed' /\ e.next \in handed'
    <2> DEFINE ne == Rotation(r)
    <2>1. /\ ne \in Replay(Token, Client) /\ ne.key # ne.next /\ ne.next \notin handed
          /\ ne.key \in handed /\ ne.at = clock /\ ne.next = task[r].fresh
      BY <1>3, RotationEntry DEF Remembers, Record
    <2>2. ne.next \in handed'
      BY <1>3, <2>1 DEF Remembers, Record
    <2> HIDE DEF ne
    <2>3. \A x \in Entries(recent[p]) : x.at <= ne.at /\ x.key # ne.next
      BY <1>b, <2>1
    <2>4. recent'[p] = Recorded(recent[p], ne, clock)
      BY <1>3 DEF Remembers, ne
    <2>5. /\ Ordered(recent'[p]) /\ Forward(recent'[p])
          /\ \A x \in Entries(recent'[p]) \ {ne} : x \in Entries(recent[p])
      BY <1>a, <1>b, <2>1, <2>3, <2>4, RecordedOrder
    <2>6. ASSUME NEW e \in Entries(recent'[p])
          PROVE  e.at <= clock' /\ e.key \in handed' /\ e.next \in handed'
      <3>1. CASE e = ne
        BY <1>a, <2>1, <2>2, <3>1
      <3>2. CASE e # ne
        BY <1>a, <1>b, <2>5, <3>2
      <3> QED
        BY <3>1, <3>2
    <2> QED
      BY <2>5, <2>6
  <1> QED
    BY <1>1, <1>2, <1>3, RecentStep

\* The windows stay in order.
LEMMA WindowCorrect == Spec => []WindowInv
  <1>1. Init => WindowInv
    <2>1. ASSUME Init, NEW p \in Replica PROVE DOMAIN recent[p] = {}
      BY <2>1 DEF Init
    <2> QED
      BY <2>1 DEF WindowInv, Ordered, Forward, Entries
  <1>2. TypeOK /\ ClientInv /\ HandedInv /\ FreshInv /\ WindowInv /\ [Next]_vars => WindowInv'
    BY WindowNext
  <1> QED
    BY TypeCorrect, ClientCorrect, HandedCorrect, FreshCorrect, <1>1, <1>2, PTL DEF Spec

\* The pair a replay names can be used, is being rotated, or was rotated.
Live(t, c) == mapping[t] # NoSession /\ metadata[t] = c

InRotation(t) == \E r \in Request : task[r].pc \in Rotating /\ task[r].token = t

Followed(p, e) == \E f \in Matching(recent[p], e.next, e.client) : ~Expired(f, clock)

Closed(p, e) == ~Expired(e, clock) => Live(e.next, e.client) \/ InRotation(e.next) \/ Followed(p, e)

\* A pair that works, or is being rotated, goes on so until its rotation is
\* recorded.
LEMMA LiveStep ==
  ASSUME StoreFaults = FALSE, TypeOK, ClientInv, HandedInv, [Next]_vars,
         NEW t \in handed, NEW c \in Client,
         Belongs(t, c), Live(t, c) \/ InRotation(t)
  PROVE  \/ (Live(t, c) \/ InRotation(t))'
         \/ \E r \in Request : Record(r) /\ task[r].token = t
         \/ \E p \in Replica : Crash(p)
  <1>1. CASE Live(t, c)
    <2>1. /\ t \in 1..issued /\ t \in Token /\ issued \in Nat /\ Owned(t) /\ Usable(t)
          /\ owner[origin[t]] = c
      BY Bounds DEF HandedInv, Owned, TypeOK, Belongs
    <2>2. Usable(t)' /\ origin'[t] = origin[t] /\ owner'[origin[t]] = owner[origin[t]]
      BY <2>1, StaysUsable, OwnedForGood
    <2>3. CASE mapping'[t] # NoSession
      BY <2>1, <2>2, <2>3 DEF Usable, Live
    <2>4. CASE mapping'[t] = NoSession
      <3>1. ASSUME NEW s \in Session, NEW d \in Client, SignIn(s, d) PROVE FALSE
        BY <1>1, <2>1, <2>4, <3>1 DEF SignIn, TypeOK, Live
      <3>2. ASSUME NEW q \in Request, Issue(q) PROVE FALSE
        BY <1>1, <2>1, <2>4, <3>2 DEF Issue, TypeOK, Live
      <3>3. PICK q \in Request : Rotate(q)
        BY <1>1, <2>4, <3>1, <3>2, WhoWrites DEF SignsIn, Live
      <3>4. task[q].token = t /\ task[q].pc = "rotate"
        BY <1>1, <2>1, <2>4, <3>3 DEF Rotate, At, TypeOK, Live
      <3>5. task'[q] = [task[q] EXCEPT !.pc = "register"] /\ task[q] \in Task
        BY <3>3, BecomesNow, Bounds DEF Rotate, Goto, TypeOK
      <3>6. task'[q].pc = "register" /\ task'[q].token = t
        BY <3>4, <3>5 DEF Task
      <3> QED
        BY <3>6 DEF InRotation, Rotating
    <2> QED
      BY <2>3, <2>4
  <1>2. CASE InRotation(t)
    <2>1. PICK r \in Request : task[r].pc \in Rotating /\ task[r].token = t
      BY <1>2 DEF InRotation
    <2>2. \/ task'[r].pc \in Rotating /\ task'[r].token = t
          \/ Record(r)
          \/ \E p \in Replica : Crash(p)
      BY <2>1, RequestAdvances
         DEF Advances, Asks, Refused, Granted, Ended, Keeps, Rotating
    <2> QED
      BY <2>1, <2>2 DEF InRotation
  <1> QED
    BY <1>1, <1>2

\* In one process, a rotation that ends within the lock is recorded in the
\* replay window every request looks into.
LEMMA RotationRemembered ==
  ASSUME \A p, q \in Replica : p = q, TypeOK, ClientInv, HandedInv, FreshInv, WindowInv,
         GrantsHeld, NEW r \in Request, Record(r), NEW p \in Replica
  PROVE  Remembers(r, p) /\ UNCHANGED clock /\ Rotation(r) \in Entries(recent'[p])
  <1>1. task[r].locked /\ task[r].replica = p
    BY Bounds DEF Record, At, GrantsHeld, WithFresh, TypeOK, Task
  <1>2. Remembers(r, p) /\ UNCHANGED clock
    BY <1>1 DEF Record, Remembers, TypeOK
  <1>3. /\ Rotation(r) \in Replay(Token, Client) /\ Rotation(r).key # Rotation(r).next
        /\ Rotation(r).next \notin handed /\ Rotation(r).at = clock
    BY RotationEntry DEF Record
  <1>4. recent[p] \in Seq(Replay(Token, Client)) /\ clock \in Nat
    BY Bounds DEF TypeOK
  <1>5. Rotation(r) \in Entries(Recorded(recent[p], Rotation(r), clock))
    <2> DEFINE ne == Rotation(r)
    <2> HIDE DEF ne
    <2>1. \A x \in Entries(recent[p]) : x.at <= ne.at /\ x.key # ne.next
      BY <1>3 DEF WindowInv, ne
    <2>2. ne \in Entries(Recorded(recent[p], ne, clock))
      BY <1>3, <1>4, <2>1, RecordedOrder DEF WindowInv, ne
    <2> QED
      BY <2>2 DEF ne
  <1> QED
    BY <1>2, <1>5 DEF Remembers

\* What is recorded after an entry expires after it.
LEMMA FollowerYounger ==
  ASSUME NEW cache \in Seq(Replay(Token, Client)), Ordered(cache), Forward(cache),
         NEW e \in Entries(cache), NEW f \in Entries(cache), f.key = e.next,
         NEW now \in Nat, ~Expired(e, now)
  PROVE  ~Expired(f, now)
  <1>1. PICK i \in DOMAIN cache, j \in DOMAIN cache : e = cache[i] /\ f = cache[j]
    BY DEF Entries
  <1>2. e.at <= f.at /\ e.at \in Nat /\ f.at \in Nat
    BY <1>1, EntryAt DEF Forward, Ordered
  <1> QED
    BY <1>2, ReplayCacheAssumption DEF Expired

\* The entry that follows another stays with it, or a newer one of its key
\* takes its place.
LEMMA FollowedStep ==
  ASSUME TypeOK, ClientInv, HandedInv, FreshInv, WindowInv, [Next]_vars,
         NEW p \in Replica, NEW e \in Entries(recent[p]), e \in Entries(recent'[p]),
         ~Expired(e, clock'), Followed(p, e)
  PROVE  Followed(p, e)'
  <1>a. /\ recent[p] \in Seq(Replay(Token, Client)) /\ Ordered(recent[p]) /\ Forward(recent[p])
        /\ clock \in Nat /\ clock' \in Nat
    BY ClockForward DEF TypeOK, WindowInv
  <1>1. PICK f \in Entries(recent[p]) : f.key = e.next /\ f.client = e.client /\ ~Expired(f, clock)
    BY DEF Followed, Matching
  <1>2. ~Expired(f, clock')
    BY <1>a, <1>1, FollowerYounger
  <1>3. CASE f \in Entries(recent'[p])
    BY <1>1, <1>2, <1>3 DEF Followed, Matching
  <1>4. CASE Forgets(p)
    <2>1. f \in Entries(recent'[p])
      BY <1>a, <1>1, <1>4, PurgedOrder DEF Forgets
    <2> QED
      BY <1>3, <2>1
  <1>5. CASE recent'[p] = <<>>
    <2>1. DOMAIN recent'[p] = {}
      BY <1>5
    <2> QED
      BY <2>1 DEF Entries
  <1>6. ASSUME NEW r \in Request, Remembers(r, p), UNCHANGED clock
        PROVE  Followed(p, e)'
    <2> DEFINE ne == Rotation(r)
    <2>1. /\ ne \in Replay(Token, Client) /\ ne.key # ne.next /\ ne.next \notin handed
          /\ ne.key = task[r].token /\ ne.at = clock /\ ne.next = task[r].fresh
          /\ ne.client = task[r].client
      BY <1>6, RotationEntry DEF Remembers, Record
    <2>2. recent'[p] = Recorded(recent[p], ne, clock)
      BY <1>6 DEF Remembers
    <2> HIDE DEF ne
    <2>3. \A x \in Entries(recent[p]) : x.at <= ne.at /\ x.key # ne.next
      BY <2>1 DEF WindowInv
    <2>4. /\ ne \in Entries(recent'[p])
          /\ e # ne => f.key = ne.key \/ f \in Entries(recent'[p])
      BY <1>a, <1>1, <2>1, <2>2, <2>3, RecordedOrder
    <2>5. e # ne
      <3>1. e.next \in handed
        BY DEF WindowInv
      <3> QED
        BY <2>1, <3>1
    <2>6. CASE f.key = ne.key
      <3>1. Belongs(e.next, e.client)
        BY DEF ClientInv, ReplayedRightly
      <3>2. Belongs(ne.key, ne.client)
        BY <1>6, <2>1, FreshBelongs DEF Remembers, Record, At, WithFresh
      <3>3. ne.client = e.client /\ ne.key = e.next
        BY <1>1, <2>6, <3>1, <3>2 DEF Belongs
      <3>4. ~Expired(ne, clock')
        BY <1>6, <1>a, <2>1, ReplayCacheAssumption DEF Expired
      <3> QED
        BY <2>4, <3>3, <3>4 DEF Followed, Matching
    <2> QED
      BY <1>3, <2>4, <2>5, <2>6
  <1> QED
    BY <1>4, <1>5, <1>6, RecentStep

\* Every step keeps an entry closed, given the other invariants before it.
LEMMA ClosedNext ==
  ASSUME \A p, q \in Replica : p = q, StoreFaults = FALSE, TypeOK, ClientInv, HandedInv,
         FreshInv, WindowInv, WindowInv', GrantsHeld, [Next]_vars, NEW p \in Replica,
         \A x \in Entries(recent[p]) : Closed(p, x), NEW e \in Entries(recent'[p])
  PROVE  Closed(p, e)'
  <1> SUFFICES ASSUME ~Expired(e, clock')
               PROVE  (Live(e.next, e.client) \/ InRotation(e.next) \/ Followed(p, e))'
    BY DEF Closed
  <1>a. /\ recent[p] \in Seq(Replay(Token, Client)) /\ Ordered(recent[p]) /\ Forward(recent[p])
        /\ clock \in Nat /\ clock' \in Nat /\ clock <= clock'
    BY ClockForward DEF TypeOK, WindowInv
  <1>b. recent'[p] # <<>>
    <2>1. recent'[p] = <<>> => DOMAIN recent'[p] = {}
      OBVIOUS
    <2> QED
      BY <2>1 DEF Entries
  <1>1. CASE e \in Entries(recent[p])
    <2>1. ~Expired(e, clock) /\ e.next \in handed /\ e.client \in Client /\ Belongs(e.next, e.client)
      <3>1. e.at \in Nat /\ e.client \in Client
        BY <1>a, <1>1, EntryAt DEF Entries
      <3> QED
        BY <1>a, <1>1, <3>1, ReplayCacheAssumption
           DEF Expired, WindowInv, ClientInv, ReplayedRightly
    <2>2. CASE Followed(p, e)
      BY <1>1, <2>2, FollowedStep
    <2>3. CASE Live(e.next, e.client) \/ InRotation(e.next)
      <3>1. ASSUME NEW r \in Request, Record(r), task[r].token = e.next PROVE Followed(p, e)'
        <4>1. /\ Rotation(r) \in Entries(recent'[p]) /\ UNCHANGED clock
              /\ Rotation(r).key = e.next /\ Rotation(r).at = clock
              /\ Rotation(r).client = task[r].client
          BY <3>1, RotationRemembered, RotationEntry DEF Record
        <4>2. Belongs(e.next, task[r].client)
          BY <3>1, FreshBelongs DEF Record, At, WithFresh
        <4>3. Rotation(r).client = e.client
          BY <2>1, <4>1, <4>2 DEF Belongs
        <4>4. ~Expired(Rotation(r), clock')
          BY <1>a, <4>1, ReplayCacheAssumption DEF Expired
        <4>5. \E f \in Entries(recent'[p]) : f.key = e.next /\ f.client = e.client /\ ~Expired(f, clock')
          BY <4>1, <4>3, <4>4
        <4> QED
          BY <4>5 DEF Followed, Matching
      <3>2. ASSUME NEW q \in Replica, Crash(q) PROVE FALSE
        BY <1>b, <3>2 DEF Crash, TypeOK
      <3> QED
        BY <2>1, <2>3, <3>1, <3>2, LiveStep
    <2> QED
      BY <1>1, <2>1, <2>2, <2>3 DEF Closed
  <1>2. CASE e \notin Entries(recent[p])
    <2>1. PICK r \in Request : Remembers(r, p)
      <3>1. ~Forgets(p)
        <4>1. Entries(Purged(recent[p], clock)) \subseteq Entries(recent[p])
          BY <1>a, PurgedEntries
        <4> QED
          BY <1>2, <4>1 DEF Forgets
      <3> QED
        BY <1>b, <3>1, RecentStep
    <2>2. e = Rotation(r)
      <3>1. Entries(Recorded(recent[p], Rotation(r), clock)) \subseteq Entries(recent[p]) \cup {Rotation(r)}
        BY <1>a, <2>1, RotationEntry, RecordedEntries DEF Remembers, Record
      <3> QED
        BY <1>2, <2>1, <3>1 DEF Remembers
    <2>3. e.next = task[r].fresh /\ e.client = task[r].client
      BY <2>1, <2>2, RotationEntry DEF Remembers, Record
    <2>4. mapping[task[r].fresh] # NoSession /\ metadata[task[r].fresh] = task[r].client
      <3>1. task[r].pc = "record"
        BY <2>1 DEF Remembers, Record, At
      <3>2. Belongs(task[r].fresh, task[r].client)
        BY <3>1, FreshBelongs DEF WithFresh
      <3> QED
        BY <3>1, <3>2 DEF FreshInv, WithFresh, HandedInv, Accounted, Usable, Belongs
    <2>5. UNCHANGED <<mapping, metadata>>
      BY <2>1 DEF Remembers, Record, stores
    <2>6. mapping'[e.next] # NoSession /\ metadata'[e.next] = e.client
      BY <2>3, <2>4, <2>5
    <2> QED
      BY <2>6 DEF Live
  <1> QED
    BY <1>1, <1>2

(***************************************************************************)
(* In one process whose mapping store answers, restarts included, a replay *)
(* that is still in the window names a pair that works, that is being      *)
(* rotated at this moment, or whose own rotation is in the window: whoever *)
(* follows the chain of replays ends on tokens it can use.                 *)
(***************************************************************************)
THEOREM ReplayEndsCorrect ==
  ASSUME \A p, q \in Replica : p = q, StoreFaults = FALSE
  PROVE  Spec => []ReplayEndsOnLiveToken
  <1> DEFINE AllClosed == \A p \in Replica : \A e \in Entries(recent[p]) : Closed(p, e)
  <1>1. Init => AllClosed
    <2>1. ASSUME Init, NEW p \in Replica PROVE DOMAIN recent[p] = {}
      BY <2>1 DEF Init
    <2> QED
      BY <2>1 DEF Entries
  <1>2. TypeOK /\ ClientInv /\ HandedInv /\ FreshInv /\ WindowInv /\ WindowInv' /\ GrantsHeld
        /\ AllClosed /\ [Next]_vars => AllClosed'
    <2> HAVE /\ TypeOK /\ ClientInv /\ HandedInv /\ FreshInv /\ WindowInv /\ WindowInv'
             /\ GrantsHeld /\ AllClosed /\ [Next]_vars
    <2>1. ASSUME NEW p \in Replica, NEW e \in Entries(recent'[p]) PROVE Closed(p, e)'
      BY ClosedNext
    <2> QED
      BY <2>1
  <1>3. AllClosed => ReplayEndsOnLiveToken
    BY DEF Closed, Live, InRotation, Followed, ReplayEndsOnLiveToken
  <1> QED
    BY TypeCorrect, ClientCorrect, HandedCorrect, FreshCorrect, WindowCorrect, GrantsHeldCorrect,
       <1>1, <1>2, <1>3, PTL DEF Spec
=============================================================================
