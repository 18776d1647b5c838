------------------------- MODULE RefreshExchangeProofs -------------------------
(***************************************************************************)
(* Proofs about the client refresh grant, for any number of requests,      *)
(* clients, sessions, replicas and tokens.                                 *)
(***************************************************************************)
EXTENDS RefreshExchange, ReplayCacheProofs

-----------------------------------------------------------------------------
(***************************************************************************)
(* Typing.                                                                 *)
(***************************************************************************)

\* What the assumptions on the constants give, in the form the steps need.
LEMMA Bounds ==
  /\ MaxToken \in Nat /\ MaxUpstream \in Nat /\ MaxTime \in Nat /\ Lifetime \in Nat
  /\ Request \subseteq Worker /\ Background \subseteq Worker
  /\ Worker = Request \cup Background /\ Request \cap Background = {}
  /\ 0 \in 0..MaxToken /\ 0 \in 0..MaxUpstream /\ 1 \in 0..MaxUpstream
  /\ Token \subseteq 0..MaxToken /\ Token \subseteq Nat
  /\ Nobody \notin Worker /\ NoClient \notin Client /\ NoSession \notin Session
  BY RefreshAssumption DEF Worker, Token

\* An idle worker is parked at one of the replicas.
LEMMA HomeType == Home \in Replica
  BY RefreshAssumption DEF Home

\* The worker of a request that has not arrived is well typed.
LEMMA IdleType ==
  ASSUME NEW w \in Worker, NEW p \in Replica
  PROVE  Idle(p) \in Task /\ Fits(w, Idle(p))
  <1>1. Idle(p) \in Task
    BY Bounds DEF Idle, Task, Steps, Answers, Causes
  <1>2. Fits(w, Idle(p))
    BY DEF Idle, Fits
  <1> QED
    BY <1>1, <1>2

\* Answering a request leaves its record well typed.
LEMMA AnsweredType ==
  ASSUME NEW r \in Request, NEW t \in Task, t.client \in Client, t.token \in Token,
         NEW kind \in Answers, NEW n \in 0..MaxToken
  PROVE  Answered(t, kind, n) \in Task /\ Fits(r, Answered(t, kind, n))
  <1>1. t.replica \in Replica /\ t.cause \in Causes
    BY DEF Task
  <1>2. Answered(t, kind, n) \in Task
    BY <1>1, Bounds DEF Answered, Task, Steps
  <1>3. Fits(r, Answered(t, kind, n))
    BY Bounds DEF Answered, Fits
  <1> QED
    BY <1>2, <1>3

\* What a worker whose step raised is, field by field.
LEMMA RaisedFields ==
  ASSUME NEW t \in Task, NEW c
  PROVE  /\ Raised(t, c).pc = "failed" /\ Raised(t, c).cause = c
         /\ Raised(t, c).answer = AnswerTo(c)
         /\ Raised(t, c).client = t.client /\ Raised(t, c).token = t.token
         /\ Raised(t, c).session = t.session /\ Raised(t, c).locked = t.locked
         /\ Raised(t, c).replica = t.replica /\ Raised(t, c).fresh = t.fresh
         /\ Raised(t, c).rt = t.rt
  <1>1. PICK a : a = AnswerTo(c)
    OBVIOUS
  <1>2. PICK n : n = [t EXCEPT !.pc = "failed", !.cause = c, !.answer = a]
    OBVIOUS
  <1>3. /\ n.pc = "failed" /\ n.cause = c /\ n.answer = a /\ n.client = t.client
        /\ n.token = t.token /\ n.session = t.session /\ n.locked = t.locked
        /\ n.replica = t.replica /\ n.fresh = t.fresh /\ n.rt = t.rt
    BY <1>2 DEF Task
  <1>4. Raised(t, c) = n
    BY <1>1, <1>2 DEF Raised
  <1> QED
    BY <1>1, <1>3, <1>4

\* How the causes are answered.
LEMMA AnswerToType ==
  /\ \A c : AnswerTo(c) \in Answers /\ AnswerTo(c) \notin {"none", "tokens"}
  /\ \A c : AnswerTo(c) = "invalid_grant" => c \notin {"transient", "store"}
  BY DEF AnswerTo, Answers

\* A step that raises leaves its worker well typed.
LEMMA RaisedType ==
  ASSUME NEW w \in Worker, NEW t \in Task, Fits(w, t), t.pc # "idle", NEW c \in Causes
  PROVE  Raised(t, c) \in Task /\ Fits(w, Raised(t, c))
  <1>1. PICK a \in Answers : a = AnswerTo(c)
    BY AnswerToType
  <1>2. Raised(t, c) \in Task
    <2>1. [t EXCEPT !.pc = "failed", !.cause = c, !.answer = a] \in Task
      BY DEF Task, Steps
    <2>2. Raised(t, c) = [t EXCEPT !.pc = "failed", !.cause = c, !.answer = a]
      BY <1>1 DEF Raised
    <2> QED
      BY <2>1, <2>2
  <1>3. Fits(w, Raised(t, c))
    BY RaisedFields DEF Fits
  <1> QED
    BY <1>2, <1>3

\* How an upstream call that is not granted ends.
LEMMA UpstreamRaises ==
  ASSUME NEW w \in Worker, UpstreamRejects(w) \/ UpstreamFails(w)
  PROVE  \E c \in UpstreamCauses : Becomes(w, Raised(task[w], c))
  BY DEF UpstreamRejects, UpstreamFails, UpstreamCauses

\* A worker that becomes something well typed leaves the workers well typed.
LEMMA BecomesType ==
  ASSUME TypeOK, NEW w \in Worker, NEW t \in Task, Fits(w, t), Becomes(w, t)
  PROVE  /\ task' \in [Worker -> Task]
         /\ \A v \in Worker : Fits(v, task'[v])
  BY DEF TypeOK, Becomes

(***************************************************************************)
(* A replay check leaves the worker and the replay windows well typed,     *)
(* whether it answers or goes on.                                          *)
(***************************************************************************)
LEMMA ReplayOrType ==
  ASSUME TypeOK, NEW r \in Request, NEW t \in Task, NEW step \in Steps,
         t.client \in Client, t.token \in Token, Fits(r, [t EXCEPT !.pc = step]),
         ReplayOr(r, t, step)
  PROVE  /\ task' \in [Worker -> Task]
         /\ \A v \in Worker : Fits(v, task'[v])
         /\ recent' \in [Replica -> Seq(Replay(Token, Client))]
  <1> DEFINE R == Replay(Token, Client)
  <1>1. /\ recent \in [Replica -> Seq(R)] /\ clock \in Nat /\ t.replica \in Replica
        /\ r \in Worker
    BY Bounds DEF TypeOK, Task
  <1>2. recent' \in [Replica -> Seq(R)]
    <2>1. recent[t.replica] \in Seq(R)
      BY <1>1
    <2>2. Purged(recent[t.replica], clock) \in Seq(R)
      BY <1>1, <2>1, PurgedEntries
    <2> QED
      BY <1>1, <2>2 DEF ReplayOr
  <1>3. [t EXCEPT !.pc = step] \in Task
    BY DEF Task
  <1>4. ASSUME NEW m \in ReplayFor(t) PROVE m.next \in 0..MaxToken
    <2>1. m \in Entries(recent[t.replica])
      BY <1>1, ReplayedEntries DEF ReplayFor
    <2>2. m \in R
      BY <1>1, <2>1 DEF Entries
    <2> QED
      BY <2>2, Bounds DEF Replay
  <1>5. CASE Becomes(r, [t EXCEPT !.pc = step])
    BY <1>1, <1>2, <1>3, <1>5, BecomesType
  <1>6. ASSUME NEW m \in ReplayFor(t), Becomes(r, Answered(t, "tokens", m.next))
        PROVE  task' \in [Worker -> Task] /\ \A v \in Worker : Fits(v, task'[v])
    <2>1. "tokens" \in Answers
      BY DEF Answers
    <2>2. /\ Answered(t, "tokens", m.next) \in Task
          /\ Fits(r, Answered(t, "tokens", m.next))
      BY <1>4, <2>1, AnsweredType
    <2> QED
      BY <1>1, <1>6, <2>2, BecomesType
  <1> QED
    BY <1>2, <1>5, <1>6 DEF ReplayOr

\* Leaving the lock leaves the locks well typed.
LEMMA ReleasedType ==
  ASSUME TypeOK, NEW w \in Worker
  PROVE  Released(w) \in [Replica -> [Session -> Worker \cup {Nobody}]]
  <1>1. /\ task[w].replica \in Replica
        /\ task[w].locked => task[w].session \in Session
    BY DEF TypeOK, Task, Fits
  <1> QED
    BY <1>1 DEF Released, TypeOK

(***************************************************************************)
(* TypeOK is inductive.                                                    *)
(***************************************************************************)
LEMMA TypeInit == Init => TypeOK
  <1> SUFFICES ASSUME Init PROVE TypeOK
    OBVIOUS
  <1>1. task \in [Worker -> Task]
    BY HomeType, IdleType DEF Init
  <1>2. \A w \in Worker : Fits(w, task[w])
    BY HomeType, IdleType DEF Init
  <1>3. recent \in [Replica -> Seq(Replay(Token, Client))]
    BY DEF Init
  <1>4. handed \in SUBSET Token
    BY DEF Init
  <1>5. clock \in 0..MaxTime /\ issued \in 0..MaxToken
    BY Bounds DEF Init
  <1> QED
    BY <1>1, <1>2, <1>3, <1>4, <1>5, Bounds DEF Init, TypeOK

\* Every handler's step, and every step of Cognito and the stores, keeps the types.
LEMMA TypeNext == TypeOK /\ [Next]_vars => TypeOK'
  <1> SUFFICES ASSUME TypeOK, [Next]_vars PROVE TypeOK'
    OBVIOUS
  <1>a. \A w \in Worker : task[w] \in Task /\ Fits(w, task[w])
    BY DEF TypeOK
  <1>1. ASSUME NEW s \in Session, NEW c \in Client, SignIn(s, c) PROVE TypeOK'
    <2>1. issued + 1 \in Token /\ issued' \in 0..MaxToken /\ issued' = issued + 1
      BY <1>1, Bounds DEF SignIn, TokensLeft, Token, TypeOK
    <2>2. metadata' \in [Token -> Client \cup {NoClient}]
      BY <1>1, <2>1 DEF SignIn, TypeOK
    <2>3. /\ mapping' \in [Token -> Session \cup {NoSession}]
          /\ origin' \in [Token -> Session \cup {NoSession}]
      BY <1>1, <2>1 DEF SignIn, TypeOK
    <2>4. /\ stored' \in [Session -> 0..MaxUpstream]
          /\ cognito' \in [Session -> 0..MaxUpstream]
          /\ owner' \in [Session -> Client \cup {NoClient}]
      BY <1>1, Bounds DEF SignIn, TypeOK
    <2>5. handed' \in SUBSET Token
      BY <1>1, <2>1 DEF SignIn, TypeOK
    <2> QED
      BY <1>1, <2>1, <2>2, <2>3, <2>4, <2>5 DEF SignIn, TypeOK
  <1>2. ASSUME NEW r \in Request, NEW p \in Replica, NEW c \in Client, NEW t \in Token,
               Present(r, p, c, t)
        PROVE  TypeOK'
    <2> DEFINE asked == [Idle(p) EXCEPT !.client = c, !.token = t]
    <2>1. Idle(p) \in Task /\ t \in 0..MaxToken
      BY IdleType, Bounds
    <2>2. /\ asked \in Task /\ asked.client \in Client /\ asked.token \in Token
          /\ "load" \in Steps
      BY <2>1 DEF Task, Steps, Idle
    <2>3. Fits(r, [asked EXCEPT !.pc = "load"])
      BY <2>2, Bounds DEF Fits, Idle
    <2>4. ReplayOr(r, asked, "load")
      BY <1>2 DEF Present
    <2> HIDE DEF asked
    <2>5. /\ task' \in [Worker -> Task] /\ \A v \in Worker : Fits(v, task'[v])
          /\ recent' \in [Replica -> Seq(Replay(Token, Client))]
      BY <2>2, <2>3, <2>4, ReplayOrType
    <2> QED
      BY <1>2, <2>5 DEF Present, TypeOK, stores, history
  <1>3. ASSUME NEW r \in Request, Load(r) PROVE TypeOK'
    <2>1. /\ r \in Worker /\ task[r] \in Task /\ "resolve" \in Steps
          /\ task[r].client \in Client /\ task[r].token \in Token
          /\ Fits(r, [task[r] EXCEPT !.pc = "resolve"])
      BY <1>3, <1>a, Bounds DEF Load, At, Fits, Task, Steps
    <2>2. CASE ReplayOr(r, task[r], "resolve")
      <3>1. /\ task' \in [Worker -> Task] /\ \A v \in Worker : Fits(v, task'[v])
            /\ recent' \in [Replica -> Seq(Replay(Token, Client))]
        BY <2>1, <2>2, ReplayOrType
      <3> QED
        BY <1>3, <3>1 DEF Load, TypeOK, stores, history
    <2>3. CASE Becomes(r, Answered(task[r], "invalid_grant", 0)) /\ UNCHANGED recent
      <3>1. /\ Answered(task[r], "invalid_grant", 0) \in Task
            /\ Fits(r, Answered(task[r], "invalid_grant", 0))
        BY <2>1, AnsweredType, Bounds DEF Answers
      <3>2. task' \in [Worker -> Task] /\ \A v \in Worker : Fits(v, task'[v])
        BY <2>1, <2>3, <3>1, BecomesType
      <3> QED
        BY <1>3, <2>3, <3>2 DEF Load, TypeOK, stores, history
    <2> QED
      BY <1>3, <2>2, <2>3 DEF Load
  <1>4. ASSUME NEW r \in Request, Resolve(r) PROVE TypeOK'
    <2>1. /\ r \in Worker /\ task[r] \in Task /\ task[r].token \in Token
          /\ mapping[task[r].token] \in Session \cup {NoSession}
      BY <1>4, <1>a, Bounds DEF Resolve, At, Fits, TypeOK
    <2>2. CASE /\ mapping[task[r].token] # NoSession
               /\ Becomes(r, [task[r] EXCEPT !.pc = "queue",
                                             !.session = mapping[task[r].token]])
      <3> DEFINE t == [task[r] EXCEPT !.pc = "queue", !.session = mapping[task[r].token]]
      <3>1. t \in Task /\ Fits(r, t)
        BY <1>4, <1>a, <2>1, <2>2, Bounds DEF Resolve, At, Fits, Task, Steps
      <3>2. task' \in [Worker -> Task] /\ \A v \in Worker : Fits(v, task'[v])
        BY <2>1, <2>2, <3>1, BecomesType
      <3> QED
        BY <1>4, <3>2 DEF Resolve, TypeOK, stores, history
    <2>3. CASE Goto(r, "exchange")
      <3>1. [task[r] EXCEPT !.pc = "exchange"] \in Task /\ Fits(r, [task[r] EXCEPT !.pc = "exchange"])
        BY <1>4, <1>a, <2>1, Bounds DEF Resolve, At, Fits, Task, Steps
      <3>2. task' \in [Worker -> Task] /\ \A v \in Worker : Fits(v, task'[v])
        BY <2>1, <2>3, <3>1, BecomesType DEF Goto
      <3> QED
        BY <1>4, <3>2 DEF Resolve, TypeOK, stores, history
    <2> QED
      BY <1>4, <2>2, <2>3 DEF Resolve
  <1>5. ASSUME NEW r \in Request, Acquire(r) PROVE TypeOK'
    <2> DEFINE t == [task[r] EXCEPT !.locked = TRUE]
    <2>1. /\ r \in Worker /\ task[r] \in Task /\ "exchange" \in Steps
          /\ task[r].replica \in Replica /\ task[r].session \in Session
      BY <1>5, <1>a, Bounds DEF Acquire, At, Fits, Task, Steps
    <2>2. /\ t \in Task /\ t.client \in Client /\ t.token \in Token
          /\ Fits(r, [t EXCEPT !.pc = "exchange"])
      BY <1>5, <1>a, <2>1, Bounds DEF Acquire, At, Fits, Task
    <2>3. ReplayOr(r, t, "exchange")
      BY <1>5 DEF Acquire
    <2> HIDE DEF t
    <2>4. /\ task' \in [Worker -> Task] /\ \A v \in Worker : Fits(v, task'[v])
          /\ recent' \in [Replica -> Seq(Replay(Token, Client))]
      BY <2>1, <2>2, <2>3, ReplayOrType
    <2>5. lock' \in [Replica -> [Session -> Worker \cup {Nobody}]]
      BY <1>5, <2>1 DEF Acquire, TypeOK
    <2> QED
      BY <1>5, <2>4, <2>5 DEF Acquire, TypeOK, stores, history
  <1>6. ASSUME NEW r \in Request, ReadGrant(r) PROVE TypeOK'
    <2> DEFINE s == mapping[task[r].token]
               f == Raised(task[r], "unmapped")
               u == [task[r] EXCEPT !.pc = "upstream", !.session = s, !.rt = stored[s]]
    <2>1. /\ r \in Worker /\ task[r] \in Task /\ task[r].token \in Token
          /\ s \in Session \cup {NoSession}
          /\ s \in Session => stored[s] \in 0..MaxUpstream
      BY <1>6, <1>a, Bounds DEF ReadGrant, At, Fits, TypeOK
    <2>2. f \in Task /\ Fits(r, f)
      BY <1>6, <1>a, <2>1, RaisedType DEF ReadGrant, At, Causes
    <2>3. ASSUME s # NoSession PROVE u \in Task /\ Fits(r, u)
      <3>1. s \in Session /\ stored[s] \in 0..MaxUpstream
        BY <2>1, <2>3
      <3>2. u \in Task
        BY <2>1, <3>1 DEF Task, Steps
      <3>3. Fits(r, u)
        BY <1>6, <1>a, <2>1, <3>1, Bounds DEF ReadGrant, At, Fits, Task
      <3> QED
        BY <3>2, <3>3
    <2>4. Becomes(r, f) \/ (s # NoSession /\ Becomes(r, u))
      BY <1>6 DEF ReadGrant
    <2> HIDE DEF f, u
    <2>5. task' \in [Worker -> Task] /\ \A v \in Worker : Fits(v, task'[v])
      BY <2>1, <2>2, <2>3, <2>4, BecomesType
    <2> QED
      BY <1>6, <2>5 DEF ReadGrant, TypeOK, stores, history
  <1>7. ASSUME NEW b \in Background, NEW p \in Replica, NEW s \in Session,
               StartBackground(b, p, s)
        PROVE  TypeOK'
    <2> DEFINE t == [Idle(p) EXCEPT !.pc = "queue", !.session = s]
    <2>1. t \in Task /\ Fits(b, t)
      BY IdleType, Bounds DEF Idle, Fits, Task, Steps
    <2>2. Becomes(b, t) /\ b \in Worker
      BY <1>7, Bounds DEF StartBackground
    <2> HIDE DEF t
    <2>3. task' \in [Worker -> Task] /\ \A v \in Worker : Fits(v, task'[v])
      BY <2>1, <2>2, BecomesType
    <2> QED
      BY <1>7, <2>3 DEF StartBackground, TypeOK, stores, history
  <1>8. ASSUME NEW b \in Background, AcquireBackground(b) PROVE TypeOK'
    <2> DEFINE u == [task[b] EXCEPT !.pc = "upstream", !.locked = TRUE,
                                    !.rt = stored[task[b].session]]
    <2>1. /\ b \in Worker /\ task[b] \in Task /\ task[b].session \in Session
          /\ task[b].replica \in Replica /\ stored[task[b].session] \in 0..MaxUpstream
      BY <1>8, <1>a, Bounds DEF AcquireBackground, At, Fits, Task, TypeOK
    <2>2. u \in Task /\ Fits(b, u) /\ Idle(Home) \in Task /\ Fits(b, Idle(Home))
      <3>1. u \in Task
        BY <2>1 DEF Task, Steps
      <3>2. Fits(b, u)
        BY <1>8, <1>a, <2>1, Bounds DEF AcquireBackground, At, Fits, Task
      <3> QED
        BY <2>1, <3>1, <3>2, HomeType, IdleType
    <2>3. Becomes(b, Idle(Home)) \/ Becomes(b, u)
      BY <1>8 DEF AcquireBackground
    <2>4. lock' \in [Replica -> [Session -> Worker \cup {Nobody}]]
      <3>1. CASE UNCHANGED lock
        BY <3>1 DEF TypeOK
      <3>2. CASE lock' = [lock EXCEPT ![task[b].replica][task[b].session] = b]
        BY <2>1, <3>2 DEF TypeOK
      <3> QED
        BY <1>8, <3>1, <3>2 DEF AcquireBackground
    <2> HIDE DEF u
    <2>5. task' \in [Worker -> Task] /\ \A v \in Worker : Fits(v, task'[v])
      BY <2>1, <2>2, <2>3, BecomesType
    <2> QED
      BY <1>8, <2>4, <2>5 DEF AcquireBackground, TypeOK, stores, history
  <1>9. ASSUME NEW w \in Worker, UpstreamGrants(w) PROVE TypeOK'
    <2> DEFINE s == task[w].session
               t == [task[w] EXCEPT !.pc = "save", !.rt = NextGeneration(s)]
    <2>1. task[w] \in Task /\ s \in Session /\ NextGeneration(s) \in 0..MaxUpstream
      <3>1. s \in Session /\ cognito[s] \in 0..MaxUpstream
        BY <1>9, <1>a DEF UpstreamGrants, At, Fits, TypeOK
      <3> QED
        BY <1>9, <1>a, <3>1, Bounds DEF UpstreamGrants, NextGeneration
    <2>2. t \in Task
      BY <2>1 DEF Task, Steps
    <2>3. Fits(w, t)
      BY <1>9, <1>a, <2>1, Bounds DEF UpstreamGrants, At, Fits, Task
    <2>4. Becomes(w, t) /\ cognito' \in [Session -> 0..MaxUpstream]
      BY <1>9, <2>1 DEF UpstreamGrants, TypeOK
    <2> HIDE DEF t
    <2>5. task' \in [Worker -> Task] /\ \A v \in Worker : Fits(v, task'[v])
      BY <2>2, <2>3, <2>4, BecomesType
    <2> QED
      BY <1>9, <2>4, <2>5 DEF UpstreamGrants, TypeOK, stores, history
  <1>10. ASSUME NEW w \in Worker, UpstreamRejects(w) \/ UpstreamFails(w) PROVE TypeOK'
    <2> DEFINE s == task[w].session
    <2>1. task[w] \in Task /\ s \in Session /\ cognito[s] \in 0..MaxUpstream
      BY <1>10, <1>a DEF UpstreamRejects, UpstreamFails, At, Fits, TypeOK
    <2>2. PICK c \in UpstreamCauses : Becomes(w, Raised(task[w], c))
      BY <1>10, UpstreamRaises
    <2>3. Raised(task[w], c) \in Task /\ Fits(w, Raised(task[w], c))
      BY <1>10, <1>a, <2>1, RaisedType DEF UpstreamRejects, UpstreamFails, At, Causes
    <2>5. cognito' \in [Session -> 0..MaxUpstream]
      <3>1. NextGeneration(s) <= MaxUpstream => NextGeneration(s) \in 0..MaxUpstream
        BY <2>1, Bounds DEF NextGeneration
      <3> QED
        BY <1>10, <2>1, <3>1 DEF UpstreamRejects, UpstreamFails, TypeOK
    <2>6. task' \in [Worker -> Task] /\ \A v \in Worker : Fits(v, task'[v])
      BY <2>2, <2>3, BecomesType
    <2> QED
      BY <1>10, <2>5, <2>6 DEF UpstreamRejects, UpstreamFails, TypeOK, stores, history
  <1>11. ASSUME NEW w \in Worker, Fail(w) PROVE TypeOK'
    <2> DEFINE t == IF w \in Request THEN Answered(task[w], task[w].answer, 0) ELSE Idle(Home)
    <2>1. t \in Task /\ Fits(w, t)
      <3>1. CASE w \in Request
        <4>1. /\ task[w] \in Task /\ task[w].client \in Client /\ task[w].token \in Token
              /\ task[w].answer \in Answers
          BY <1>11, <1>a, <3>1 DEF Fail, At, Fits, Task
        <4> QED
          BY <3>1, <4>1, AnsweredType, Bounds
      <3>2. CASE w \notin Request
        BY <3>2, HomeType, IdleType
      <3> QED
        BY <3>1, <3>2
    <2>2. Becomes(w, t) /\ lock' = Released(w)
      BY <1>11 DEF Fail
    <2> HIDE DEF t
    <2>3. task' \in [Worker -> Task] /\ \A v \in Worker : Fits(v, task'[v])
      BY <2>1, <2>2, BecomesType
    <2>4. lock' \in [Replica -> [Session -> Worker \cup {Nobody}]]
      BY <1>a, <2>2, ReleasedType
    <2> QED
      BY <1>11, <2>3, <2>4 DEF Fail, TypeOK, stores, history
  <1>12. ASSUME NEW w \in Worker, Save(w) PROVE TypeOK'
    <2> DEFINE t == [task[w] EXCEPT !.pc = "issue"]
    <2>1. task[w] \in Task /\ task[w].session \in Session /\ task[w].rt \in 0..MaxUpstream
      BY <1>12, <1>a DEF Save, At, Fits, Task
    <2>2. stored' \in [Session -> 0..MaxUpstream]
      BY <1>12, <2>1 DEF Save, TypeOK
    <2>3. t \in Task
      BY <2>1 DEF Task, Steps
    <2>4. w \in Request => Fits(w, t)
      BY <1>12, <1>a, <2>1, Bounds DEF Save, At, Fits, Task
    <2>5. Idle(Home) \in Task /\ Fits(w, Idle(Home))
      BY HomeType, IdleType
    <2>6. (w \in Request /\ Becomes(w, t)) \/ Becomes(w, Idle(Home))
      BY <1>12 DEF Save, Goto
    <2> HIDE DEF t
    <2>7. task' \in [Worker -> Task] /\ \A v \in Worker : Fits(v, task'[v])
      BY <2>3, <2>4, <2>5, <2>6, BecomesType
    <2>8. lock' \in [Replica -> [Session -> Worker \cup {Nobody}]]
      BY <1>12, ReleasedType DEF Save, TypeOK
    <2> QED
      BY <1>12, <2>2, <2>7, <2>8 DEF Save, TypeOK, history
  <1>13. ASSUME NEW r \in Request, Issue(r) PROVE TypeOK'
    <2> DEFINE t == [task[r] EXCEPT !.pc = "rotate", !.fresh = issued + 1]
    <2>1. /\ r \in Worker /\ task[r] \in Task /\ task[r].session \in Session
          /\ task[r].token \in Token /\ task[r].token \in 0..MaxToken
      BY <1>13, <1>a, Bounds DEF Issue, At, Fits, Task
    <2>2. issued + 1 \in Token /\ issued + 1 \in 0..MaxToken
      BY <1>13, Bounds DEF Issue, Token, TypeOK
    <2>3. t \in Task
      BY <2>1, <2>2 DEF Task, Steps
    <2>4. Fits(r, t)
      BY <1>13, <1>a, <2>1, <2>2, Bounds DEF Issue, At, Fits, Task
    <2>5. Becomes(r, t)
      BY <1>13 DEF Issue
    <2> HIDE DEF t
    <2>6. task' \in [Worker -> Task] /\ \A v \in Worker : Fits(v, task'[v])
      BY <2>1, <2>3, <2>4, <2>5, BecomesType
    <2>7. /\ mapping' \in [Token -> Session \cup {NoSession}]
          /\ origin' \in [Token -> Session \cup {NoSession}]
      BY <1>13, <2>1, <2>2 DEF Issue, TypeOK
    <2>8. parent' \in [Token -> 0..MaxToken]
      BY <1>13, <2>1, <2>2 DEF Issue, TypeOK
    <2> QED
      BY <1>13, <2>2, <2>6, <2>7, <2>8 DEF Issue, TypeOK
  <1>14. ASSUME NEW r \in Request, Rotate(r) \/ Register(r) \/ Retire(r) PROVE TypeOK'
    <2>1. /\ r \in Worker /\ task[r] \in Task /\ task[r].token \in Token
          /\ task[r].client \in Client
          /\ task[r].fresh \in Token
      BY <1>14, <1>a, Bounds DEF Rotate, Register, Retire, At, Fits, Task
    <2>2. /\ metadata' \in [Token -> Client \cup {NoClient}]
          /\ mapping' \in [Token -> Session \cup {NoSession}]
      BY <1>14, <2>1 DEF Rotate, Register, Retire, TypeOK
    <2>3. \A k \in {"register", "retire", "record"} : [task[r] EXCEPT !.pc = k] \in Task
      BY <2>1 DEF Task, Steps
    <2>4. \A k \in {"register", "retire", "record"} : Fits(r, [task[r] EXCEPT !.pc = k])
      BY <1>14, <1>a, <2>1, Bounds DEF Rotate, Register, Retire, At, Fits, Task
    <2>5. \E k \in {"register", "retire", "record"} : Becomes(r, [task[r] EXCEPT !.pc = k])
      BY <1>14 DEF Rotate, Register, Retire, Goto
    <2>6. task' \in [Worker -> Task] /\ \A v \in Worker : Fits(v, task'[v])
      BY <2>1, <2>3, <2>4, <2>5, BecomesType
    <2> QED
      BY <1>14, <2>2, <2>6 DEF Rotate, Register, Retire, TypeOK, history
  <1>15. ASSUME NEW r \in Request, Record(r) PROVE TypeOK'
    <2> DEFINE p == task[r].replica
               R == Replay(Token, Client)
               t == Answered(task[r], "tokens", task[r].fresh)
    <2>1. /\ r \in Worker /\ task[r] \in Task /\ task[r].token \in Token
          /\ task[r].client \in Client /\ task[r].fresh \in Token
          /\ task[r].fresh \in 0..MaxToken /\ p \in Replica /\ clock \in Nat
      BY <1>15, <1>a, Bounds DEF Record, At, Fits, Task, TypeOK
    <2>2. "tokens" \in Answers
      BY DEF Answers
    <2>3. t \in Task /\ Fits(r, t)
      BY <2>1, <2>2, AnsweredType
    <2>4. Becomes(r, t) /\ lock' = Released(r)
      BY <1>15 DEF Record
    <2>5. task' \in [Worker -> Task] /\ \A v \in Worker : Fits(v, task'[v])
      BY <2>1, <2>3, <2>4, BecomesType
    <2>6. lock' \in [Replica -> [Session -> Worker \cup {Nobody}]]
      BY <2>1, <2>4, ReleasedType
    <2>7. recent' \in [Replica -> Seq(R)]
      <3>1. Rotation(r) \in R
        BY <2>1, Bounds DEF Rotation, Replay
      <3>2. recent[p] \in Seq(R)
        BY <2>1 DEF TypeOK
      <3>3. Recorded(recent[p], Rotation(r), clock) \in Seq(R)
        BY <2>1, <3>1, <3>2, RecordedEntries
      <3> QED
        BY <1>15, <2>1, <3>3 DEF Record, TypeOK
    <2>8. handed' \in SUBSET Token
      BY <1>15, <2>1 DEF Record, TypeOK
    <2> QED
      BY <1>15, <2>5, <2>6, <2>7, <2>8 DEF Record, TypeOK, stores, history
  <1>16. ASSUME NEW r \in Request, Finish(r) PROVE TypeOK'
    <2>1. r \in Worker /\ Idle(Home) \in Task /\ Fits(r, Idle(Home))
      BY HomeType, IdleType, Bounds
    <2>2. task' \in [Worker -> Task] /\ \A v \in Worker : Fits(v, task'[v])
      BY <1>16, <2>1, BecomesType DEF Finish
    <2> QED
      BY <1>16, <2>2 DEF Finish, TypeOK, stores, history
  <1>17. CASE Tick
    <2>1. clock' \in 0..MaxTime
      BY <1>17, Bounds DEF Tick, TypeOK
    <2> QED
      BY <1>17, <2>1 DEF Tick, TypeOK, stores, history
  <1>18. ASSUME NEW s \in Session, Revoke(s) PROVE TypeOK'
    <2>1. cognito' \in [Session -> 0..MaxUpstream]
      BY <1>18, Bounds DEF Revoke, TypeOK
    <2> QED
      BY <1>18, <2>1 DEF Revoke, TypeOK, stores, history
  <1>19. ASSUME NEW p \in Replica, Crash(p) PROVE TypeOK'
    <2>1. task' \in [Worker -> Task] /\ \A v \in Worker : Fits(v, task'[v])
      BY <1>19, <1>a, HomeType, IdleType DEF Crash
    <2>2. lock' \in [Replica -> [Session -> Worker \cup {Nobody}]]
      BY <1>19 DEF Crash, TypeOK
    <2>3. recent' \in [Replica -> Seq(Replay(Token, Client))]
      BY <1>19 DEF Crash, TypeOK
    <2> QED
      BY <1>19, <2>1, <2>2, <2>3 DEF Crash, TypeOK, stores, history
  <1>20. CASE UNCHANGED vars
    BY <1>20 DEF vars, TypeOK, stores, history
  <1>21. ASSUME NEW w \in Worker, StoreFails(w) PROVE TypeOK'
    <2>1. task[w] \in Task /\ task[w].pc # "idle" /\ "store" \in Causes
      BY <1>21, <1>a DEF StoreFails, Storing, At, Causes
    <2>2. Raised(task[w], "store") \in Task /\ Fits(w, Raised(task[w], "store"))
      BY <1>a, <2>1, RaisedType
    <2>3. CASE At(w, "load") /\ Becomes(w, Answered(Raised(task[w], "store"), "server_error", 0))
      <3>1. w \in Request /\ task[w].client \in Client /\ task[w].token \in Token
        BY <1>a, <2>3, Bounds DEF At, Fits
      <3>2. PICK t : t = Raised(task[w], "store")
        OBVIOUS
      <3>3. t \in Task /\ t.client \in Client /\ t.token \in Token
        BY <2>1, <2>2, <3>1, <3>2, RaisedFields
      <3>4. /\ Answered(t, "server_error", 0) \in Task
            /\ Fits(w, Answered(t, "server_error", 0))
        BY <3>1, <3>3, AnsweredType, Bounds DEF Answers
      <3> QED
        BY <1>21, <2>3, <3>2, <3>4, BecomesType DEF StoreFails, TypeOK, stores, history
    <2>4. CASE Becomes(w, Raised(task[w], "store"))
      BY <1>21, <2>2, <2>4, BecomesType DEF StoreFails, TypeOK, stores, history
    <2> QED
      BY <1>21, <2>3, <2>4 DEF StoreFails
  <1> QED
    BY <1>1, <1>2, <1>3, <1>4, <1>5, <1>6, <1>7, <1>8, <1>9, <1>10, <1>11, <1>12, <1>13,
       <1>14, <1>15, <1>16, <1>17, <1>18, <1>19, <1>20, <1>21 DEF Next, Exchange, Upstream

(***************************************************************************)
(* Every state of the model is well typed, and every worker knows what the *)
(* step it is at needs.                                                    *)
(***************************************************************************)
THEOREM TypeCorrect == Spec => []TypeOK
  BY TypeInit, TypeNext, PTL DEF Spec

-----------------------------------------------------------------------------
(***************************************************************************)
(* Whose tokens are whose.  A token belongs to the client that signed in   *)
(* to the session it was issued for; the stores, the replay windows and    *)
(* the requests under way say of a token only what is so, and that stays   *)
(* so, because a session keeps its owner and a token its origin.           *)
(***************************************************************************)
Belongs(t, c) == t \in 1..issued /\ origin[t] \in Session /\ owner[origin[t]] = c

RegisteredRightly ==
  \A t \in Token : metadata[t] # NoClient => Belongs(t, metadata[t])

MappedRightly ==
  \A t \in Token : mapping[t] # NoSession => t \in 1..issued /\ mapping[t] = origin[t]

ReplayedRightly ==
  \A p \in Replica : \A e \in Entries(recent[p]) : Belongs(e.next, e.client)

PastLoad == {"resolve", "queue", "exchange", "upstream", "save", "issue",
             "rotate", "register", "retire", "record", "failed"}

WithSession == {"queue", "upstream", "save", "issue", "rotate", "register", "retire", "record"}

WithFresh == {"rotate", "register", "retire", "record"}

Rightful(t) ==
  /\ t.pc \in PastLoad => Belongs(t.token, t.client)
  /\ t.locked \/ t.pc \in WithSession => t.session = origin[t.token]
  /\ t.pc \in WithFresh \/ (t.pc = "done" /\ t.answer = "tokens") => Belongs(t.fresh, t.client)
  /\ t.pc = "failed" => t.answer # "tokens"

ClientInv ==
  /\ RegisteredRightly
  /\ MappedRightly
  /\ ReplayedRightly
  /\ \A r \in Request : Rightful(task[r])

\* Which steps write the ledger, the two stores and the replay windows.
SignsIn == \E s \in Session, c \in Client : SignIn(s, c)
Presents == \E r \in Request, p \in Replica, c \in Client, t \in Token : Present(r, p, c, t)

\* Which steps write the ledger, the stores, the replay windows and the workers.
LEMMA WhoWrites ==
  ASSUME [Next]_vars
  PROVE  /\ \/ UNCHANGED <<issued, origin, owner>>
            \/ SignsIn \/ \E r \in Request : Issue(r)
         /\ \/ UNCHANGED metadata
            \/ SignsIn \/ \E r \in Request : Register(r) \/ Retire(r)
         /\ \/ UNCHANGED mapping
            \/ SignsIn \/ \E r \in Request : Issue(r) \/ Rotate(r)
         /\ \/ UNCHANGED recent
            \/ Presents
            \/ \E r \in Request : Load(r) \/ Acquire(r) \/ Record(r)
            \/ \E p \in Replica : Crash(p)
  <1> USE DEF stores, history
  <1> DEFINE Same == UNCHANGED <<issued, origin, owner, metadata, mapping, recent>>
             SameStores == UNCHANGED <<issued, origin, owner, metadata, mapping>>
  <1>1. SignsIn => UNCHANGED recent
    BY DEF SignsIn, SignIn
  <1>2. Presents => SameStores
    BY DEF Presents, Present
  <1>3. ASSUME NEW r \in Request PROVE Load(r) \/ Acquire(r) \/ Record(r) => SameStores
    BY DEF Load, Acquire, Record
  <1>4. ASSUME NEW r \in Request PROVE Resolve(r) \/ ReadGrant(r) \/ Finish(r) => Same
    BY DEF Resolve, ReadGrant, Finish
  <1>5. ASSUME NEW r \in Request PROVE Issue(r) => UNCHANGED <<metadata, recent>>
    BY DEF Issue
  <1>6. ASSUME NEW r \in Request
        PROVE  Rotate(r) => UNCHANGED <<issued, origin, owner, metadata, recent>>
    BY DEF Rotate
  <1>7. ASSUME NEW r \in Request
        PROVE  Register(r) \/ Retire(r) => UNCHANGED <<issued, origin, owner, mapping, recent>>
    BY DEF Register, Retire
  <1>8. ASSUME NEW b \in Background
        PROVE  AcquireBackground(b)
               \/ (\E p \in Replica, s \in Session : StartBackground(b, p, s)) => Same
    BY DEF AcquireBackground, StartBackground
  <1>9. ASSUME NEW w \in Worker PROVE Upstream(w) \/ Save(w) \/ StoreFails(w) \/ Fail(w) => Same
    BY DEF Upstream, UpstreamGrants, UpstreamRejects, UpstreamFails, Save, StoreFails, Fail
  <1>10. Tick \/ (\E s \in Session : Revoke(s)) => Same
    BY DEF Tick, Revoke
  <1>11. ASSUME NEW p \in Replica PROVE Crash(p) => SameStores
    BY DEF Crash
  <1>12. UNCHANGED vars => Same
    BY DEF vars
  <1>13. CASE SignsIn
    BY <1>1, <1>13
  <1>14. CASE Presents
    BY <1>2, <1>14
  <1>15. CASE \E r \in Request : Exchange(r) \/ Finish(r)
    BY <1>3, <1>4, <1>5, <1>6, <1>7, <1>15 DEF Exchange
  <1>16. CASE \/ \E b \in Background : \/ AcquireBackground(b)
                                       \/ \E p \in Replica, s \in Session : StartBackground(b, p, s)
              \/ \E w \in Worker : Upstream(w) \/ Save(w) \/ StoreFails(w) \/ Fail(w)
              \/ Tick
              \/ \E s \in Session : Revoke(s)
              \/ UNCHANGED vars
    <2>1. Same
      BY <1>8, <1>9, <1>10, <1>12, <1>16
    <2> QED
      BY <2>1
  <1>17. CASE \E p \in Replica : Crash(p)
    BY <1>11, <1>17
  <1> QED
    BY <1>13, <1>14, <1>15, <1>16, <1>17 DEF Next, SignsIn, Presents

\* A step leaves the ledger alone, or enters the next token in it.
LEMMA LedgerStep ==
  ASSUME TypeOK, [Next]_vars
  PROVE  \/ UNCHANGED <<issued, origin, owner>>
         \/ /\ issued' = issued + 1
            /\ \A t \in 1..issued : origin'[t] = origin[t]
            /\ \A s \in Session : owner[s] # NoClient => owner'[s] = owner[s]
  <1>1. CASE SignsIn
    BY <1>1, Bounds DEF SignsIn, SignIn, TypeOK, Token
  <1>2. CASE \E r \in Request : Issue(r)
    BY <1>2, Bounds DEF Issue, TypeOK, Token
  <1> QED
    BY <1>1, <1>2, WhoWrites

\* Whose a token is never changes.
LEMMA BelongsForGood ==
  ASSUME TypeOK, [Next]_vars
  PROVE  \A t : \A c \in Client :
           Belongs(t, c) => Belongs(t, c)' /\ origin'[t] = origin[t]
  <1> TAKE t
  <1> TAKE c \in Client
  <1> HAVE Belongs(t, c)
  <1>1. /\ t \in 1..issued /\ origin[t] \in Session /\ owner[origin[t]] = c
        /\ issued \in Nat /\ c # NoClient
    BY Bounds DEF Belongs, TypeOK
  <1>2. CASE UNCHANGED <<issued, origin, owner>>
    BY <1>1, <1>2 DEF Belongs
  <1>3. CASE /\ issued' = issued + 1
             /\ \A u \in 1..issued : origin'[u] = origin[u]
             /\ \A s \in Session : owner[s] # NoClient => owner'[s] = owner[s]
    BY <1>1, <1>3 DEF Belongs
  <1> QED
    BY <1>2, <1>3, LedgerStep

\* What a request knows of its tokens stays so.
LEMMA RightfulForGood ==
  ASSUME TypeOK, [Next]_vars, NEW r \in Request, NEW t \in Task, Fits(r, t), Rightful(t)
  PROVE  Rightful(t)'
  <1>1. t.pc # "idle" => t.client \in Client
    BY DEF Fits
  <1>2. t.pc \in PastLoad => Belongs(t.token, t.client)' /\ origin'[t.token] = origin[t.token]
    BY <1>1, BelongsForGood DEF Rightful, PastLoad
  <1>3. t.locked \/ t.pc \in WithSession => t.pc \in PastLoad
    BY DEF Fits, Task, Steps, PastLoad, WithSession
  <1>4. t.pc \in WithFresh \/ (t.pc = "done" /\ t.answer = "tokens") => Belongs(t.fresh, t.client)'
    BY <1>1, BelongsForGood DEF Rightful, WithFresh
  <1> QED
    BY <1>2, <1>3, <1>4 DEF Rightful

(***************************************************************************)
(* The metadata store: only a sign-in and Register enter a client.         *)
(***************************************************************************)
LEMMA RegisteredNext ==
  ASSUME TypeOK, ClientInv, [Next]_vars
  PROVE  RegisteredRightly'
  <1> SUFFICES ASSUME NEW t \in Token, metadata'[t] # NoClient
               PROVE  Belongs(t, metadata[t])'
    BY DEF RegisteredRightly
  <1>0. ASSUME metadata'[t] = metadata[t] PROVE Belongs(t, metadata[t])'
    <2>1. metadata[t] \in Client /\ Belongs(t, metadata[t])
      BY <1>0 DEF ClientInv, RegisteredRightly, TypeOK
    <2>2. \A c \in Client : c = metadata[t] => Belongs(t, c)'
      BY <2>1, BelongsForGood
    <2> QED
      BY <1>0, <2>1, <2>2 DEF Belongs
  <1>1. ASSUME NEW s \in Session, NEW c \in Client, SignIn(s, c) PROVE Belongs(t, metadata[t])'
    <2>1. CASE t = issued + 1
      BY <1>1, <2>1, Bounds DEF SignIn, Belongs, TypeOK, Token
    <2>2. CASE t # issued + 1
      BY <1>0, <1>1, <2>2 DEF SignIn, TypeOK
    <2> QED
      BY <2>1, <2>2
  <1>2. ASSUME NEW r \in Request, Register(r) PROVE Belongs(t, metadata[t])'
    <2>1. CASE t = task[r].fresh
      <3>1. Belongs(task[r].fresh, task[r].client)
        BY <1>2 DEF Register, At, ClientInv, Rightful, WithFresh
      <3>2. metadata'[t] = task[r].client /\ UNCHANGED <<issued, origin, owner>>
        BY <1>2, <2>1 DEF Register, TypeOK, history
      <3> QED
        BY <2>1, <3>1, <3>2 DEF Belongs
    <2>2. CASE t # task[r].fresh
      BY <1>0, <1>2, <2>2 DEF Register, TypeOK
    <2> QED
      BY <2>1, <2>2
  <1>3. ASSUME NEW r \in Request, Retire(r) PROVE Belongs(t, metadata[t])'
    BY <1>0, <1>3 DEF Retire, TypeOK
  <1>4. CASE UNCHANGED metadata
    BY <1>0, <1>4
  <1> QED
    BY <1>1, <1>2, <1>3, <1>4, WhoWrites DEF SignsIn

(***************************************************************************)
(* The mapping store: only a sign-in and Issue enter a session, that of    *)
(* the new token.                                                          *)
(***************************************************************************)
LEMMA MappedNext ==
  ASSUME TypeOK, ClientInv, [Next]_vars
  PROVE  MappedRightly'
  <1> SUFFICES ASSUME NEW t \in Token, mapping'[t] # NoSession
               PROVE  t \in 1..issued' /\ mapping'[t] = origin'[t]
    BY DEF MappedRightly
  <1>0. ASSUME mapping'[t] = mapping[t] PROVE t \in 1..issued' /\ mapping'[t] = origin'[t]
    <2>1. t \in 1..issued /\ mapping[t] = origin[t] /\ issued \in Nat
      BY <1>0, Bounds DEF ClientInv, MappedRightly, TypeOK
    <2> QED
      BY <1>0, <2>1, LedgerStep
  <1>1. ASSUME NEW s \in Session, NEW c \in Client, SignIn(s, c)
        PROVE  t \in 1..issued' /\ mapping'[t] = origin'[t]
    <2>1. CASE t = issued + 1
      BY <1>1, <2>1, Bounds DEF SignIn, TypeOK
    <2>2. CASE t # issued + 1
      BY <1>0, <1>1, <2>2 DEF SignIn, TypeOK
    <2> QED
      BY <2>1, <2>2
  <1>2. ASSUME NEW r \in Request, Issue(r)
        PROVE  t \in 1..issued' /\ mapping'[t] = origin'[t]
    <2>1. CASE t = issued + 1
      BY <1>2, <2>1, Bounds DEF Issue, TypeOK
    <2>2. CASE t # issued + 1
      BY <1>0, <1>2, <2>2 DEF Issue, TypeOK
    <2> QED
      BY <2>1, <2>2
  <1>3. ASSUME NEW r \in Request, Rotate(r)
        PROVE  t \in 1..issued' /\ mapping'[t] = origin'[t]
    BY <1>0, <1>3 DEF Rotate, TypeOK
  <1>4. CASE UNCHANGED mapping
    BY <1>0, <1>4
  <1> QED
    BY <1>1, <1>2, <1>3, <1>4, WhoWrites DEF SignsIn

(***************************************************************************)
(* The replay windows: only Record adds an entry, of its own rotation.     *)
(***************************************************************************)
LEMMA ReplayedNext ==
  ASSUME TypeOK, ClientInv, [Next]_vars
  PROVE  ReplayedRightly'
  <1> DEFINE R == Replay(Token, Client)
  <1> SUFFICES ASSUME NEW p \in Replica, NEW e \in Entries(recent'[p])
               PROVE  Belongs(e.next, e.client)'
    BY DEF ReplayedRightly, Entries
  <1>a. recent[p] \in Seq(R) /\ clock \in Nat
    BY Bounds DEF TypeOK
  <1>0. ASSUME e \in Entries(recent[p]) PROVE Belongs(e.next, e.client)'
    <2>1. e \in R
      BY <1>0, <1>a DEF Entries
    <2>2. e.client \in Client /\ Belongs(e.next, e.client)
      BY <1>0, <2>1 DEF Replay, ClientInv, ReplayedRightly
    <2> QED
      BY <2>2, BelongsForGood
  <1>1. ASSUME NEW q \in Replica, recent' = [recent EXCEPT ![q] = Purged(@, clock)]
        PROVE  Belongs(e.next, e.client)'
    <2>1. recent'[p] = recent[p] \/ recent'[p] = Purged(recent[p], clock)
      BY <1>1 DEF TypeOK
    <2> QED
      BY <1>0, <1>a, <2>1, PurgedEntries
  <1>2. ASSUME NEW r \in Request, NEW t \in Task, NEW step, ReplayOr(r, t, step)
        PROVE  Belongs(e.next, e.client)'
    BY <1>1, <1>2 DEF ReplayOr, Task
  <1>3. CASE Presents
    <2>1. PICK r \in Request : \E q \in Replica, c \in Client, t \in Token : Present(r, q, c, t)
      BY <1>3 DEF Presents
    <2>2. PICK q \in Replica : \E c \in Client, t \in Token : Present(r, q, c, t)
      BY <2>1
    <2>3. recent' = [recent EXCEPT ![q] = Purged(@, clock)]
      BY <2>2 DEF Present, ReplayOr, Idle
    <2> QED
      BY <1>1, <2>3
  <1>4. ASSUME NEW r \in Request, Load(r) PROVE Belongs(e.next, e.client)'
    <2>1. task[r] \in Task
      BY Bounds DEF TypeOK
    <2> QED
      BY <1>0, <1>2, <1>4, <2>1 DEF Load
  <1>5. ASSUME NEW r \in Request, Acquire(r) PROVE Belongs(e.next, e.client)'
    <2>1. task[r] \in Task
      BY Bounds DEF TypeOK
    <2>2. [task[r] EXCEPT !.locked = TRUE] \in Task
      BY <2>1 DEF Task
    <2> QED
      BY <1>2, <1>5, <2>2 DEF Acquire
  <1>6. ASSUME NEW r \in Request, Record(r) PROVE Belongs(e.next, e.client)'
    <2>1. /\ task[r] \in Task /\ task[r].token \in Token /\ task[r].client \in Client
          /\ task[r].fresh \in Token /\ clock \in Nat /\ Fits(r, task[r])
      BY <1>6, Bounds DEF Record, At, Fits, TypeOK
    <2>2. Rotation(r) \in R
      BY <2>1, Bounds DEF Rotation, Replay
    <2>3. \A t, c : t = task[r].fresh /\ c = task[r].client => Belongs(t, c)'
      BY <1>6, <2>1, BelongsForGood DEF Record, At, ClientInv, Rightful, WithFresh
    <2>4. \/ recent'[p] = recent[p]
          \/ recent'[p] = Recorded(recent[p], Rotation(r), clock)
      BY <1>6 DEF Record, TypeOK
    <2>5. CASE e = Rotation(r)
      BY <2>3, <2>5 DEF Rotation
    <2> QED
      BY <1>0, <1>a, <2>2, <2>4, <2>5, RecordedEntries
  <1>7. ASSUME NEW q \in Replica, Crash(q) PROVE Belongs(e.next, e.client)'
    <2>1. recent'[p] = recent[p] \/ recent'[p] = <<>>
      BY <1>7 DEF Crash, TypeOK
    <2> QED
      BY <1>0, <2>1 DEF Entries
  <1>8. CASE UNCHANGED recent
    BY <1>0, <1>8
  <1> QED
    BY <1>3, <1>4, <1>5, <1>6, <1>7, <1>8, WhoWrites

(***************************************************************************)
(* The requests.  A step rewrites one worker; the others keep what they    *)
(* know by RightfulForGood.                                                *)
(***************************************************************************)
LEMMA OneRewritten ==
  ASSUME TypeOK, ClientInv, [Next]_vars, NEW w \in Worker, NEW n, Becomes(w, n),
         w \in Request => Rightful(n)'
  PROVE  \A r \in Request : Rightful(task[r])'
  <1> TAKE r \in Request
  <1>1. CASE r = w
    BY <1>1, Bounds DEF Becomes, TypeOK, Rightful
  <1>2. CASE r # w
    <2>1. r \in Worker /\ task[r] \in Task /\ Fits(r, task[r]) /\ Rightful(task[r])
      BY Bounds DEF TypeOK, ClientInv
    <2>2. \A t : t = task[r] => Rightful(t)'
      BY <2>1, RightfulForGood
    <2> QED
      BY <1>2, <2>1, <2>2 DEF Becomes, TypeOK, Rightful
  <1> QED
    BY <1>1, <1>2

\* A replay answers the client with a pair of its own.
LEMMA ReplayRightful ==
  ASSUME TypeOK, ClientInv, [Next]_vars, NEW r \in Request, NEW t \in Task, NEW step \in Steps,
         t.client \in Client, t.token \in Token, ReplayOr(r, t, step),
         UNCHANGED <<issued, origin, owner>>, Rightful([t EXCEPT !.pc = step])
  PROVE  \A v \in Request : Rightful(task[v])'
  <1>1. /\ t.replica \in Replica /\ recent[t.replica] \in Seq(Replay(Token, Client))
        /\ clock \in Nat /\ r \in Worker
    BY Bounds DEF Task, TypeOK
  <1>2. CASE Becomes(r, [t EXCEPT !.pc = step])
    <2> DEFINE n == [t EXCEPT !.pc = step]
    <2> HIDE DEF n
    <2>1. Rightful(n)'
      BY DEF Rightful, Belongs, n
    <2> QED
      BY <1>1, <1>2, <2>1, OneRewritten DEF n
  <1>3. ASSUME NEW m \in ReplayFor(t), Becomes(r, Answered(t, "tokens", m.next))
        PROVE  \A v \in Request : Rightful(task[v])'
    <2> DEFINE n == Answered(t, "tokens", m.next)
    <2>1. m \in Entries(recent[t.replica]) /\ m.client = t.client
      BY <1>1, ReplayedEntries DEF ReplayFor
    <2>2. Belongs(m.next, t.client)
      BY <1>1, <2>1 DEF ClientInv, ReplayedRightly
    <2>3. Rightful(n)'
      BY <2>2 DEF Rightful, Belongs, Answered, PastLoad, WithSession, WithFresh
    <2> HIDE DEF n
    <2> QED
      BY <1>1, <1>3, <2>3, OneRewritten DEF n
  <1> QED
    BY <1>2, <1>3 DEF ReplayOr

\* A request that fails keeps what it knows.
LEMMA FailedRightful ==
  ASSUME NEW t \in Task, Rightful(t), t.pc \in PastLoad, NEW c, NEW n,
         n = Raised(t, c), UNCHANGED <<issued, origin, owner>>
  PROVE  Rightful(n)'
  <1>1. /\ n.pc = "failed" /\ n.answer # "tokens" /\ n.token = t.token /\ n.client = t.client
        /\ n.locked = t.locked /\ n.session = t.session
    BY RaisedFields, AnswerToType
  <1> QED
    BY <1>1 DEF Rightful, Belongs, PastLoad, WithSession, WithFresh

\* No step makes a request know a token, a session or an answer of another client.
LEMMA RequestsNext ==
  ASSUME TypeOK, ClientInv, [Next]_vars
  PROVE  \A v \in Request : Rightful(task[v])'
  <1> DEFINE Goal == \A v \in Request : Rightful(task[v])'
  <1> USE DEF stores, history
  <1>a. \A w \in Worker : task[w] \in Task /\ Fits(w, task[w])
    BY DEF TypeOK
  <1>b. \A r \in Request : r \in Worker /\ Rightful(task[r])
    BY Bounds DEF ClientInv
  <1>0. ASSUME UNCHANGED task PROVE Goal
    <2> SUFFICES ASSUME NEW r \in Request PROVE Rightful(task[r])'
      OBVIOUS
    <2>1. \A t : t = task[r] => Rightful(t)'
      BY <1>a, <1>b, RightfulForGood
    <2> QED
      BY <1>0, <2>1 DEF Rightful
  <1>1. ASSUME NEW b \in Background, NEW n, Becomes(b, n) PROVE Goal
    BY <1>1, Bounds, OneRewritten
  <1>2. ASSUME NEW r \in Request, NEW p \in Replica, NEW c \in Client, NEW t \in Token,
               Present(r, p, c, t)
        PROVE  Goal
    <2> DEFINE asked == [Idle(p) EXCEPT !.client = c, !.token = t]
    <2>1. Idle(p) \in Task /\ t \in 0..MaxToken /\ r \in Worker
      BY IdleType, Bounds
    <2>2. /\ asked \in Task /\ asked.client \in Client /\ asked.token \in Token
          /\ "load" \in Steps
      BY <2>1 DEF Task, Steps, Idle
    <2>3. Rightful([asked EXCEPT !.pc = "load"])
      BY DEF Rightful, Idle, PastLoad, WithSession, WithFresh
    <2>4. ReplayOr(r, asked, "load") /\ UNCHANGED <<issued, origin, owner>>
      BY <1>2 DEF Present
    <2> HIDE DEF asked
    <2> QED
      BY <2>2, <2>3, <2>4, ReplayRightful
  <1>3. ASSUME NEW r \in Request, Load(r) PROVE Goal
    <2>1. /\ task[r] \in Task /\ task[r].client \in Client /\ task[r].token \in Token
          /\ "resolve" \in Steps /\ ~task[r].locked /\ task[r].pc = "load"
      BY <1>3, <1>a, Bounds DEF Load, At, Fits, Steps
    <2>2. CASE /\ metadata[task[r].token] = task[r].client
               /\ ReplayOr(r, task[r], "resolve")
      <3>1. Belongs(task[r].token, task[r].client)
        BY <2>1, <2>2, Bounds DEF ClientInv, RegisteredRightly
      <3>2. Rightful([task[r] EXCEPT !.pc = "resolve"])
        BY <2>1, <3>1 DEF Rightful, Task, PastLoad, WithSession, WithFresh
      <3>3. UNCHANGED <<issued, origin, owner>>
        BY <1>3 DEF Load
      <3> QED
        BY <2>1, <2>2, <3>2, <3>3, ReplayRightful
    <2>3. CASE Becomes(r, Answered(task[r], "invalid_grant", 0))
      <3>1. PICK n : n = Answered(task[r], "invalid_grant", 0)
        OBVIOUS
      <3>2. Rightful(n)'
        BY <3>1 DEF Rightful, Answered, PastLoad, WithSession, WithFresh
      <3> QED
        BY <1>b, <2>3, <3>1, <3>2, OneRewritten
    <2> QED
      BY <1>3, <2>2, <2>3 DEF Load
  <1>4. ASSUME NEW r \in Request, Resolve(r) PROVE Goal
    <2>1. /\ task[r] \in Task /\ task[r].token \in Token /\ ~task[r].locked
          /\ Belongs(task[r].token, task[r].client)
          /\ UNCHANGED <<issued, origin, owner>>
      BY <1>4, <1>a, <1>b, Bounds DEF Resolve, At, Fits, Rightful, PastLoad
    <2>2. CASE /\ mapping[task[r].token] # NoSession
               /\ Becomes(r, [task[r] EXCEPT !.pc = "queue",
                                             !.session = mapping[task[r].token]])
      <3>1. PICK n : n = [task[r] EXCEPT !.pc = "queue", !.session = mapping[task[r].token]]
        OBVIOUS
      <3>2. mapping[task[r].token] = origin[task[r].token]
        BY <2>1, <2>2 DEF ClientInv, MappedRightly
      <3>3. /\ n.pc = "queue" /\ ~n.locked /\ n.session = origin[task[r].token]
            /\ n.token = task[r].token /\ n.client = task[r].client
        BY <2>1, <3>1, <3>2 DEF Task
      <3>4. Rightful(n)'
        BY <2>1, <3>3 DEF Rightful, Belongs, WithFresh
      <3> QED
        BY <1>b, <2>2, <3>1, <3>4, OneRewritten
    <2>3. CASE Goto(r, "exchange")
      <3>1. PICK n : n = [task[r] EXCEPT !.pc = "exchange"]
        OBVIOUS
      <3>2. /\ n.pc = "exchange" /\ ~n.locked
            /\ n.token = task[r].token /\ n.client = task[r].client
        BY <2>1, <3>1 DEF Task
      <3>3. Rightful(n)'
        BY <2>1, <3>2 DEF Rightful, Belongs, WithSession, WithFresh
      <3> QED
        BY <1>b, <2>3, <3>1, <3>3, OneRewritten DEF Goto
    <2> QED
      BY <1>4, <2>2, <2>3 DEF Resolve
  <1>5. ASSUME NEW r \in Request, Acquire(r) PROVE Goal
    <2> DEFINE t == [task[r] EXCEPT !.locked = TRUE]
    <2>1. /\ task[r] \in Task /\ task[r].pc = "queue" /\ "exchange" \in Steps
          /\ task[r].client \in Client /\ task[r].token \in Token
          /\ UNCHANGED <<issued, origin, owner>>
      BY <1>5, <1>a, Bounds DEF Acquire, At, Fits, Steps
    <2>2. t \in Task /\ t.client \in Client /\ t.token \in Token
      BY <2>1 DEF Task
    <2>3. Rightful([t EXCEPT !.pc = "exchange"])
      BY <1>b, <2>1 DEF Rightful, Task, PastLoad, WithSession, WithFresh
    <2>4. ReplayOr(r, t, "exchange")
      BY <1>5 DEF Acquire
    <2> HIDE DEF t
    <2> QED
      BY <2>1, <2>2, <2>3, <2>4, ReplayRightful
  <1>6. ASSUME NEW r \in Request, ReadGrant(r) PROVE Goal
    <2> DEFINE s == mapping[task[r].token]
    <2>1. /\ task[r] \in Task /\ task[r].pc = "exchange" /\ task[r].token \in Token
          /\ Belongs(task[r].token, task[r].client)
          /\ UNCHANGED <<issued, origin, owner>>
      BY <1>6, <1>a, <1>b, Bounds DEF ReadGrant, At, Fits, Rightful, PastLoad
    <2>2. CASE Becomes(r, Raised(task[r], "unmapped"))
      <3>1. PICK n : n = Raised(task[r], "unmapped")
        OBVIOUS
      <3>2. Rightful(n)'
        BY <1>b, <2>1, <3>1, FailedRightful DEF PastLoad
      <3> QED
        BY <1>b, <2>2, <3>1, <3>2, OneRewritten
    <2>3. CASE /\ s # NoSession
               /\ Becomes(r, [task[r] EXCEPT !.pc = "upstream", !.session = s, !.rt = stored[s]])
      <3>1. PICK n : n = [task[r] EXCEPT !.pc = "upstream", !.session = s, !.rt = stored[s]]
        OBVIOUS
      <3>2. s = origin[task[r].token]
        BY <2>1, <2>3 DEF ClientInv, MappedRightly
      <3>3. /\ n.pc = "upstream" /\ n.session = origin[task[r].token]
            /\ n.token = task[r].token /\ n.client = task[r].client
        BY <2>1, <3>1, <3>2 DEF Task
      <3>4. Rightful(n)'
        BY <2>1, <3>3 DEF Rightful, Belongs, WithFresh
      <3> QED
        BY <1>b, <2>3, <3>1, <3>4, OneRewritten
    <2> QED
      BY <1>6, <2>2, <2>3 DEF ReadGrant
  <1>7. ASSUME NEW b \in Background,
               AcquireBackground(b) \/ \E p \in Replica, s \in Session : StartBackground(b, p, s)
        PROVE  Goal
    BY <1>1, <1>7 DEF AcquireBackground, StartBackground
  <1>8. ASSUME NEW w \in Worker, Upstream(w) PROVE Goal
    <2>1. \/ \E c \in UpstreamCauses : Becomes(w, Raised(task[w], c))
          \/ Becomes(w, [task[w] EXCEPT !.pc = "save", !.rt = NextGeneration(task[w].session)])
      BY <1>8, UpstreamRaises DEF Upstream, UpstreamGrants
    <2>2. task[w] \in Task /\ task[w].pc = "upstream" /\ UNCHANGED <<issued, origin, owner>>
      BY <1>8, <1>a DEF Upstream, UpstreamGrants, UpstreamRejects, UpstreamFails, At
    <2>3. ASSUME NEW k, Becomes(w, k), w \in Request => Rightful(k)' PROVE Goal
      BY <2>3, OneRewritten
    <2>4. ASSUME w \in Request, NEW n, NEW c, n = Raised(task[w], c)
          PROVE  Rightful(n)'
      BY <1>b, <2>2, <2>4, FailedRightful DEF PastLoad
    <2>5. ASSUME w \in Request, NEW n,
                 n = [task[w] EXCEPT !.pc = "save", !.rt = NextGeneration(task[w].session)]
          PROVE  Rightful(n)'
      <3>1. /\ n.pc = "save" /\ n.session = task[w].session
            /\ n.token = task[w].token /\ n.client = task[w].client
        BY <2>2, <2>5 DEF Task
      <3> QED
        BY <1>b, <2>2, <2>5, <3>1 DEF Rightful, Belongs, PastLoad, WithSession, WithFresh
    <2> QED
      BY <2>1, <2>3, <2>4, <2>5
  <1>9. ASSUME NEW w \in Worker, Fail(w) PROVE Goal
    <2>1. CASE w \in Request
      <3>1. PICK n : n = Answered(task[w], task[w].answer, 0)
        OBVIOUS
      <3>2. Becomes(w, n)
        BY <1>9, <2>1, <3>1 DEF Fail
      <3>3. n.pc = "done" /\ ~n.locked /\ n.answer # "tokens"
        BY <1>9, <1>b, <2>1, <3>1 DEF Fail, At, Rightful, Answered
      <3>4. Rightful(n)'
        BY <3>3 DEF Rightful, PastLoad, WithSession, WithFresh
      <3> QED
        BY <3>2, <3>4, OneRewritten
    <2>2. CASE w \notin Request
      BY <1>1, <1>9, <2>2, Bounds DEF Fail
    <2> QED
      BY <2>1, <2>2
  <1>10. ASSUME NEW w \in Worker, Save(w) PROVE Goal
    <2>1. CASE w \in Request
      <3>1. PICK n : n = [task[w] EXCEPT !.pc = "issue"]
        OBVIOUS
      <3>2. /\ task[w] \in Task /\ task[w].pc = "save" /\ UNCHANGED <<issued, origin, owner>>
            /\ Becomes(w, n)
        BY <1>10, <1>a, <2>1, <3>1, Bounds DEF Save, At, Goto
      <3>3. /\ n.pc = "issue" /\ n.session = task[w].session
            /\ n.token = task[w].token /\ n.client = task[w].client
        BY <3>1, <3>2 DEF Task
      <3>4. Rightful(n)'
        BY <1>b, <2>1, <3>2, <3>3 DEF Rightful, Belongs, PastLoad, WithSession, WithFresh
      <3> QED
        BY <3>2, <3>4, OneRewritten
    <2>2. CASE w \in Background
      BY <1>1, <1>10, <2>2, Bounds DEF Save
    <2> QED
      BY <2>1, <2>2, Bounds
  <1>11. ASSUME NEW r \in Request, Issue(r) PROVE Goal
    <2>0. PICK n : n = [task[r] EXCEPT !.pc = "rotate", !.fresh = issued + 1]
      OBVIOUS
    <2>1. /\ task[r] \in Task /\ task[r].pc = "issue" /\ task[r].client \in Client
          /\ issued + 1 \in Token /\ issued' = issued + 1 /\ issued \in Nat
          /\ origin'[issued + 1] = task[r].session /\ owner' = owner
      BY <1>11, <1>a, Bounds DEF Issue, At, Fits, TypeOK, Token
    <2>2. /\ Belongs(task[r].token, task[r].client)
          /\ task[r].session = origin[task[r].token]
      BY <1>b, <2>1 DEF Rightful, PastLoad, WithSession
    <2>3. /\ \A t, c : t = task[r].token /\ c = task[r].client => Belongs(t, c)'
          /\ origin'[task[r].token] = origin[task[r].token]
      BY <2>1, <2>2, BelongsForGood
    <2>4. \A t, c : t = issued + 1 /\ c = task[r].client => Belongs(t, c)'
      BY <2>1, <2>2 DEF Belongs
    <2>5. Rightful(n)'
      <3>1. /\ n.pc = "rotate" /\ n.token = task[r].token /\ n.client = task[r].client
            /\ n.session = task[r].session /\ n.fresh = issued + 1
        BY <2>0, <2>1 DEF Task
      <3> QED
        BY <2>2, <2>3, <2>4, <3>1 DEF Rightful
    <2>6. Becomes(r, n)
      BY <1>11, <2>0 DEF Issue
    <2> QED
      BY <1>b, <2>5, <2>6, OneRewritten
  <1>12. ASSUME NEW r \in Request, Rotate(r) \/ Register(r) \/ Retire(r) PROVE Goal
    <2>1. task[r] \in Task /\ task[r].pc \in WithFresh
      BY <1>12, <1>a, <1>b DEF Rotate, Register, Retire, At, WithFresh
    <2>5. UNCHANGED <<issued, origin, owner>>
      BY <1>12 DEF Rotate, Register, Retire
    <2>2. \E k \in WithFresh : Becomes(r, [task[r] EXCEPT !.pc = k])
      BY <1>12 DEF Rotate, Register, Retire, Goto, WithFresh
    <2>3. ASSUME NEW k \in WithFresh, NEW n, n = [task[r] EXCEPT !.pc = k] PROVE Rightful(n)'
      <3>1. /\ n.pc \in WithFresh /\ n.session = task[r].session /\ n.fresh = task[r].fresh
            /\ n.token = task[r].token /\ n.client = task[r].client
        BY <2>1, <2>3 DEF Task
      <3> QED
        BY <1>b, <2>1, <2>5, <3>1 DEF Rightful, Belongs, PastLoad, WithSession, WithFresh
    <2>4. ASSUME NEW n, Becomes(r, n), Rightful(n)' PROVE Goal
      BY <1>b, <2>4, OneRewritten
    <2> QED
      BY <2>2, <2>3, <2>4
  <1>13. ASSUME NEW r \in Request, Record(r) PROVE Goal
    <2>0. PICK n : n = Answered(task[r], "tokens", task[r].fresh)
      OBVIOUS
    <2>1. Belongs(task[r].fresh, task[r].client) /\ UNCHANGED <<issued, origin, owner>>
      BY <1>13, <1>b DEF Record, At, Rightful, WithFresh
    <2>2. Rightful(n)'
      BY <2>0, <2>1 DEF Rightful, Belongs, Answered, PastLoad, WithSession, WithFresh
    <2>3. Becomes(r, n)
      BY <1>13, <2>0 DEF Record
    <2> QED
      BY <1>b, <2>2, <2>3, OneRewritten
  <1>14. ASSUME NEW p \in Replica PROVE Rightful(Idle(p))'
    BY DEF Rightful, Idle, PastLoad, WithSession, WithFresh
  <1>15. ASSUME NEW r \in Request, Finish(r) PROVE Goal
    <2>1. \A n : n = Idle(Home) => Rightful(n)'
      BY <1>14, HomeType
    <2> QED
      BY <1>15, <1>b, <2>1, OneRewritten DEF Finish
  <1>16. ASSUME NEW p \in Replica, Crash(p) PROVE Goal
    <2>1. \A n : n = Idle(Home) => Rightful(n)'
      BY <1>14, HomeType
    <2> SUFFICES ASSUME NEW r \in Request PROVE Rightful(task[r])'
      OBVIOUS
    <2>2. \A t : t = task[r] => Rightful(t)'
      BY <1>a, <1>b, RightfulForGood
    <2>3. task'[r] = Idle(Home) \/ task'[r] = task[r]
      BY <1>16, <1>b DEF Crash
    <2> QED
      BY <2>1, <2>2, <2>3 DEF Rightful
  <1>17. SignsIn \/ Tick \/ (\E s \in Session : Revoke(s)) \/ UNCHANGED vars => Goal
    BY <1>0 DEF SignsIn, SignIn, Tick, Revoke, vars
  <1>20. ASSUME NEW w \in Worker, StoreFails(w) PROVE Goal
    <2>1. PICK t : t = Raised(task[w], "store")
      OBVIOUS
    <2>2. task[w] \in Task /\ UNCHANGED <<issued, origin, owner>>
      BY <1>20, <1>a DEF StoreFails
    <2>3. CASE Becomes(w, Answered(t, "server_error", 0))
      <3>1. PICK n : n = Answered(t, "server_error", 0)
        OBVIOUS
      <3>2. Rightful(n)'
        BY <3>1 DEF Rightful, Answered, PastLoad, WithSession, WithFresh
      <3> QED
        BY <2>3, <3>1, <3>2, OneRewritten
    <2>4. CASE task[w].pc \in Storing /\ Becomes(w, t)
      <3>1. w \in Request => Rightful(t)'
        BY <1>b, <2>1, <2>2, <2>4, FailedRightful DEF Storing, PastLoad
      <3> QED
        BY <2>4, <3>1, OneRewritten
    <2> QED
      BY <1>20, <2>1, <2>3, <2>4 DEF StoreFails
  <1> HIDE DEF Goal
  <1>18. ASSUME NEW r \in Request, Exchange(r) \/ Finish(r) PROVE Goal
    BY <1>3, <1>4, <1>5, <1>6, <1>11, <1>12, <1>13, <1>15, <1>18 DEF Exchange
  <1>19. ASSUME NEW w \in Worker, Upstream(w) \/ Save(w) \/ StoreFails(w) \/ Fail(w) PROVE Goal
    BY <1>8, <1>9, <1>10, <1>19, <1>20
  <1> QED
    BY <1>2, <1>7, <1>16, <1>17, <1>18, <1>19 DEF Next, SignsIn, Goal

\* Nobody knows anything at the start.
LEMMA ClientInit == Init => ClientInv
  <1> SUFFICES ASSUME Init PROVE ClientInv
    OBVIOUS
  <1>1. RegisteredRightly /\ MappedRightly /\ ReplayedRightly
    BY DEF Init, RegisteredRightly, MappedRightly, ReplayedRightly, Entries
  <1>2. \A r \in Request : Rightful(task[r])
    BY Bounds DEF Init, Rightful, Idle, PastLoad, WithSession, WithFresh
  <1> QED
    BY <1>1, <1>2 DEF ClientInv

\* ClientInv is inductive: stores, replay windows and requests together.
LEMMA ClientNext == TypeOK /\ ClientInv /\ [Next]_vars => ClientInv'
  BY RegisteredNext, MappedNext, ReplayedNext, RequestsNext DEF ClientInv

\* The inductive invariant behind AnswersCorrect holds of every reachable state.
THEOREM ClientCorrect == Spec => []ClientInv
  BY TypeCorrect, ClientInit, ClientNext, PTL DEF Spec

(***************************************************************************)
(* A client is only ever answered with tokens of its own session, however  *)
(* requests, replays and chains of replays interleave, on however many     *)
(* replicas, and whatever the stores and Cognito do.                       *)
(***************************************************************************)
THEOREM AnswersCorrect == Spec => []AnswersStayWithTheirClient
  <1>1. ClientInv => AnswersStayWithTheirClient
    BY DEF ClientInv, Rightful, Belongs, AnswersStayWithTheirClient, At
  <1> QED
    BY <1>1, ClientCorrect, PTL

-----------------------------------------------------------------------------
(***************************************************************************)
(* The session lock.  Whoever holds it says so, and whoever says so holds  *)
(* it; a worker changes neither its replica nor its session while it does. *)
(***************************************************************************)
HoldsLock ==
  \A w \in Worker : task[w].locked => lock[task[w].replica][task[w].session] = w

LockInv == NoOrphanLock /\ HoldsLock

\* A step within the lock, or outside it.
LEMMA LockKept ==
  ASSUME TypeOK, LockInv, NEW w \in Worker, NEW n, Becomes(w, n), UNCHANGED lock,
         n.locked = task[w].locked,
         n.locked => n.replica = task[w].replica /\ n.session = task[w].session
  PROVE  LockInv'
  <1>1. ASSUME NEW p \in Replica, NEW s \in Session, lock[p][s] # Nobody
        PROVE  /\ task'[lock[p][s]].locked
               /\ task'[lock[p][s]].replica = p
               /\ task'[lock[p][s]].session = s
    <2>1. /\ task[lock[p][s]].locked /\ task[lock[p][s]].replica = p
          /\ task[lock[p][s]].session = s
      BY <1>1 DEF LockInv, NoOrphanLock
    <2>2. lock[p][s] \in Worker
      BY <1>1 DEF TypeOK
    <2> QED
      BY <2>1, <2>2 DEF Becomes, TypeOK
  <1>2. ASSUME NEW v \in Worker, task'[v].locked
        PROVE  lock[task'[v].replica][task'[v].session] = v
    BY <1>2 DEF LockInv, HoldsLock, Becomes, TypeOK
  <1> QED
    BY <1>1, <1>2 DEF LockInv, NoOrphanLock, HoldsLock

\* The end of the async with block.
LEMMA LockReleased ==
  ASSUME TypeOK, LockInv, NEW w \in Worker, NEW n, Becomes(w, n), ~n.locked,
         lock' = Released(w)
  PROVE  LockInv'
  <1>1. CASE ~task[w].locked
    <2>1. task[w].locked \in BOOLEAN /\ UNCHANGED lock
      BY <1>1 DEF Released, TypeOK, Task
    <2>2. ASSUME NEW p \in Replica, NEW s \in Session, lock[p][s] # Nobody
          PROVE  lock[p][s] # w /\ lock[p][s] \in Worker
      BY <1>1, <2>2 DEF LockInv, NoOrphanLock, TypeOK
    <2> QED
      BY <2>1, <2>2 DEF LockInv, NoOrphanLock, HoldsLock, Becomes, TypeOK
  <1>2. CASE task[w].locked
    <2> DEFINE p == task[w].replica
               s == task[w].session
    <2>1. /\ p \in Replica /\ s \in Session /\ lock[p][s] = w
          /\ lock' = [lock EXCEPT ![p][s] = Nobody]
      BY <1>2 DEF Released, TypeOK, Task, Fits, LockInv, HoldsLock
    <2>2. ASSUME NEW q \in Replica, NEW u \in Session, lock'[q][u] # Nobody
          PROVE  lock'[q][u] = lock[q][u] /\ lock[q][u] # w /\ lock[q][u] \in Worker
      <3>1. ~(q = p /\ u = s)
        BY <2>1, <2>2 DEF TypeOK
      <3>2. lock'[q][u] = lock[q][u]
        BY <2>1, <3>1 DEF TypeOK
      <3> QED
        BY <2>2, <3>1, <3>2 DEF LockInv, NoOrphanLock, TypeOK
    <2>3. NoOrphanLock'
      BY <2>2 DEF LockInv, NoOrphanLock, Becomes, TypeOK
    <2>4. ASSUME NEW v \in Worker, task'[v].locked
          PROVE  lock'[task'[v].replica][task'[v].session] = v
      <3>1. v # w /\ task'[v] = task[v] /\ task[v].locked
        BY <2>4 DEF Becomes, TypeOK
      <3>2. /\ task[v].replica \in Replica /\ task[v].session \in Session
            /\ lock[task[v].replica][task[v].session] = v
        BY <3>1 DEF TypeOK, Task, Fits, LockInv, HoldsLock
      <3>3. ~(task[v].replica = p /\ task[v].session = s)
        BY <2>1, <3>1, <3>2
      <3> QED
        BY <2>1, <3>1, <3>2, <3>3 DEF TypeOK
    <2> QED
      BY <2>3, <2>4 DEF LockInv, HoldsLock
  <1> QED
    BY <1>1, <1>2

\* A free lock taken.
LEMMA LockTaken ==
  ASSUME TypeOK, LockInv, NEW w \in Worker, NEW n, Becomes(w, n), n.locked, ~task[w].locked,
         NEW p \in Replica, NEW s \in Session, n.replica = p, n.session = s,
         lock[p][s] = Nobody, lock' = [lock EXCEPT ![p][s] = w]
  PROVE  LockInv'
  <1>1. ASSUME NEW q \in Replica, NEW u \in Session, lock'[q][u] # Nobody
        PROVE  /\ task'[lock'[q][u]].locked
               /\ task'[lock'[q][u]].replica = q
               /\ task'[lock'[q][u]].session = u
    <2>1. CASE q = p /\ u = s
      BY <2>1 DEF Becomes, TypeOK
    <2>2. CASE ~(q = p /\ u = s)
      <3>1. lock'[q][u] = lock[q][u]
        BY <2>2 DEF TypeOK
      <3>2. /\ lock[q][u] \in Worker /\ task[lock[q][u]].locked
            /\ task[lock[q][u]].replica = q /\ task[lock[q][u]].session = u
        BY <1>1, <3>1 DEF LockInv, NoOrphanLock, TypeOK
      <3>3. lock[q][u] # w
        BY <3>2
      <3> QED
        BY <3>1, <3>2, <3>3 DEF Becomes, TypeOK
    <2> QED
      BY <2>1, <2>2
  <1>2. ASSUME NEW v \in Worker, task'[v].locked
        PROVE  lock'[task'[v].replica][task'[v].session] = v
    <2>1. CASE v = w
      BY <2>1 DEF Becomes, TypeOK
    <2>2. CASE v # w
      <3>1. /\ task'[v] = task[v] /\ task[v].locked
            /\ task[v].replica \in Replica /\ task[v].session \in Session
            /\ lock[task[v].replica][task[v].session] = v
        BY <1>2, <2>2 DEF Becomes, TypeOK, Task, Fits, LockInv, HoldsLock
      <3>2. ~(task[v].replica = p /\ task[v].session = s)
        BY <3>1, Bounds
      <3> QED
        BY <3>1, <3>2 DEF TypeOK
    <2> QED
      BY <2>1, <2>2
  <1> QED
    BY <1>1, <1>2 DEF LockInv, NoOrphanLock, HoldsLock

\* Every step takes the lock free, keeps it inside the block, or leaves the block and frees it.
LEMMA LockNext ==
  ASSUME TypeOK, ClientInv, LockInv, [Next]_vars
  PROVE  LockInv'
  <1>a. \A w \in Worker : task[w] \in Task /\ Fits(w, task[w])
    BY DEF TypeOK
  <1>b. ASSUME NEW w \in Worker, NEW n, Becomes(w, n), UNCHANGED lock, ~n.locked, ~task[w].locked
        PROVE  LockInv'
    <2>1. task[w].locked \in BOOLEAN
      BY <1>a DEF Task
    <2>2. lock' = Released(w)
      BY <1>b DEF Released
    <2> QED
      BY <1>b, <2>2, LockReleased
  <1>c. ASSUME NEW r \in Request, NEW t, NEW step, ReplayOr(r, t, step), UNCHANGED lock,
               ~task[r].locked, ~([t EXCEPT !.pc = step]).locked
        PROVE  LockInv'
    <2>1. \A n : Answered(t, "tokens", n).locked = FALSE
      BY DEF Answered
    <2> QED
      BY <1>b, <1>c, <2>1, Bounds DEF ReplayOr
  <1>r. ASSUME NEW w \in Worker, NEW c, Becomes(w, Raised(task[w], c)), UNCHANGED lock
        PROVE  LockInv'
    <2>1. PICK n : n = Raised(task[w], c)
      OBVIOUS
    <2>2. n.locked = task[w].locked /\ n.replica = task[w].replica /\ n.session = task[w].session
      BY <1>a, <2>1, RaisedFields
    <2> QED
      BY <1>r, <2>1, <2>2, LockKept
  <1>1. ASSUME NEW r \in Request, NEW p \in Replica, NEW c \in Client, NEW t \in Token,
               Present(r, p, c, t)
        PROVE  LockInv'
    <2> DEFINE asked == [Idle(p) EXCEPT !.client = c, !.token = t]
    <2>1. ~task[r].locked /\ UNCHANGED lock /\ ReplayOr(r, asked, "load")
      BY <1>1, <1>a, Bounds DEF Present, At, Fits
    <2>2. ~([asked EXCEPT !.pc = "load"]).locked
      BY DEF Idle
    <2> HIDE DEF asked
    <2> QED
      BY <1>c, <2>1, <2>2
  <1>2. ASSUME NEW r \in Request, Load(r) PROVE LockInv'
    <2>1. ~task[r].locked /\ task[r] \in Task /\ UNCHANGED lock /\ r \in Worker
      BY <1>2, <1>a, Bounds DEF Load, At, Fits
    <2>2. ~([task[r] EXCEPT !.pc = "resolve"]).locked
      BY <2>1 DEF Task
    <2>3. ~Answered(task[r], "invalid_grant", 0).locked
      BY DEF Answered
    <2> QED
      BY <1>2, <1>b, <1>c, <2>1, <2>2, <2>3 DEF Load
  <1>3. ASSUME NEW r \in Request, Resolve(r) PROVE LockInv'
    <2>1. ~task[r].locked /\ task[r] \in Task /\ UNCHANGED lock /\ r \in Worker
      BY <1>3, <1>a, Bounds DEF Resolve, At, Fits
    <2>2. /\ ~([task[r] EXCEPT !.pc = "queue", !.session = mapping[task[r].token]]).locked
          /\ ~([task[r] EXCEPT !.pc = "exchange"]).locked
      BY <2>1 DEF Task
    <2> QED
      BY <1>3, <1>b, <2>1, <2>2 DEF Resolve, Goto
  <1>4. ASSUME NEW r \in Request, Acquire(r) PROVE LockInv'
    <2> DEFINE t == [task[r] EXCEPT !.locked = TRUE]
               n == [t EXCEPT !.pc = "exchange"]
               p == task[r].replica
               s == task[r].session
    <2>1. /\ ~task[r].locked /\ task[r] \in Task /\ r \in Worker
          /\ p \in Replica /\ s \in Session /\ lock[p][s] = Nobody
          /\ t.replica = p /\ ReplayFor(t) = ReplayFor(task[r])
      BY <1>4, <1>a, Bounds DEF Acquire, At, Fits, Task, ReplayFor
    <2>2. n.locked /\ n.replica = p /\ n.session = s
      BY <2>1 DEF Task
    <2>3. CASE Becomes(r, n) /\ ReplayFor(task[r]) = {}
      <3>1. lock' = [lock EXCEPT ![p][s] = r]
        BY <1>4, <2>3 DEF Acquire
      <3> HIDE DEF n
      <3> QED
        BY <2>1, <2>2, <2>3, <3>1, LockTaken
    <2>4. ASSUME NEW m \in ReplayFor(task[r]), Becomes(r, Answered(t, "tokens", m.next))
          PROVE  LockInv'
      <3>1. UNCHANGED lock
        BY <1>4, <2>4 DEF Acquire
      <3>2. ~Answered(t, "tokens", m.next).locked
        BY DEF Answered
      <3> QED
        BY <1>b, <2>1, <2>4, <3>1, <3>2
    <2> QED
      BY <1>4, <2>1, <2>3, <2>4 DEF Acquire, ReplayOr
  <1>5. ASSUME NEW r \in Request, ReadGrant(r) PROVE LockInv'
    <2> DEFINE s == mapping[task[r].token]
               f == Raised(task[r], "unmapped")
               u == [task[r] EXCEPT !.pc = "upstream", !.session = s, !.rt = stored[s]]
    <2>1. /\ task[r] \in Task /\ r \in Worker /\ task[r].token \in Token /\ UNCHANGED lock
          /\ task[r].locked => task[r].session = origin[task[r].token]
      BY <1>5, <1>a, Bounds DEF ReadGrant, At, Fits, ClientInv, Rightful
    <2>2. s # NoSession => s = origin[task[r].token]
      BY <2>1 DEF ClientInv, MappedRightly
    <2>3. f.locked = task[r].locked /\ f.replica = task[r].replica /\ f.session = task[r].session
      BY <2>1, RaisedFields
    <2>4. u.locked = task[r].locked /\ u.replica = task[r].replica /\ u.session = s
      BY <2>1 DEF Task
    <2>5. Becomes(r, f) \/ (s # NoSession /\ Becomes(r, u))
      BY <1>5 DEF ReadGrant
    <2> HIDE DEF f, u
    <2> QED
      BY <2>1, <2>2, <2>3, <2>4, <2>5, LockKept
  <1>6. ASSUME NEW b \in Background, NEW p \in Replica, NEW s \in Session,
               StartBackground(b, p, s)
        PROVE  LockInv'
    <2>1. ~([Idle(p) EXCEPT !.pc = "queue", !.session = s]).locked
      BY DEF Idle
    <2>2. b \in Worker /\ ~task[b].locked /\ UNCHANGED lock
      BY <1>6, <1>a, Bounds DEF StartBackground, At, Fits
    <2> QED
      BY <1>6, <1>b, <2>1, <2>2 DEF StartBackground
  <1>7. ASSUME NEW b \in Background, AcquireBackground(b) PROVE LockInv'
    <2> DEFINE p == task[b].replica
               s == task[b].session
               u == [task[b] EXCEPT !.pc = "upstream", !.locked = TRUE, !.rt = stored[s]]
    <2>1. /\ ~task[b].locked /\ task[b] \in Task /\ b \in Worker
          /\ p \in Replica /\ s \in Session /\ lock[p][s] = Nobody
      BY <1>7, <1>a, Bounds DEF AcquireBackground, At, Fits, Task
    <2>2. u.locked /\ u.replica = p /\ u.session = s
      BY <2>1 DEF Task
    <2>3. ~Idle(Home).locked
      BY DEF Idle
    <2>4. \/ Becomes(b, Idle(Home)) /\ UNCHANGED lock
          \/ Becomes(b, u) /\ lock' = [lock EXCEPT ![p][s] = b]
      BY <1>7 DEF AcquireBackground
    <2> HIDE DEF u
    <2> QED
      BY <1>b, <2>1, <2>2, <2>3, <2>4, LockTaken
  <1>8. ASSUME NEW w \in Worker, Upstream(w) PROVE LockInv'
    <2>1. task[w] \in Task /\ UNCHANGED lock
      BY <1>8, <1>a DEF Upstream, UpstreamGrants, UpstreamRejects, UpstreamFails
    <2>2. ASSUME NEW n, NEW a, Becomes(w, n), n = [task[w] EXCEPT !.pc = "save", !.rt = a]
          PROVE  LockInv'
      <3>1. n.locked = task[w].locked /\ n.replica = task[w].replica /\ n.session = task[w].session
        BY <2>1, <2>2 DEF Task
      <3> QED
        BY <2>1, <2>2, <3>1, LockKept
    <2> QED
      BY <1>8, <1>r, <2>1, <2>2, UpstreamRaises DEF Upstream, UpstreamGrants
  <1>9. ASSUME NEW w \in Worker, NEW n, Becomes(w, n), ~n.locked, lock' = Released(w) PROVE LockInv'
    BY <1>9, LockReleased
  <1>10. ASSUME NEW p PROVE ~Idle(p).locked
    BY DEF Idle
  <1>11. ASSUME NEW t, NEW kind, NEW n PROVE ~Answered(t, kind, n).locked
    BY DEF Answered
  <1>12. ASSUME NEW w \in Worker, Fail(w) PROVE LockInv'
    BY <1>9, <1>10, <1>11, <1>12 DEF Fail
  <1>13. ASSUME NEW w \in Worker, NEW n, NEW step,
                n = [task[w] EXCEPT !.pc = step] \/ n = [task[w] EXCEPT !.pc = step, !.fresh = issued + 1],
                Becomes(w, n), UNCHANGED lock
         PROVE  LockInv'
    <2>1. n.locked = task[w].locked /\ n.replica = task[w].replica /\ n.session = task[w].session
      BY <1>a, <1>13 DEF Task
    <2> QED
      BY <1>13, <2>1, LockKept
  <1>14. ASSUME NEW w \in Worker, Save(w) PROVE LockInv'
    BY <1>9, <1>10, <1>13, <1>14 DEF Save, Goto
  <1>15. ASSUME NEW r \in Request, Issue(r) PROVE LockInv'
    BY <1>13, <1>15, Bounds DEF Issue
  <1>16. ASSUME NEW r \in Request, Rotate(r) \/ Register(r) \/ Retire(r) PROVE LockInv'
    BY <1>13, <1>16, Bounds DEF Rotate, Register, Retire, Goto
  <1>17. ASSUME NEW r \in Request, Record(r) PROVE LockInv'
    BY <1>9, <1>11, <1>17, Bounds DEF Record
  <1>18. ASSUME NEW r \in Request, Finish(r) PROVE LockInv'
    <2>1. r \in Worker /\ ~task[r].locked /\ UNCHANGED lock
      BY <1>18, <1>a, Bounds DEF Finish, At, Fits
    <2> QED
      BY <1>b, <1>10, <1>18, <2>1 DEF Finish
  <1>19. ASSUME NEW p \in Replica, Crash(p) PROVE LockInv'
    <2>1. ASSUME NEW q \in Replica, NEW s \in Session, lock'[q][s] # Nobody
          PROVE  /\ task'[lock'[q][s]].locked
                 /\ task'[lock'[q][s]].replica = q
                 /\ task'[lock'[q][s]].session = s
      <3>1. q # p /\ lock'[q][s] = lock[q][s]
        BY <1>19, <2>1 DEF Crash, TypeOK
      <3>2. /\ lock[q][s] \in Worker /\ task[lock[q][s]].locked
            /\ task[lock[q][s]].replica = q /\ task[lock[q][s]].session = s
        BY <2>1, <3>1 DEF LockInv, NoOrphanLock, TypeOK
      <3> QED
        BY <1>19, <3>1, <3>2 DEF Crash
    <2>2. ASSUME NEW v \in Worker, task'[v].locked
          PROVE  lock'[task'[v].replica][task'[v].session] = v
      <3>1. task'[v] = task[v] /\ task[v].replica # p /\ task[v].locked
        BY <1>10, <1>19, <2>2 DEF Crash
      <3>2. task[v].replica \in Replica /\ lock[task[v].replica][task[v].session] = v
        BY <1>a, <3>1 DEF Task, LockInv, HoldsLock
      <3> QED
        BY <1>19, <3>1, <3>2 DEF Crash, TypeOK
    <2> QED
      BY <2>1, <2>2 DEF LockInv, NoOrphanLock, HoldsLock
  <1>20. UNCHANGED <<task, lock>> => LockInv'
    BY DEF LockInv, NoOrphanLock, HoldsLock
  <1>21. SignsIn \/ Tick \/ (\E s \in Session : Revoke(s)) \/ UNCHANGED vars => LockInv'
    BY <1>20 DEF SignsIn, SignIn, Tick, Revoke, vars
  <1>22. ASSUME NEW r \in Request, Exchange(r) \/ Finish(r) PROVE LockInv'
    BY <1>2, <1>3, <1>4, <1>5, <1>15, <1>16, <1>17, <1>18, <1>22 DEF Exchange
  <1>24. ASSUME NEW w \in Worker, StoreFails(w) PROVE LockInv'
    <2>1. UNCHANGED lock
      BY <1>24 DEF StoreFails
    <2>2. ASSUME At(w, "load"), NEW t, Becomes(w, Answered(t, "server_error", 0)) PROVE LockInv'
      <3>1. ~task[w].locked
        BY <1>a, <2>2 DEF At, Fits
      <3> QED
        BY <1>b, <1>11, <2>1, <2>2, <3>1
    <2> QED
      BY <1>24, <1>r, <2>1, <2>2 DEF StoreFails
  <1>23. ASSUME NEW w \in Worker, Upstream(w) \/ Save(w) \/ StoreFails(w) \/ Fail(w)
         PROVE  LockInv'
    BY <1>8, <1>12, <1>14, <1>23, <1>24
  <1> QED
    BY <1>1, <1>6, <1>7, <1>19, <1>21, <1>22, <1>23 DEF Next, SignsIn

\* Every lock starts free.
LEMMA LockInit == Init => LockInv
  BY Bounds DEF Init, LockInv, NoOrphanLock, HoldsLock, Idle

\* A session's lock is held exactly by the worker inside the async with block.
THEOREM LockCorrect == Spec => []LockInv
  BY TypeCorrect, ClientCorrect, LockInit, LockNext, PTL DEF Spec

(***************************************************************************)
(* No path through the exchange, no failure and no restart leaves the lock *)
(* of a session held by a worker that has left the async with block.       *)
(***************************************************************************)
THEOREM NoOrphanLockCorrect == Spec => []NoOrphanLock
  <1>1. LockInv => NoOrphanLock
    BY DEF LockInv
  <1> QED
    BY <1>1, LockCorrect, PTL

-----------------------------------------------------------------------------
(***************************************************************************)
(* One upstream call.  While the mapping store can be read, a request that *)
(* passes the lock by presents a spent token, and goes no further than     *)
(* FastMCP's own lookup of it; so whoever is upstream holds the lock.      *)
(***************************************************************************)
UnlockedIsSpent(t) == t.pc = "exchange" /\ ~t.locked => mapping[t.token] = NoSession

UpstreamHoldsLock(t) == t.pc \in {"upstream", "save"} => t.locked

UpstreamInv ==
  \A w \in Worker : UpstreamHoldsLock(task[w]) /\ (w \in Request => UnlockedIsSpent(task[w]))

\* A spent token stays spent.
LEMMA SpentForGood ==
  ASSUME TypeOK, ClientInv, [Next]_vars, NEW r \in Request, task[r].pc = "exchange",
         mapping[task[r].token] = NoSession
  PROVE  mapping'[task[r].token] = NoSession
  <1>1. task[r].token \in 1..issued /\ task[r].token \in Token
    BY Bounds DEF TypeOK, Fits, ClientInv, Rightful, PastLoad, Belongs
  <1>2. issued \in Nat
    BY Bounds DEF TypeOK
  <1>3. CASE SignsIn
    BY <1>1, <1>2, <1>3 DEF SignsIn, SignIn, TypeOK
  <1>4. CASE \E q \in Request : Issue(q)
    BY <1>1, <1>2, <1>4 DEF Issue, TypeOK
  <1>5. CASE \E q \in Request : Rotate(q)
    BY <1>1, <1>5 DEF Rotate, TypeOK
  <1> QED
    BY <1>3, <1>4, <1>5, WhoWrites

\* A step of one worker leaves the lock and the ledger facts of the others alone.
LEMMA OneMoves ==
  ASSUME TypeOK, ClientInv, UpstreamInv, [Next]_vars, NEW w \in Worker, NEW n, Becomes(w, n),
         UpstreamHoldsLock(n), w \in Request => n.pc # "exchange"
  PROVE  UpstreamInv'
  <1> SUFFICES ASSUME NEW v \in Worker
               PROVE  UpstreamHoldsLock(task'[v]) /\ (v \in Request => UnlockedIsSpent(task[v])')
    BY DEF UpstreamInv, UpstreamHoldsLock
  <1>1. CASE v = w
    BY <1>1 DEF Becomes, TypeOK, UnlockedIsSpent
  <1>2. CASE v # w
    <2>1. task'[v] = task[v]
      BY <1>2 DEF Becomes, TypeOK
    <2> QED
      BY <2>1, SpentForGood DEF UpstreamInv, UnlockedIsSpent
  <1> QED
    BY <1>1, <1>2

\* With the stores up, whoever is about to call Cognito stays inside the lock.
LEMMA UpstreamNext ==
  ASSUME StoreFaults = FALSE, TypeOK, ClientInv, UpstreamInv, [Next]_vars
  PROVE  UpstreamInv'
  <1>a. \A w \in Worker : task[w] \in Task /\ Fits(w, task[w])
    BY DEF TypeOK
  <1>b. ASSUME NEW w \in Worker, NEW n, Becomes(w, n), n.pc \notin {"exchange", "upstream", "save"}
        PROVE  UpstreamInv'
    BY <1>b, OneMoves DEF UpstreamHoldsLock
  <1>c. ASSUME NEW t, NEW kind, NEW n PROVE Answered(t, kind, n).pc = "done"
    BY DEF Answered
  <1>d. ASSUME UNCHANGED task PROVE UpstreamInv'
    BY <1>d, SpentForGood DEF UpstreamInv, UpstreamHoldsLock, UnlockedIsSpent
  <1>e. ASSUME NEW w \in Worker, NEW k \in Steps \ {"exchange", "upstream", "save"},
               NEW n, n \in {[task[w] EXCEPT !.pc = k], [task[w] EXCEPT !.pc = k, !.fresh = issued + 1]},
               Becomes(w, n)
        PROVE  UpstreamInv'
    <2>1. n.pc = k
      BY <1>a, <1>e DEF Task
    <2> QED
      BY <1>b, <1>e, <2>1
  <1>r. ASSUME NEW w \in Worker, NEW c, Becomes(w, Raised(task[w], c)) PROVE UpstreamInv'
    BY <1>a, <1>b, <1>r, RaisedFields
  <1>1. ASSUME NEW r \in Request, NEW p \in Replica, NEW c \in Client, NEW t \in Token,
               Present(r, p, c, t)
        PROVE  UpstreamInv'
    <2> DEFINE asked == [Idle(p) EXCEPT !.client = c, !.token = t]
    <2>1. ([asked EXCEPT !.pc = "load"]).pc = "load"
      BY DEF Idle
    <2>2. ReplayOr(r, asked, "load")
      BY <1>1 DEF Present
    <2> HIDE DEF asked
    <2> QED
      BY <1>b, <1>c, <2>1, <2>2, Bounds DEF ReplayOr
  <1>2. ASSUME NEW r \in Request, Load(r) PROVE UpstreamInv'
    <2>1. ([task[r] EXCEPT !.pc = "resolve"]).pc = "resolve"
      BY <1>a, Bounds DEF Task
    <2> QED
      BY <1>b, <1>c, <1>2, <2>1, Bounds DEF Load, ReplayOr
  <1>3. ASSUME NEW r \in Request, Resolve(r) PROVE UpstreamInv'
    <2>1. r \in Worker /\ task[r] \in Task
      BY <1>a, Bounds
    <2>2. CASE Becomes(r, [task[r] EXCEPT !.pc = "queue", !.session = mapping[task[r].token]])
      <3>1. ([task[r] EXCEPT !.pc = "queue", !.session = mapping[task[r].token]]).pc = "queue"
        BY <2>1 DEF Task
      <3> QED
        BY <1>b, <2>1, <2>2, <3>1
    <2>3. CASE Goto(r, "exchange") /\ mapping[task[r].token] = NoSession
      <3>1. PICK n : n = [task[r] EXCEPT !.pc = "exchange"]
        OBVIOUS
      <3>2. n.pc = "exchange" /\ n.token = task[r].token
        BY <2>1, <3>1 DEF Task
      <3>3. UNCHANGED mapping
        BY <1>3 DEF Resolve, stores
      <3> SUFFICES ASSUME NEW v \in Worker
                   PROVE  UpstreamHoldsLock(task'[v]) /\ (v \in Request => UnlockedIsSpent(task[v])')
        BY DEF UpstreamInv, UpstreamHoldsLock
      <3>4. CASE v = r
        BY <2>1, <2>3, <3>1, <3>2, <3>3, <3>4
           DEF Goto, Becomes, TypeOK, UpstreamHoldsLock, UnlockedIsSpent
      <3>5. CASE v # r
        BY <2>1, <2>3, <3>3, <3>5 DEF Goto, Becomes, TypeOK, UpstreamInv, UnlockedIsSpent
      <3> QED
        BY <3>4, <3>5
    <2> QED
      BY <1>3, <2>2, <2>3 DEF Resolve
  <1>4. ASSUME NEW r \in Request, Acquire(r) PROVE UpstreamInv'
    <2> DEFINE t == [task[r] EXCEPT !.locked = TRUE]
    <2>1. r \in Worker /\ task[r] \in Task /\ ReplayOr(r, t, "exchange") /\ UNCHANGED mapping
      BY <1>4, <1>a, Bounds DEF Acquire, stores
    <2>2. CASE Becomes(r, [t EXCEPT !.pc = "exchange"])
      <3>1. PICK n : n = [t EXCEPT !.pc = "exchange"]
        OBVIOUS
      <3>2. n.pc = "exchange" /\ n.locked
        BY <2>1, <3>1 DEF Task
      <3> SUFFICES ASSUME NEW v \in Worker
                   PROVE  UpstreamHoldsLock(task'[v]) /\ (v \in Request => UnlockedIsSpent(task[v])')
        BY DEF UpstreamInv, UpstreamHoldsLock
      <3> HIDE DEF t
      <3>3. CASE v = r
        BY <2>1, <2>2, <3>1, <3>2, <3>3 DEF Becomes, TypeOK, UpstreamHoldsLock, UnlockedIsSpent
      <3>4. CASE v # r
        BY <2>1, <2>2, <3>4 DEF Becomes, TypeOK, UpstreamInv, UnlockedIsSpent
      <3> QED
        BY <3>3, <3>4
    <2>3. CASE \E m \in ReplayFor(t) : Becomes(r, Answered(t, "tokens", m.next))
      BY <1>b, <1>c, <2>1, <2>3
    <2> QED
      BY <2>1, <2>2, <2>3 DEF ReplayOr
  <1>5. ASSUME NEW r \in Request, ReadGrant(r) PROVE UpstreamInv'
    <2> DEFINE s == mapping[task[r].token]
               u == [task[r] EXCEPT !.pc = "upstream", !.session = s, !.rt = stored[s]]
               f == Raised(task[r], "unmapped")
    <2>1. r \in Worker /\ task[r] \in Task /\ (~task[r].locked => s = NoSession)
      BY <1>5, <1>a, Bounds DEF ReadGrant, At, UpstreamInv, UnlockedIsSpent
    <2>2. u.pc = "upstream" /\ u.locked = task[r].locked /\ f.pc = "failed"
      BY <2>1, RaisedFields DEF Task
    <2>3. Becomes(r, f) \/ (s # NoSession /\ Becomes(r, u))
      BY <1>5 DEF ReadGrant
    <2>4. s # NoSession => UpstreamHoldsLock(u)
      BY <2>1, <2>2 DEF UpstreamHoldsLock
    <2> HIDE DEF u, f
    <2> QED
      BY <1>b, <2>1, <2>2, <2>3, <2>4, OneMoves
  <1>6. ASSUME NEW b \in Background, NEW p \in Replica, NEW s \in Session,
               StartBackground(b, p, s)
        PROVE  UpstreamInv'
    <2>1. ([Idle(p) EXCEPT !.pc = "queue", !.session = s]).pc = "queue"
      BY DEF Idle
    <2> QED
      BY <1>6, <1>b, <2>1, Bounds DEF StartBackground
  <1>f. ASSUME NEW p PROVE Idle(p).pc = "idle"
    BY DEF Idle
  <1>7. ASSUME NEW b \in Background, AcquireBackground(b) PROVE UpstreamInv'
    <2> DEFINE u == [task[b] EXCEPT !.pc = "upstream", !.locked = TRUE,
                                    !.rt = stored[task[b].session]]
    <2>1. b \in Worker /\ task[b] \in Task /\ b \notin Request
      BY <1>a, Bounds
    <2>2. UpstreamHoldsLock(u)
      BY <2>1 DEF Task, UpstreamHoldsLock
    <2>3. Becomes(b, Idle(Home)) \/ Becomes(b, u)
      BY <1>7 DEF AcquireBackground
    <2> HIDE DEF u
    <2> QED
      BY <1>b, <1>f, <2>1, <2>2, <2>3, OneMoves
  <1>8. ASSUME NEW w \in Worker, Upstream(w) PROVE UpstreamInv'
    <2>1. task[w] \in Task /\ task[w].locked
      BY <1>8, <1>a DEF Upstream, UpstreamGrants, UpstreamRejects, UpstreamFails, At,
                        UpstreamInv, UpstreamHoldsLock
    <2>2. ASSUME NEW n, NEW a, Becomes(w, n), n = [task[w] EXCEPT !.pc = "save", !.rt = a]
          PROVE  UpstreamInv'
      <3>1. n.pc = "save"
        BY <2>1, <2>2 DEF Task
      <3>2. n.locked = task[w].locked
        BY <2>1, <2>2 DEF Task
      <3> QED
        BY <2>1, <2>2, <3>1, <3>2, OneMoves DEF UpstreamHoldsLock
    <2> QED
      BY <1>8, <1>r, <2>2, UpstreamRaises DEF Upstream, UpstreamGrants
  <1>9. ASSUME NEW w \in Worker, Fail(w) PROVE UpstreamInv'
    BY <1>9, <1>b, <1>c, <1>f DEF Fail
  <1>10. ASSUME NEW w \in Worker, Save(w) PROVE UpstreamInv'
    BY <1>10, <1>b, <1>e, <1>f DEF Save, Goto, Steps
  <1>11. ASSUME NEW r \in Request, Issue(r) \/ Rotate(r) \/ Register(r) \/ Retire(r)
         PROVE  UpstreamInv'
    BY <1>11, <1>e, Bounds DEF Issue, Rotate, Register, Retire, Goto, Steps
  <1>12. ASSUME NEW r \in Request, Record(r) \/ Finish(r) PROVE UpstreamInv'
    BY <1>12, <1>b, <1>c, <1>f, Bounds DEF Record, Finish
  <1>13. ASSUME NEW p \in Replica, Crash(p) PROVE UpstreamInv'
    <2> SUFFICES ASSUME NEW v \in Worker
                 PROVE  UpstreamHoldsLock(task'[v]) /\ (v \in Request => UnlockedIsSpent(task[v])')
      BY DEF UpstreamInv, UpstreamHoldsLock
    <2>1. UNCHANGED mapping
      BY <1>13 DEF Crash, stores
    <2> QED
      BY <1>13, <1>f, <2>1 DEF Crash, UpstreamInv, UpstreamHoldsLock, UnlockedIsSpent
  <1>14. SignsIn \/ Tick \/ (\E s \in Session : Revoke(s)) \/ UNCHANGED vars => UpstreamInv'
    BY <1>d DEF SignsIn, SignIn, Tick, Revoke, vars
  <1>15. ASSUME NEW r \in Request, Exchange(r) \/ Finish(r) PROVE UpstreamInv'
    BY <1>2, <1>3, <1>4, <1>5, <1>11, <1>12, <1>15 DEF Exchange
  <1>16. ASSUME NEW w \in Worker, Upstream(w) \/ Save(w) \/ StoreFails(w) \/ Fail(w)
         PROVE  UpstreamInv'
    BY <1>8, <1>9, <1>10, <1>16 DEF StoreFails
  <1> QED
    BY <1>1, <1>6, <1>7, <1>13, <1>14, <1>15, <1>16 DEF Next, SignsIn

\* Nobody is about to call Cognito at the start.
LEMMA UpstreamInit == Init => UpstreamInv
  BY Bounds DEF Init, UpstreamInv, UpstreamHoldsLock, UnlockedIsSpent, Idle

(***************************************************************************)
(* In one process whose mapping store answers, the refresh token Cognito   *)
(* rotates is never presented twice at once: a session has at most one     *)
(* upstream call under way, whatever requests, transparent refreshes,      *)
(* failures and restarts do.  Both assumptions are needed: the lock is not *)
(* shared by replicas, and run refresh_store_fault shows a mapping read    *)
(* that fails sending a request upstream without the lock.                 *)
(***************************************************************************)
THEOREM OneUpstreamCallCorrect ==
  ASSUME \A p, q \in Replica : p = q, StoreFaults = FALSE
  PROVE  Spec => []OneUpstreamCall
  <1>1. ASSUME TypeOK, LockInv, UpstreamInv, NEW v \in Worker, NEW w \in Worker,
               task[v].pc \in {"upstream", "save"}, task[w].pc \in {"upstream", "save"},
               task[v].session = task[w].session
        PROVE  v = w
    <2>1. task[v].locked /\ task[w].locked
      BY <1>1 DEF UpstreamInv, UpstreamHoldsLock
    <2>2. task[v].replica = task[w].replica
      BY <1>1 DEF TypeOK, Task
    <2> QED
      BY <1>1, <2>1, <2>2 DEF LockInv, HoldsLock
  <1>2. TypeOK /\ LockInv /\ UpstreamInv => OneUpstreamCall
    BY <1>1 DEF OneUpstreamCall
  <1>3. TypeOK /\ ClientInv /\ UpstreamInv /\ [Next]_vars => UpstreamInv'
    BY UpstreamNext
  <1> QED
    BY TypeCorrect, ClientCorrect, LockCorrect, UpstreamInit, <1>2, <1>3, PTL DEF Spec
=============================================================================
