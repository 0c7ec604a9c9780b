-------------------------- MODULE UserSessionProofs --------------------------
(***************************************************************************)
(* Theorems about the sessions of the user service, for every set of       *)
(* handlers and users, every lifetime of the tokens and every bound.       *)
(***************************************************************************)
EXTENDS UserSession, FiniteSetTheorems, TLAPS

------------------------------------------------------------------------------
(***************************************************************************)
(* The type invariant.  What a handler holds at each step is typed, and    *)
(* the refresh tokens are numbered from one, each with a number of its own.*)
(***************************************************************************)
RequestOK(r, g) == /\ r.at = "issue" => r.user \in Users
                   /\ r.at \in {"refresh.delete", "refresh.insert"} => r.token \in g

Numbered(g) == /\ \A t \in g : 1 <= t.n /\ t.n <= Cardinality(g)
               /\ \A s, t \in g : s.n = t.n => s = t

TypeInv ==
  /\ TypeOK
  /\ IsFiniteSet(given) /\ Numbered(given)
  /\ \A w \in Handlers : RequestOK(req[w], given)

\* The numbers in use are natural numbers.
LEMMA Numbers ==
  ASSUME TypeInv
  PROVE  /\ sessions \in Nat /\ clock \in Nat
         /\ \A t \in given : t.session \in Nat /\ t.n \in Nat
         /\ \A a \in access : a.session \in Nat /\ a.expires \in Nat
         /\ \A l \in loggedOut : l.session \in Nat /\ l.at \in Nat
         /\ \A w \in Handlers : req[w].session \in Nat /\ req[w].since \in Nat
  BY DEF TypeInv, TypeOK, Token, AccessToken, Request

\* When the tokens of a request were made.
LEMMA MadeBefore ==
  ASSUME TypeInv, NEW w \in Handlers, NEW made \in req[w].since .. clock
  PROVE  made \in Nat /\ made <= clock
  BY Numbers

\* A request set to a good one keeps all requests good.
LEMMA OneRequest ==
  ASSUME TypeInv, NEW w \in Handlers, NEW r \in Request, RequestOK(r, given'),
         req' = [req EXCEPT ![w] = r], given \subseteq given'
  PROVE  /\ req' \in [Handlers -> Request]
         /\ \A v \in Handlers : RequestOK(req'[v], given')
  BY DEF TypeInv, TypeOK, RequestOK

\* An idle request is a good one.
LEMMA IdleOK == Idle \in Request /\ Idle.at = "idle" /\ RequestOK(Idle, given')
  BY DEF Idle, Request, Steps, RequestOK

\* Storing a token keeps the types and the numbering, and the token is new.
LEMMA StoreKeeps ==
  ASSUME TypeInv, NEW w \in Handlers, NEW user \in Users, NEW session \in Nat,
         NEW from \in Nat, NEW made \in Nat, Store(w, user, session, from, made),
         UNCHANGED <<users, clock, sessions, ghosts>>
  PROVE  /\ TypeInv'
         /\ \E t \in Token :
              /\ t.session = session /\ t.from = from
              /\ tokens' = tokens \cup {t} /\ given' = given \cup {t}
              /\ t \notin given /\ \A s \in given : s.n # t.n
         /\ \E a \in AccessToken : a.session = session /\ access' = access \cup {a}
<1> DEFINE n == Cardinality(given) + 1
           e == made + RefreshTTL
           x == made + AccessTTL
           t == [n |-> n, user |-> user, session |-> session, expires |-> e, from |-> from]
           a == [user |-> user, session |-> session, expires |-> x]
<1>1. /\ tokens' = tokens \cup {t} /\ given' = given \cup {t}
      /\ access' = access \cup {a} /\ req' = [req EXCEPT ![w] = Idle]
  BY DEF Store, Finish
<1>2. n \in Nat /\ n = Cardinality(given) + 1 /\ Cardinality(given) \in Nat
      /\ e \in Nat /\ x \in Nat
  <2>1. Cardinality(given) \in Nat
    BY FS_CardinalityType DEF TypeInv
  <2> QED
    BY <2>1, SessionAssumption
<1> HIDE DEF n, e, x
<1>3. t \in Token /\ a \in AccessToken
  BY <1>2 DEF Token, AccessToken
<1>4. t.n = n /\ t.session = session /\ t.from = from /\ a.session = session
  OBVIOUS
<1> HIDE DEF t, a
<1>5. \A s \in given : s.n \in Nat /\ s.n # t.n
  BY <1>2, <1>4 DEF TypeInv, TypeOK, Token, Numbered
<1>6. t \notin given
  BY <1>5
<1>7. IsFiniteSet(given') /\ Cardinality(given') = n
  BY <1>1, <1>2, <1>6, FS_AddElement DEF TypeInv
<1>8. Numbered(given')
  <2>1. \A s \in given' : 1 <= s.n /\ s.n <= Cardinality(given')
    BY <1>1, <1>2, <1>4, <1>5, <1>7 DEF TypeInv, Numbered
  <2>2. \A r, s \in given' : r.n = s.n => r = s
    BY <1>1, <1>5 DEF TypeInv, Numbered
  <2> QED
    BY <2>1, <2>2 DEF Numbered
<1>9. /\ req' \in [Handlers -> Request]
       /\ \A v \in Handlers : RequestOK(req'[v], given')
  BY <1>1, IdleOK, OneRequest
<1>10. TypeInv'
  BY <1>1, <1>3, <1>7, <1>8, <1>9 DEF TypeInv, TypeOK, ghosts
<1> QED
  BY <1>1, <1>3, <1>4, <1>5, <1>6, <1>10

\* A handler that begins a session holds its user and a session number.
LEMMA BeginKeeps ==
  ASSUME TypeInv, NEW w \in Handlers, NEW u \in Users, BeginSession(w, u), given' = given
  PROVE  /\ sessions' = sessions + 1
         /\ req' \in [Handlers -> Request]
         /\ \A v \in Handlers : RequestOK(req'[v], given')
         /\ req'[w].at = "issue" /\ req'[w].session = sessions + 1
         /\ \A v \in Handlers \ {w} : req'[v] = req[v]
<1> DEFINE s == sessions + 1
           r == [Idle EXCEPT !.at = "issue", !.user = u, !.session = s, !.since = clock]
<1>1. req' = [req EXCEPT ![w] = r] /\ sessions' = s
  BY DEF BeginSession
<1>2. s \in Nat /\ clock \in Nat
  BY DEF TypeInv, TypeOK
<1> HIDE DEF s
<1>3. r \in Request /\ r.at = "issue" /\ r.user = u /\ r.session = s
  BY <1>2 DEF Idle, Request, Steps
<1> HIDE DEF r
<1>4. RequestOK(r, given')
  BY <1>3 DEF RequestOK
<1>5. /\ req' \in [Handlers -> Request]
      /\ \A v \in Handlers : RequestOK(req'[v], given')
  BY <1>1, <1>3, <1>4, OneRequest
<1>6. req'[w] = r /\ \A v \in Handlers \ {w} : req'[v] = req[v]
  BY <1>1 DEF TypeInv, TypeOK
<1> QED
  BY <1>1, <1>3, <1>5, <1>6 DEF s

\* What a handler that exchanges a token holds.
LEMMA ExchangeHolds ==
  ASSUME TypeInv, NEW w \in Handlers,
         req[w].at \in {"refresh.delete", "refresh.insert"}
  PROVE  /\ req[w] \in Request
         /\ req[w].token \in given /\ req[w].token \in Token
         /\ req[w].token.user \in Users /\ req[w].token.session \in Nat
         /\ req[w].token.n \in Nat
<1>1. req[w] \in Request /\ req[w].token \in given
  BY DEF TypeInv, TypeOK, RequestOK
<1>2. req[w].token \in Token
  BY <1>1 DEF TypeInv, TypeOK
<1> QED
  BY <1>1, <1>2 DEF Token

\* Every step keeps the type invariant.
LEMMA TypeNext == TypeInv /\ [Next]_vars => TypeInv'
<1> SUFFICES ASSUME TypeInv, [Next]_vars PROVE TypeInv'
  OBVIOUS
<1> USE DEF ghosts
<1>t. TypeOK
  BY DEF TypeInv
<1>1. ASSUME NEW w \in Handlers, NEW u \in Users, Register(w, u) \/ Login(w, u)
      PROVE  TypeInv'
  <2>1. given' = given /\ BeginSession(w, u)
    BY <1>1 DEF Register, Login
  <2>2. /\ sessions' \in Nat
        /\ req' \in [Handlers -> Request]
        /\ \A v \in Handlers : RequestOK(req'[v], given')
    BY <1>t, <2>1, BeginKeeps DEF TypeOK
  <2> QED
    BY <1>1, <2>2 DEF Register, Login, TypeInv, TypeOK
<1>2. ASSUME NEW w \in Handlers, IssueTokens(w) PROVE TypeInv'
  <2>1. req[w].user \in Users /\ req[w].session \in Nat
    BY <1>2 DEF IssueTokens, At, TypeInv, TypeOK, RequestOK, Request
  <2> QED
    BY <1>2, <2>1, MadeBefore, StoreKeeps DEF IssueTokens
<1>3. ASSUME NEW w \in Handlers, NEW t \in given, RefreshFind(w, t) PROVE TypeInv'
  <2> DEFINE r == [Idle EXCEPT !.at = "refresh.delete", !.token = t]
  <2>1. req' = [req EXCEPT ![w] = r]
    BY <1>3 DEF RefreshFind
  <2>2. r \in Request /\ RequestOK(r, given')
    BY <1>3, <1>t DEF RefreshFind, Idle, Request, Steps, RequestOK, TypeOK
  <2> HIDE DEF r
  <2>3. /\ req' \in [Handlers -> Request]
        /\ \A v \in Handlers : RequestOK(req'[v], given')
    BY <1>3, <2>1, <2>2, OneRequest DEF RefreshFind
  <2>4. overlapped' \subseteq Nat
    <3>1. overlapped' \in {overlapped, overlapped \cup {t.session}}
      BY <1>3 DEF RefreshFind
    <3>2. t.session \in Nat
      BY <1>t DEF TypeOK, Token
    <3> QED
      BY <1>t, <3>1, <3>2 DEF TypeOK
  <2> QED
    BY <1>3, <2>3, <2>4 DEF RefreshFind, TypeInv, TypeOK
<1>4. ASSUME NEW w \in Handlers, RefreshDelete(w) PROVE TypeInv'
  <2> DEFINE r == [req[w] EXCEPT !.at = "refresh.insert", !.since = clock]
  <2>1. req' = [req EXCEPT ![w] = r]
    BY <1>4 DEF RefreshDelete
  <2>2. req[w] \in Request /\ req[w].token \in given
    BY <1>4, ExchangeHolds DEF RefreshDelete, At
  <2>3. r \in Request /\ r.at = "refresh.insert" /\ r.token = req[w].token
    BY <1>t, <2>2 DEF Request, Steps, TypeOK
  <2> HIDE DEF r
  <2>4. RequestOK(r, given')
    BY <1>4, <2>2, <2>3 DEF RequestOK, RefreshDelete
  <2>5. /\ req' \in [Handlers -> Request]
        /\ \A v \in Handlers : RequestOK(req'[v], given')
    BY <1>4, <2>1, <2>3, <2>4, OneRequest DEF RefreshDelete
  <2> QED
    BY <1>4, <2>5 DEF RefreshDelete, DropExchanged, TypeInv, TypeOK
<1>5. ASSUME NEW w \in Handlers, RefreshInsert(w) PROVE TypeInv'
  BY <1>5, ExchangeHolds, MadeBefore, StoreKeeps DEF RefreshInsert, At
<1>6. ASSUME NEW w \in Handlers, NEW a \in access, Logout(w, a) PROVE TypeInv'
  <2>1. a.session \in Nat /\ clock \in Nat
    BY <1>t DEF TypeOK, AccessToken
  <2>2. loggedOut' \subseteq [session : Nat, at : Nat] /\ raced' \subseteq Nat
    <3>1. [session |-> a.session, at |-> clock] \in [session : Nat, at : Nat]
      BY <2>1
    <3>2. raced' \in {raced \cup {a.session}, raced}
      BY <1>6 DEF Logout
    <3>3. loggedOut' = loggedOut \cup {[session |-> a.session, at |-> clock]}
      BY <1>6 DEF Logout
    <3> QED
      BY <1>t, <2>1, <3>1, <3>2, <3>3 DEF TypeOK
  <2>3. tokens' \subseteq tokens 
        /\ UNCHANGED <<users, req, clock, sessions, given, access, overlapped, cut>>
    BY <1>6 DEF Logout, DeleteSession
  <2> QED
    BY <2>2, <2>3 DEF TypeInv, TypeOK
<1>7. ASSUME NEW w \in Handlers, RequestFails(w) PROVE TypeInv'
  <2>1. req' = [req EXCEPT ![w] = Idle]
    BY <1>7 DEF RequestFails, Finish
  <2>2. /\ req' \in [Handlers -> Request]
        /\ \A v \in Handlers : RequestOK(req'[v], given')
    BY <1>7, <2>1, IdleOK, OneRequest DEF RequestFails
  <2>3. cut' \subseteq Nat
    <3>1. cut' = cut \cup {IF At(w, "issue") THEN req[w].session ELSE req[w].token.session}
      BY <1>7 DEF RequestFails
    <3>2. req[w] \in Request /\ req[w].session \in Nat
      BY <1>t DEF TypeOK, Request
    <3>3. CASE At(w, "issue")
      BY <1>t, <3>1, <3>2, <3>3 DEF TypeOK
    <3>4. CASE ~At(w, "issue")
      <4>1. req[w].at \in {"refresh.delete", "refresh.insert"}
        BY <1>7, <3>2, <3>4 DEF RequestFails, At, Request, Steps
      <4>2. req[w].token.session \in Nat
        BY <4>1, ExchangeHolds
      <4> QED
        BY <1>t, <3>1, <3>4, <4>2 DEF TypeOK
    <3> QED
      BY <3>3, <3>4
  <2> QED
    BY <1>7, <2>2, <2>3 DEF RequestFails, TypeInv, TypeOK
<1>8. ASSUME NEW t \in tokens, Expire(t) PROVE TypeInv'
  BY <1>8 DEF Expire, TypeInv, TypeOK
<1>9. CASE Tick \/ UNCHANGED vars
  <2>1. UNCHANGED <<users, tokens, req, sessions, given, access, ghosts>> /\ clock' \in Nat
    <3>1. CASE Tick
      BY <1>t, <3>1 DEF Tick, TypeOK
    <3>2. CASE UNCHANGED vars
      BY <1>t, <3>2 DEF vars, TypeOK
    <3> QED
      BY <1>9, <3>1, <3>2
  <2> QED
    BY <2>1 DEF TypeInv, TypeOK
<1> QED
  BY <1>1, <1>2, <1>3, <1>4, <1>5, <1>6, <1>7, <1>8, <1>9 DEF Next, ReadOnly

\* The initial state satisfies it.
LEMMA TypeInit == Init => TypeInv
<1> SUFFICES ASSUME Init PROVE TypeInv
  OBVIOUS
<1>1. Idle \in Request /\ Idle.at = "idle"
  BY DEF Idle, Request, Steps
<1>2. IsFiniteSet({}) /\ Cardinality({}) = 0
  BY FS_EmptySet
<1> QED
  BY <1>1, <1>2 DEF Init, TypeInv, TypeOK, RequestOK, Numbered

\* The types hold in every reachable state.
THEOREM TypeInvariant == Spec => []TypeInv
  BY TypeInit, TypeNext, PTL DEF Spec

------------------------------------------------------------------------------
(***************************************************************************)
(* What a logout ends.  A session number belongs to the one handler that   *)
(* began it until its first tokens are stored, so no login gives tokens to *)
(* a session that was logged out; and no refresh does when none of the     *)
(* session was under way at its logout.  Tokens never outlive the time     *)
(* they were made by more than their lifetime.                             *)
(***************************************************************************)
Refreshes(r, s) == r.at \in {"refresh.delete", "refresh.insert"} /\ r.token.session = s

Begins(r, s) == r.at = "issue" /\ r.session = s

\* Session s was begun, and has given nothing yet.
Fresh(s) ==
  /\ s <= sessions
  /\ \A t \in given : t.session # s
  /\ \A a \in access : a.session # s
  /\ \A l \in loggedOut : l.session # s

\* Session s was begun, and nothing of it can be given any more.
Ended(s) ==
  /\ s <= sessions
  /\ \A t \in tokens : t.session # s
  /\ \A w \in Handlers : ~Refreshes(req[w], s)

SessionInv ==
  /\ \A t \in given : t.session <= sessions
  /\ \A a \in access : a.session <= sessions
  /\ \A l \in loggedOut : l.session <= sessions
  /\ \A w \in Handlers : req[w].at = "issue" => Fresh(req[w].session)
  /\ \A v, w \in Handlers :
       req[v].at = "issue" /\ req[w].at = "issue" /\ req[v].session = req[w].session => v = w
  /\ \A l \in loggedOut : l.session \notin raced => Ended(l.session)

TimeInv ==
  /\ \A w \in Handlers : req[w].since <= clock
  /\ \A a \in access : a.expires <= clock + AccessTTL

\* What beginning a session keeps.
LEMMA BeginSessionInv ==
  ASSUME TypeInv, SessionInv, NEW w \in Handlers, NEW u \in Users, BeginSession(w, u),
         UNCHANGED <<tokens, given, access, ghosts>>
  PROVE  SessionInv'
<1>1. /\ sessions' = sessions + 1
      /\ req'[w].at = "issue" /\ req'[w].session = sessions + 1
      /\ \A v \in Handlers \ {w} : req'[v] = req[v]
  BY BeginKeeps
<1>2. /\ \A t \in given' : t.session <= sessions /\ t.session \in Nat
      /\ \A a \in access' : a.session <= sessions /\ a.session \in Nat
      /\ \A l \in loggedOut' : l.session <= sessions /\ l.session \in Nat
  BY Numbers DEF SessionInv, ghosts
<1>3. sessions \in Nat /\ \A v \in Handlers : req[v].session \in Nat
  BY Numbers
<1>4. (\A t \in given : t.session <= sessions)'
      /\ (\A a \in access : a.session <= sessions)'
      /\ (\A l \in loggedOut : l.session <= sessions)'
  BY <1>1, <1>2, <1>3
<1>5. ASSUME NEW v \in Handlers, req'[v].at = "issue"
      PROVE  Fresh(req[v].session)'
  <2>1. CASE v = w
    BY <1>1, <1>2, <1>3, <2>1 DEF Fresh
  <2>2. CASE v # w
    BY <1>1, <1>3, <1>5, <2>2 DEF Fresh, SessionInv, ghosts
  <2> QED
    BY <2>1, <2>2
<1>6. \A v \in Handlers : v # w /\ req[v].at = "issue" => req[v].session < req'[w].session
  BY <1>1, <1>3 DEF SessionInv, Fresh
<1>7. ASSUME NEW v \in Handlers, NEW x \in Handlers, req'[v].at = "issue",
             req'[x].at = "issue", req'[v].session = req'[x].session
      PROVE  v = x
  <2>1. CASE v = w \/ x = w
    BY <1>1, <1>3, <1>6, <1>7, <2>1
  <2>2. CASE v # w /\ x # w
    BY <1>1, <1>7, <2>2 DEF SessionInv
  <2> QED
    BY <2>1, <2>2
<1>8. ASSUME NEW l \in loggedOut', l.session \notin raced' PROVE Ended(l.session)'
  <2>1. Ended(l.session) /\ l.session \in Nat
    BY <1>2, <1>8 DEF SessionInv, ghosts
  <2>2. \A v \in Handlers : ~Refreshes(req'[v], l.session)
    BY <1>1, <2>1 DEF Ended, Refreshes
  <2> QED
    BY <1>1, <1>3, <2>1, <2>2 DEF Ended
<1> QED
  BY <1>4, <1>5, <1>7, <1>8 DEF SessionInv

\* What storing a token keeps, when its session is the one the handler began
\* or one that it refreshes.
LEMMA StoreSessionInv ==
  ASSUME TypeInv, SessionInv, NEW w \in Handlers, NEW user \in Users, NEW session \in Nat,
         NEW from \in Nat, NEW made \in Nat, Store(w, user, session, from, made),
         Begins(req[w], session) \/ Refreshes(req[w], session),
         session <= sessions,
         UNCHANGED <<users, clock, sessions, ghosts>>
  PROVE  SessionInv'
<1>1. PICK t \in Token : /\ t.session = session
                         /\ tokens' = tokens \cup {t} /\ given' = given \cup {t}
  BY StoreKeeps
<1>2. PICK a \in AccessToken : a.session = session /\ access' = access \cup {a}
  BY StoreKeeps
<1>3. req'[w].at = "idle" /\ \A v \in Handlers \ {w} : req'[v] = req[v]
  BY DEF Store, Finish, Idle, TypeInv, TypeOK
<1>4. \A v \in Handlers : v # w /\ req[v].at = "issue" => req[v].session # session
  BY <1>1 DEF SessionInv, Begins, Refreshes, Fresh, TypeInv, TypeOK, RequestOK
<1>5. \A l \in loggedOut : l.session \notin raced => l.session # session
  BY DEF SessionInv, Begins, Refreshes, Fresh, Ended
<1>6. (\A r \in given : r.session <= sessions)'
      /\ (\A b \in access : b.session <= sessions)'
      /\ (\A l \in loggedOut : l.session <= sessions)'
  BY <1>1, <1>2 DEF SessionInv, ghosts
<1>7. ASSUME NEW v \in Handlers, req'[v].at = "issue" PROVE Fresh(req[v].session)'
  <2>1. v # w /\ req'[v] = req[v] /\ req[v].session # session /\ Fresh(req[v].session)
    BY <1>3, <1>4, <1>7 DEF SessionInv
  <2> QED
    BY <1>1, <1>2, <2>1 DEF Fresh, ghosts
<1>8. \A v, x \in Handlers : req'[v].at = "issue" /\ req'[x].at = "issue"
                             /\ req'[v].session = req'[x].session => v = x
  BY <1>3 DEF SessionInv
<1>9. ASSUME NEW l \in loggedOut', l.session \notin raced' PROVE Ended(l.session)'
  <2>1. Ended(l.session) /\ l.session # session
    BY <1>5, <1>9 DEF SessionInv, ghosts
  <2>2. \A v \in Handlers : ~Refreshes(req'[v], l.session)
    BY <1>3, <2>1 DEF Ended, Refreshes
  <2> QED
    BY <1>1, <2>1, <2>2 DEF Ended
<1> QED
  BY <1>6, <1>7, <1>8, <1>9 DEF SessionInv

\* A step that draws no session and gives nothing keeps the invariant when the
\* handlers that begin sessions stay as they are, or fewer, no logout is new, and
\* what refreshes a session then could be exchanged for it before.
LEMMA QuietSessionInv ==
  ASSUME SessionInv, UNCHANGED <<sessions, given, access, loggedOut, raced>>,
         tokens' \subseteq tokens,
         \A v \in Handlers : req'[v].at = "issue" => req[v] = req'[v],
         \A v \in Handlers, s \in Nat : Refreshes(req'[v], s) =>
            Refreshes(req[v], s) \/ \E t \in tokens : t.session = s,
         \A l \in loggedOut : l.session \in Nat
  PROVE  SessionInv'
<1>1. (\A t \in given : t.session <= sessions)'
      /\ (\A a \in access : a.session <= sessions)'
      /\ (\A l \in loggedOut : l.session <= sessions)'
  BY DEF SessionInv
<1>2. \A v \in Handlers : req'[v].at = "issue" => Fresh(req[v].session)'
  BY DEF SessionInv, Fresh
<1>3. \A v, x \in Handlers : req'[v].at = "issue" /\ req'[x].at = "issue"
                             /\ req'[v].session = req'[x].session => v = x
  BY DEF SessionInv
<1>4. ASSUME NEW l \in loggedOut', l.session \notin raced' PROVE Ended(l.session)'
  <2>1. Ended(l.session) /\ l.session \in Nat
    BY <1>4 DEF SessionInv
  <2> QED
    BY <2>1 DEF Ended
<1> QED
  BY <1>1, <1>2, <1>3, <1>4 DEF SessionInv

\* Every step keeps the invariant of the sessions.
LEMMA SessionNext == TypeInv /\ SessionInv /\ [Next]_vars => SessionInv'
<1> SUFFICES ASSUME TypeInv, SessionInv, [Next]_vars PROVE SessionInv'
  OBVIOUS
<1>n. \A l \in loggedOut : l.session \in Nat
  BY Numbers
<1>r. req \in [Handlers -> Request] /\ tokens \subseteq given
  BY DEF TypeInv, TypeOK
<1>i. Idle.at = "idle"
  BY DEF Idle
<1>1. ASSUME NEW w \in Handlers, NEW u \in Users, Register(w, u) \/ Login(w, u)
      PROVE  SessionInv'
  BY <1>1, BeginSessionInv DEF Register, Login
<1>2. ASSUME NEW w \in Handlers, IssueTokens(w) PROVE SessionInv'
  <2>1. req[w].user \in Users /\ req[w].session \in Nat /\ req[w].at = "issue"
    BY <1>2 DEF IssueTokens, At, TypeInv, TypeOK, RequestOK, Request
  <2>2. req[w].session <= sessions
    BY <2>1 DEF SessionInv, Fresh
  <2> QED
    BY <1>2, <2>1, <2>2, MadeBefore, StoreSessionInv DEF IssueTokens, Begins
<1>3. ASSUME NEW w \in Handlers, NEW t \in given, RefreshFind(w, t) PROVE SessionInv'
  <2>1. t \in tokens /\ req'[w].at = "refresh.delete" /\ req'[w].token = t
        /\ \A v \in Handlers \ {w} : req'[v] = req[v]
    BY <1>3, <1>r DEF RefreshFind, Exchangeable, Idle
  <2> QED
    BY <1>3, <1>n, <2>1, QuietSessionInv DEF RefreshFind, Refreshes
<1>4. ASSUME NEW w \in Handlers, RefreshDelete(w) PROVE SessionInv'
  <2>1. req[w].at = "refresh.delete" /\ req'[w].at = "refresh.insert"
        /\ req'[w].token = req[w].token
        /\ \A v \in Handlers \ {w} : req'[v] = req[v]
    BY <1>4, <1>r DEF RefreshDelete, At, Request
  <2> QED
    BY <1>4, <1>n, <2>1, QuietSessionInv DEF RefreshDelete, DropExchanged, Refreshes, ghosts
<1>5. ASSUME NEW w \in Handlers, RefreshInsert(w) PROVE SessionInv'
  <2>1. /\ req[w].at = "refresh.insert"
        /\ req[w].token \in given
        /\ req[w].token.user \in Users /\ req[w].token.session \in Nat
        /\ req[w].token.n \in Nat
    BY <1>5, ExchangeHolds DEF RefreshInsert, At
  <2>2. req[w].token.session <= sessions
    BY <2>1 DEF SessionInv
  <2> QED
    BY <1>5, <2>1, <2>2, MadeBefore, StoreSessionInv DEF RefreshInsert, Refreshes
<1>6. ASSUME NEW w \in Handlers, NEW a \in access, Logout(w, a) PROVE SessionInv'
  <2>1. /\ tokens' = {t \in tokens : t.session # a.session}
        /\ loggedOut' = loggedOut \cup {[session |-> a.session, at |-> clock]}
        /\ UNCHANGED <<users, req, clock, sessions, given, access>>
    BY <1>6 DEF Logout, DeleteSession
  <2>2. raced \subseteq raced' /\ (a.session \notin raced' => Refreshing(a.session) = {})
    BY <1>6 DEF Logout
  <2>3. (\A t \in given : t.session <= sessions)'
        /\ (\A b \in access : b.session <= sessions)'
        /\ (\A l \in loggedOut : l.session <= sessions)'
    BY <2>1 DEF SessionInv
  <2>4. ASSUME NEW v \in Handlers, req'[v].at = "issue" PROVE Fresh(req[v].session)'
    <3>1. Fresh(req[v].session)
      BY <2>1, <2>4 DEF SessionInv
    <3> QED
      BY <2>1, <3>1 DEF Fresh
  <2>5. ASSUME NEW l \in loggedOut', l.session \notin raced' PROVE Ended(l.session)'
    <3>1. CASE l.session = a.session
      <4>1. \A v \in Handlers : ~Refreshes(req[v], a.session)
        BY <2>2, <2>5, <3>1 DEF Refreshing, Refreshes
      <4> QED
        BY <2>1, <3>1, <4>1 DEF Ended, SessionInv
    <3>2. CASE l.session # a.session
      <4>1. Ended(l.session)
        BY <2>1, <2>2, <2>5, <3>2 DEF SessionInv
      <4> QED
        BY <2>1, <4>1 DEF Ended
    <3> QED
      BY <3>1, <3>2
  <2>6. \A v, x \in Handlers : req'[v].at = "issue" /\ req'[x].at = "issue"
                               /\ req'[v].session = req'[x].session => v = x
    BY <2>1 DEF SessionInv
  <2> QED
    BY <2>3, <2>4, <2>5, <2>6 DEF SessionInv
<1>7. ASSUME NEW w \in Handlers, RequestFails(w) PROVE SessionInv'
  <2>1. req'[w] = Idle /\ \A v \in Handlers \ {w} : req'[v] = req[v]
    BY <1>7, <1>r DEF RequestFails, Finish
  <2> QED
    BY <1>7, <1>n, <1>i, <2>1, QuietSessionInv DEF RequestFails, Refreshes
<1>8. ASSUME NEW t \in tokens, Expire(t) PROVE SessionInv'
  BY <1>8, <1>n, QuietSessionInv DEF Expire, ghosts
<1>9. CASE Tick
  BY <1>9, <1>n, QuietSessionInv DEF Tick, ghosts
<1>10. CASE UNCHANGED vars
  BY <1>10, <1>n, QuietSessionInv DEF vars, ghosts
<1> QED
  BY <1>1, <1>2, <1>3, <1>4, <1>5, <1>6, <1>7, <1>8, <1>9, <1>10 DEF Next, ReadOnly

\* After a logout that overlaps no refresh of its session, the session never
\* has a refresh token again (UserService.Logout, internal/service/user.go:121).
THEOREM LogoutIsFinal == Spec => []LogoutEndsRefreshing
<1>1. Init => SessionInv
  BY DEF Init, SessionInv, Idle
<1>2. SessionInv => LogoutEndsRefreshing
  BY DEF SessionInv, Ended, LogoutEndsRefreshing
<1> QED
  BY <1>1, <1>2, TypeInvariant, SessionNext, PTL DEF Spec

------------------------------------------------------------------------------
(***************************************************************************)
(* The access tokens of a logged-out session.  A request computed the      *)
(* expiry of its tokens at some earlier time, so every access token        *)
(* expires within its lifetime from now; and a session that has ended      *)
(* gives no new one.                                                       *)
(***************************************************************************)
AccessInv == TimeInv /\ LogoutBoundsAccess

\* Storing a token keeps the bounds, by the same condition on its session.
LEMMA StoreAccessInv ==
  ASSUME TypeInv, SessionInv, AccessInv,
         NEW w \in Handlers, NEW user \in Users, NEW session \in Nat,
         NEW from \in Nat, NEW made \in Nat, made <= clock,
         Store(w, user, session, from, made),
         Begins(req[w], session) \/ Refreshes(req[w], session),
         UNCHANGED <<users, clock, sessions, ghosts>>
  PROVE  AccessInv'
<1> DEFINE x == made + AccessTTL
           a == [user |-> user, session |-> session, expires |-> x]
<1>1. access' = access \cup {a} /\ req' = [req EXCEPT ![w] = Idle]
  BY DEF Store, Finish
<1>2. clock \in Nat /\ AccessTTL \in Nat
  BY Numbers, SessionAssumption
<1>3. x <= clock + AccessTTL
  BY <1>2
<1> HIDE DEF x
<1>4. a.expires = x /\ a.session = session
  OBVIOUS
<1> HIDE DEF a
<1>5. TimeInv'
  <2>1. \A v \in Handlers : req'[v].since <= clock
    BY <1>1, <1>2 DEF AccessInv, TimeInv, TypeInv, TypeOK, Idle
  <2> QED
    BY <1>1, <1>3, <1>4, <2>1 DEF AccessInv, TimeInv
<1>6. \A l \in loggedOut : l.session \notin raced => l.session # session
  BY DEF SessionInv, Begins, Refreshes, Fresh, Ended
<1>7. LogoutBoundsAccess'
  BY <1>1, <1>4, <1>6 DEF AccessInv, LogoutBoundsAccess, ghosts
<1> QED
  BY <1>5, <1>7 DEF AccessInv

\* A step that gives no access token and logs nobody out keeps the bounds.
LEMMA QuietAccessInv ==
  ASSUME TypeInv, AccessInv, UNCHANGED <<access, loggedOut, raced>>,
         clock' \in Nat, clock <= clock',
         \A v \in Handlers : req'[v].since <= clock'
  PROVE  AccessInv'
<1>1. \A a \in access' : a.expires <= clock' + AccessTTL
  BY Numbers, SessionAssumption DEF AccessInv, TimeInv
<1> QED
  BY <1>1 DEF AccessInv, TimeInv, LogoutBoundsAccess

\* Every step keeps the bounds.
LEMMA AccessNext == TypeInv /\ SessionInv /\ AccessInv /\ [Next]_vars => AccessInv'
<1> SUFFICES ASSUME TypeInv, SessionInv, AccessInv, [Next]_vars PROVE AccessInv'
  OBVIOUS
<1>n. /\ clock \in Nat /\ req \in [Handlers -> Request]
      /\ \A v \in Handlers : req[v].since \in Nat /\ req[v].since <= clock
  BY Numbers DEF AccessInv, TimeInv, TypeInv, TypeOK
<1>i. Idle.since = 0
  BY DEF Idle
<1>1. ASSUME NEW w \in Handlers, NEW u \in Users, Register(w, u) \/ Login(w, u)
      PROVE  AccessInv'
  <2>1. BeginSession(w, u) /\ clock' = clock /\ UNCHANGED <<access, ghosts>>
    BY <1>1 DEF Register, Login
  <2>2. \A v \in Handlers : req'[v].since <= clock
    BY <1>n, <2>1 DEF BeginSession, Idle
  <2> QED
    BY <1>n, <2>1, <2>2, QuietAccessInv DEF ghosts
<1>2. ASSUME NEW w \in Handlers, IssueTokens(w) PROVE AccessInv'
  <2>1. req[w].user \in Users /\ req[w].session \in Nat /\ req[w].at = "issue"
    BY <1>2 DEF IssueTokens, At, TypeInv, TypeOK, RequestOK, Request
  <2> QED
    BY <1>2, <2>1, MadeBefore, StoreAccessInv DEF IssueTokens, Begins
<1>3. ASSUME NEW w \in Handlers, NEW t \in given, RefreshFind(w, t) PROVE AccessInv'
  <2>1. \A v \in Handlers : req'[v].since <= clock
    BY <1>3, <1>n DEF RefreshFind, Idle
  <2> QED
    BY <1>3, <1>n, <2>1, QuietAccessInv DEF RefreshFind
<1>4. ASSUME NEW w \in Handlers, RefreshDelete(w) PROVE AccessInv'
  <2>1. \A v \in Handlers : req'[v].since <= clock
    BY <1>4, <1>n DEF RefreshDelete, Request
  <2> QED
    BY <1>4, <1>n, <2>1, QuietAccessInv DEF RefreshDelete, ghosts
<1>5. ASSUME NEW w \in Handlers, RefreshInsert(w) PROVE AccessInv'
  BY <1>5, ExchangeHolds, MadeBefore, StoreAccessInv DEF RefreshInsert, At, Refreshes
<1>6. ASSUME NEW w \in Handlers, NEW a \in access, Logout(w, a) PROVE AccessInv'
  <2>1. /\ loggedOut' = loggedOut \cup {[session |-> a.session, at |-> clock]}
        /\ UNCHANGED <<req, clock, access>> /\ raced \subseteq raced'
    BY <1>6 DEF Logout
  <2> QED
    BY <2>1 DEF AccessInv, TimeInv, LogoutBoundsAccess
<1>7. ASSUME NEW w \in Handlers, RequestFails(w) PROVE AccessInv'
  <2>1. \A v \in Handlers : req'[v].since <= clock
    BY <1>7, <1>n, <1>i DEF RequestFails, Finish
  <2> QED
    BY <1>7, <1>n, <2>1, QuietAccessInv DEF RequestFails
<1>8. ASSUME NEW t \in tokens, Expire(t) PROVE AccessInv'
  BY <1>8, <1>n, QuietAccessInv DEF Expire, ghosts
<1>9. CASE Tick
  <2>1. clock' = clock + 1 /\ UNCHANGED <<req, access, ghosts>>
    BY <1>9 DEF Tick
  <2>2. \A v \in Handlers : req'[v].since <= clock'
    BY <1>n, <2>1
  <2> QED
    BY <1>n, <2>1, <2>2, QuietAccessInv DEF ghosts
<1>10. CASE UNCHANGED vars
  BY <1>10 DEF vars, ghosts, AccessInv, TimeInv, LogoutBoundsAccess
<1> QED
  BY <1>1, <1>2, <1>3, <1>4, <1>5, <1>6, <1>7, <1>8, <1>9, <1>10 DEF Next, ReadOnly

\* After such a logout every access token of the session expires within the
\* access lifetime (JWTManager.GenerateAccessToken, internal/jwt/jwt.go:40).
THEOREM LogoutLimitsAccess == Spec => []LogoutBoundsAccess
<1>1. Init => SessionInv
  BY DEF Init, SessionInv, Idle
<1>2. Init => AccessInv
  BY DEF Init, AccessInv, TimeInv, LogoutBoundsAccess, Idle
<1>3. AccessInv => LogoutBoundsAccess
  BY DEF AccessInv
<1> QED
  BY <1>1, <1>2, <1>3, TypeInvariant, SessionNext, AccessNext, PTL DEF Spec

------------------------------------------------------------------------------
\* An exchange that is under way holds its token, so a step of it concerns no
\* token that is spent; and the number of a new token is no other token's.
LEMMA SpentNext ==
  ASSUME TypeInv, [Next]_vars, NEW t \in given, Spent(t)
  PROVE  Spent(t)' /\ Children(t)' = Children(t)
<1>r. req \in [Handlers -> Request] /\ tokens \subseteq given /\ ~(t \in tokens)
  BY DEF TypeInv, TypeOK, Spent
<1>e. \A v \in Handlers :
        ~(req[v].at \in {"refresh.delete", "refresh.insert"} /\ req[v].token = t)
  BY DEF Spent, Exchanging
<1> DEFINE Quiet == /\ given' = given /\ tokens' \subseteq tokens
                    /\ \A v \in Handlers :
                         ~(req'[v].at \in {"refresh.delete", "refresh.insert"}
                           /\ req'[v].token = t)
<1>q. ASSUME Quiet PROVE Spent(t)' /\ Children(t)' = Children(t)
  BY <1>q, <1>r DEF Spent, Exchanging, Children
<1>s. ASSUME NEW w \in Handlers, NEW user \in Users, NEW session \in Nat, NEW from \in Nat,
             NEW made \in Nat, Store(w, user, session, from, made),
             UNCHANGED <<users, clock, sessions, ghosts>>, from # t.n
      PROVE  Spent(t)' /\ Children(t)' = Children(t)
  <2>1. PICK x \in Token : /\ x.from = from /\ x \notin given
                           /\ tokens' = tokens \cup {x} /\ given' = given \cup {x}
    BY <1>s, StoreKeeps
  <2>2. \A v \in Handlers :
          ~(req'[v].at \in {"refresh.delete", "refresh.insert"} /\ req'[v].token = t)
    BY <1>s, <1>r, <1>e DEF Store, Finish, Idle
  <2>3. Spent(t)'
    BY <1>r, <2>1, <2>2 DEF Spent, Exchanging
  <2>4. Children(t)' = Children(t)
    BY <1>s, <2>1 DEF Children
  <2> QED
    BY <2>3, <2>4
<1>1. ASSUME NEW w \in Handlers, NEW u \in Users, Register(w, u) \/ Login(w, u) PROVE Quiet
  BY <1>1, <1>r, <1>e DEF Register, Login, BeginSession, Idle
<1>2. ASSUME NEW w \in Handlers, IssueTokens(w)
      PROVE  Spent(t)' /\ Children(t)' = Children(t)
  <2>1. req[w].user \in Users /\ req[w].session \in Nat
    BY <1>2 DEF IssueTokens, At, TypeInv, TypeOK, RequestOK, Request
  <2>2. t.n # 0 /\ 0 \in Nat
    BY DEF TypeInv, Numbered
  <2> QED
    BY <1>2, <1>s, <2>1, <2>2, MadeBefore DEF IssueTokens
<1>3. ASSUME NEW w \in Handlers, NEW x \in given, RefreshFind(w, x) PROVE Quiet
  BY <1>3, <1>r, <1>e DEF RefreshFind, Exchangeable, Idle
<1>4. ASSUME NEW w \in Handlers, RefreshDelete(w) PROVE Quiet
  BY <1>4, <1>r, <1>e DEF RefreshDelete, At, DropExchanged, Request
<1>5. ASSUME NEW w \in Handlers, RefreshInsert(w)
      PROVE  Spent(t)' /\ Children(t)' = Children(t)
  <2>1. /\ req[w].token \in given /\ req[w].token # t
        /\ req[w].token.user \in Users /\ req[w].token.session \in Nat
        /\ req[w].token.n \in Nat
    BY <1>5, <1>e, ExchangeHolds DEF RefreshInsert, At
  <2>2. req[w].token.n # t.n
    BY <2>1 DEF TypeInv, Numbered
  <2> QED
    BY <1>5, <1>s, <2>1, <2>2, MadeBefore DEF RefreshInsert
<1>6. ASSUME NEW w \in Handlers, NEW a \in access, Logout(w, a) PROVE Quiet
  BY <1>6, <1>e DEF Logout, DeleteSession
<1>7. ASSUME NEW w \in Handlers, RequestFails(w) PROVE Quiet
  BY <1>7, <1>r, <1>e DEF RequestFails, Finish, Idle
<1>8. ASSUME NEW x \in tokens, Expire(x) PROVE Quiet
  BY <1>8, <1>e DEF Expire
<1>9. CASE Tick \/ UNCHANGED vars
  BY <1>9, <1>e, <1>q DEF Tick, vars
<1> HIDE DEF Quiet
<1> QED
  BY <1>q, <1>1, <1>2, <1>3, <1>4, <1>5, <1>6, <1>7, <1>8, <1>9 DEF Next, ReadOnly

\* A refresh token that was exchanged, or deleted, is never exchanged again
\* (UserService.RefreshToken, internal/service/user.go:136).
THEOREM ReplayRefused == Spec => ReplayIsRefused
<1>1. TypeInv /\ [Next]_vars =>
        [\A t \in given : Spent(t) => Spent(t)' /\ Children(t)' = Children(t)]_vars
  BY SpentNext
<1> QED
  BY <1>1, TypeInvariant, PTL DEF Spec, ReplayIsRefused
------------------------------------------------------------------------------
(***************************************************************************)
(* The stored tokens of a session.  While no two refreshes of it overlap,  *)
(* its one refresh holds the one token that may be stored, and once that   *)
(* is deleted nothing is stored until the refresh stores its successor.    *)
(***************************************************************************)
Alone(s) ==
  /\ \A p, q \in tokens : p.session = s /\ q.session = s => p = q
  /\ \A v, x \in Handlers : Refreshes(req[v], s) /\ Refreshes(req[x], s) => v = x
  /\ \A v \in Handlers, t \in tokens :
       Refreshes(req[v], s) /\ t.session = s => req[v].at = "refresh.delete" /\ req[v].token = t

OneTokenInv == \A s \in Nat : s \notin overlapped => Alone(s)

\* A step that stores nothing keeps a session alone when the refreshes of it
\* stay as they were, or end.
LEMMA QuietAlone ==
  ASSUME NEW s \in Nat, Alone(s), tokens' \subseteq tokens,
         \A v \in Handlers : Refreshes(req'[v], s) => req'[v] = req[v]
  PROVE  Alone(s)'
<1>1. (\A p, q \in tokens : p.session = s /\ q.session = s => p = q)'
  BY DEF Alone
<1>2. (\A v, x \in Handlers : Refreshes(req[v], s) /\ Refreshes(req[x], s) => v = x)'
  BY DEF Alone
<1>3. (\A v \in Handlers, t \in tokens :
         Refreshes(req[v], s) /\ t.session = s => req[v].at = "refresh.delete"
                                                  /\ req[v].token = t)'
  BY DEF Alone
<1> QED
  BY <1>1, <1>2, <1>3 DEF Alone

\* Storing the first token of a session, or the successor of one that is gone,
\* keeps every session alone.
LEMMA StoreOneToken ==
  ASSUME TypeInv, SessionInv, OneTokenInv,
         NEW w \in Handlers, NEW user \in Users, NEW session \in Nat,
         NEW from \in Nat, NEW made \in Nat, Store(w, user, session, from, made),
         \/ Begins(req[w], session)
         \/ req[w].at = "refresh.insert" /\ req[w].token.session = session,
         UNCHANGED <<users, clock, sessions, ghosts>>
  PROVE  OneTokenInv'
<1>1. PICK t \in Token : t.session = session /\ tokens' = tokens \cup {t}
  BY StoreKeeps
<1>2. req'[w].at = "idle" /\ \A v \in Handlers \ {w} : req'[v] = req[v]
  BY DEF Store, Finish, Idle, TypeInv, TypeOK
<1>3. overlapped' = overlapped
  BY DEF ghosts
<1> SUFFICES ASSUME NEW s \in Nat, s \notin overlapped PROVE Alone(s)'
  BY <1>3 DEF OneTokenInv
<1>4. Alone(s)
  BY DEF OneTokenInv
<1>5. \A v \in Handlers : Refreshes(req'[v], s) => v # w /\ Refreshes(req[v], s)
  BY <1>2 DEF Refreshes
<1>6. CASE s # session
  <2>1. \A p \in tokens' : p.session = s => p \in tokens
    BY <1>1, <1>6
  <2> QED
    BY <1>2, <1>4, <1>5, <2>1 DEF Alone
<1>7. CASE s = session
  <2>1. \A v \in Handlers : v # w => ~Refreshes(req[v], s)
    <3>1. CASE Begins(req[w], session)
      BY <1>7, <3>1 DEF Begins, Refreshes, SessionInv, Fresh, TypeInv, TypeOK, RequestOK
    <3>2. CASE req[w].at = "refresh.insert" /\ req[w].token.session = session
      BY <1>4, <1>7, <3>2 DEF Alone, Refreshes
    <3> QED
      BY <3>1, <3>2
  <2>2. \A p \in tokens : p.session # s
    <3>1. CASE Begins(req[w], session)
      BY <1>7, <3>1 DEF Begins, SessionInv, Fresh, TypeInv, TypeOK
    <3>2. CASE req[w].at = "refresh.insert" /\ req[w].token.session = session
      BY <1>4, <1>7, <3>2 DEF Alone, Refreshes
    <3> QED
      BY <3>1, <3>2
  <2> QED
    BY <1>1, <1>5, <2>1, <2>2 DEF Alone
<1> QED
  BY <1>6, <1>7

\* Every step keeps the sessions without overlapping refreshes alone.
LEMMA OneTokenNext == TypeInv /\ SessionInv /\ OneTokenInv /\ [Next]_vars => OneTokenInv'
<1> SUFFICES ASSUME TypeInv, SessionInv, OneTokenInv, [Next]_vars PROVE OneTokenInv'
  OBVIOUS
<1>r. req \in [Handlers -> Request] /\ tokens \subseteq given
  BY DEF TypeInv, TypeOK
<1>q. ASSUME tokens' \subseteq tokens, overlapped' = overlapped,
             \A v \in Handlers : req'[v].at \in {"refresh.delete", "refresh.insert"}
                                 => req'[v] = req[v]
      PROVE  OneTokenInv'
  BY <1>q, QuietAlone DEF OneTokenInv, Refreshes
<1>1. ASSUME NEW w \in Handlers, NEW u \in Users, Register(w, u) \/ Login(w, u)
      PROVE  OneTokenInv'
  BY <1>1, <1>q, BeginKeeps DEF Register, Login, ghosts
<1>2. ASSUME NEW w \in Handlers, IssueTokens(w) PROVE OneTokenInv'
  <2>1. req[w].user \in Users /\ req[w].session \in Nat /\ req[w].at = "issue"
    BY <1>2 DEF IssueTokens, At, TypeInv, TypeOK, RequestOK, Request
  <2> QED
    BY <1>2, <2>1, MadeBefore, StoreOneToken DEF IssueTokens, Begins
<1>3. ASSUME NEW w \in Handlers, NEW t \in given, RefreshFind(w, t) PROVE OneTokenInv'
  <2>1. /\ t \in tokens /\ tokens' = tokens /\ req[w].at = "idle"
        /\ req'[w].at = "refresh.delete" /\ req'[w].token = t
        /\ \A v \in Handlers \ {w} : req'[v] = req[v]
    BY <1>3, <1>r DEF RefreshFind, Exchangeable, Idle, At
  <2>2. /\ overlapped \subseteq overlapped'
        /\ t.session \notin overlapped' => Refreshing(t.session) = {}
    BY <1>3 DEF RefreshFind
  <2> SUFFICES ASSUME NEW s \in Nat, s \notin overlapped' PROVE Alone(s)'
    BY DEF OneTokenInv
  <2>3. Alone(s)
    BY <2>2 DEF OneTokenInv
  <2>4. CASE s # t.session
    BY <2>1, <2>3, <2>4, QuietAlone DEF Refreshes
  <2>5. CASE s = t.session
    <3>1. \A v \in Handlers : ~Refreshes(req[v], s)
      BY <2>2, <2>5 DEF Refreshing, Refreshes
    <3>2. \A v \in Handlers : Refreshes(req'[v], s) => v = w
      BY <2>1, <3>1
    <3> QED
      BY <2>1, <2>3, <2>5, <3>2 DEF Alone
  <2> QED
    BY <2>4, <2>5
<1>4. ASSUME NEW w \in Handlers, RefreshDelete(w) PROVE OneTokenInv'
  <2>1. /\ req[w].at = "refresh.delete" /\ req'[w].at = "refresh.insert"
        /\ req'[w].token = req[w].token
        /\ \A v \in Handlers \ {w} : req'[v] = req[v]
    BY <1>4, <1>r DEF RefreshDelete, At, Request
  <2>2. tokens' = tokens \ {req[w].token} /\ overlapped' = overlapped
    BY <1>4 DEF RefreshDelete, DropExchanged, ghosts
  <2> SUFFICES ASSUME NEW s \in Nat, s \notin overlapped PROVE Alone(s)'
    BY <2>2 DEF OneTokenInv
  <2>3. Alone(s)
    BY DEF OneTokenInv
  <2>4. \A v \in Handlers : Refreshes(req'[v], s) <=> Refreshes(req[v], s)
    BY <2>1 DEF Refreshes
  <2>5. (\A v \in Handlers, t \in tokens :
           Refreshes(req[v], s) /\ t.session = s => req[v].at = "refresh.delete"
                                                    /\ req[v].token = t)'
    BY <2>1, <2>2, <2>3, <2>4 DEF Alone
  <2> QED
    BY <2>2, <2>3, <2>4, <2>5 DEF Alone
<1>5. ASSUME NEW w \in Handlers, RefreshInsert(w) PROVE OneTokenInv'
  <2>1. req[w].at = "refresh.insert"
    BY <1>5 DEF RefreshInsert, At
  <2> QED
    BY <1>5, <2>1, ExchangeHolds, MadeBefore, StoreOneToken DEF RefreshInsert
<1>6. ASSUME NEW w \in Handlers, NEW a \in access, Logout(w, a) PROVE OneTokenInv'
  BY <1>6, <1>q DEF Logout, DeleteSession
<1>7. ASSUME NEW w \in Handlers, RequestFails(w) PROVE OneTokenInv'
  BY <1>7, <1>q, <1>r DEF RequestFails, Finish, Idle
<1>8. ASSUME NEW t \in tokens, Expire(t) PROVE OneTokenInv'
  BY <1>8, <1>q DEF Expire, ghosts
<1>9. CASE Tick \/ UNCHANGED vars
  BY <1>9, <1>q DEF Tick, vars, ghosts
<1> QED
  BY <1>1, <1>2, <1>3, <1>4, <1>5, <1>6, <1>7, <1>8, <1>9 DEF Next, ReadOnly

\* A session of which no two refreshes overlapped has at most one stored token
\* (UserService.RefreshToken deletes before it stores, internal/service/user.go:136).
THEOREM OneTokenStored == Spec => []OneTokenPerSession
<1>1. Init => SessionInv
  BY DEF Init, SessionInv, Idle
<1>2. Init => OneTokenInv
  BY DEF Init, OneTokenInv, Alone, Refreshes, Idle
<1>3. TypeInv /\ OneTokenInv => OneTokenPerSession
  BY Numbers DEF OneTokenInv, Alone, OneTokenPerSession, TypeInv, TypeOK
<1> QED
  BY <1>1, <1>2, <1>3, TypeInvariant, SessionNext, OneTokenNext, PTL DEF Spec

------------------------------------------------------------------------------
(***************************************************************************)
(* A session stays able to refresh.  The property is inductive: a refresh  *)
(* of the session under way ends by storing its successor or by being cut, *)
(* and a stored token goes by a refresh, a logout or its expiry.           *)
(***************************************************************************)
Survives(s) ==
  \/ s \in cut
  \/ \E l \in loggedOut : l.session = s
  \/ \E c \in given : c.session = s /\ clock >= c.expires
  \/ \E c \in tokens : c.session = s
  \/ \E v \in Handlers : Refreshes(req[v], s)

\* The disjuncts of the property, with its last one as a quantifier.
LEMMA SurvivesAll == SessionSurvives <=> \A t \in given : Survives(t.session)
  BY DEF SessionSurvives, Survives, Refreshing, Refreshes

\* A step that forgets nothing of a session that is cut, logged out or expired,
\* deletes no token of it and ends no refresh of it keeps it able to refresh.
LEMMA QuietSurvives ==
  ASSUME TypeInv, NEW s \in Nat, Survives(s),
         cut \subseteq cut', loggedOut \subseteq loggedOut', given \subseteq given',
         clock' \in Nat, clock <= clock',
         \A c \in tokens : c.session = s => Survives(s)' \/ c \in tokens',
         \A v \in Handlers : Refreshes(req[v], s) => Survives(s)' \/ Refreshes(req'[v], s)
  PROVE  Survives(s)'
<1>1. \A c \in given : c.expires \in Nat
  BY DEF TypeInv, TypeOK, Token
<1>2. clock \in Nat
  BY DEF TypeInv, TypeOK
<1>3. CASE \E c \in given : c.session = s /\ clock >= c.expires
  BY <1>1, <1>2, <1>3 DEF Survives
<1>4. CASE s \in cut \/ \E l \in loggedOut : l.session = s
  BY <1>4 DEF Survives
<1>5. CASE \E c \in tokens : c.session = s
  BY <1>5 DEF Survives
<1>6. CASE \E v \in Handlers : Refreshes(req[v], s)
  BY <1>6 DEF Survives
<1> QED
  BY <1>3, <1>4, <1>5, <1>6 DEF Survives

\* Storing a token of a session keeps every session able to refresh.
LEMMA StoreSurvives ==
  ASSUME TypeInv, SessionSurvives, NEW w \in Handlers, NEW user \in Users,
         NEW session \in Nat, NEW from \in Nat, NEW made \in Nat,
         Store(w, user, session, from, made),
         Begins(req[w], session) \/ Refreshes(req[w], session),
         UNCHANGED <<users, clock, sessions, ghosts>>
  PROVE  SessionSurvives'
<1>1. PICK t \in Token : /\ t.session = session
                         /\ tokens' = tokens \cup {t} /\ given' = given \cup {t}
  BY StoreKeeps
<1>2. \A v \in Handlers \ {w} : req'[v] = req[v]
  BY DEF Store, Finish, TypeInv, TypeOK
<1>3. clock' \in Nat /\ clock <= clock' /\ cut' = cut /\ loggedOut' = loggedOut
  BY DEF ghosts, TypeInv, TypeOK
<1>4. Survives(session)'
  BY <1>1 DEF Survives
<1>5. ASSUME NEW x \in given, x.session # session PROVE Survives(x.session)'
  <2>1. x.session \in Nat /\ Survives(x.session)
    BY Numbers, SurvivesAll
  <2>2. \A v \in Handlers : Refreshes(req[v], x.session) => Refreshes(req'[v], x.session)
    BY <1>2, <1>5 DEF Begins, Refreshes
  <2> QED
    BY <1>1, <1>3, <2>1, <2>2, QuietSurvives
<1>6. \A x \in given' : Survives(x.session)'
  BY <1>1, <1>4, <1>5
<1> QED
  BY <1>6 DEF SessionSurvives, Survives, Refreshing, Refreshes

\* Every step keeps the sessions able to refresh.
LEMMA SurvivesNext == TypeInv /\ SessionSurvives /\ [Next]_vars => SessionSurvives'
<1> SUFFICES ASSUME TypeInv, SessionSurvives, [Next]_vars PROVE SessionSurvives'
  OBVIOUS
<1>r. req \in [Handlers -> Request] /\ tokens \subseteq given /\ clock \in Nat
  BY DEF TypeInv, TypeOK
<1>s. ASSUME given' = given, \A t \in given : Survives(t.session)' PROVE SessionSurvives'
  BY <1>s DEF SessionSurvives, Survives, Refreshing, Refreshes
<1>o. \A t \in given : t.session \in Nat /\ Survives(t.session)
  BY Numbers, SurvivesAll
<1>q. ASSUME cut \subseteq cut', loggedOut \subseteq loggedOut', given' = given,
             clock' \in Nat, clock <= clock',
             \A t \in tokens : Survives(t.session)' \/ t \in tokens',
             \A v \in Handlers, s \in Nat :
               Refreshes(req[v], s) => Survives(s)' \/ Refreshes(req'[v], s)
      PROVE  SessionSurvives'
  BY <1>q, <1>o, <1>s, QuietSurvives
<1>1. ASSUME NEW w \in Handlers, NEW u \in Users, Register(w, u) \/ Login(w, u)
      PROVE  SessionSurvives'
  <2>1. BeginSession(w, u) /\ req[w].at = "idle" /\ UNCHANGED <<tokens, clock, given, ghosts>>
    BY <1>1 DEF Register, Login, At
  <2>2. \A v \in Handlers, s \in Nat : Refreshes(req[v], s) => Refreshes(req'[v], s)
    BY <2>1, BeginKeeps DEF Refreshes
  <2> QED
    BY <1>q, <1>r, <2>1, <2>2 DEF ghosts
<1>2. ASSUME NEW w \in Handlers, IssueTokens(w) PROVE SessionSurvives'
  <2>1. req[w].user \in Users /\ req[w].session \in Nat /\ req[w].at = "issue"
    BY <1>2 DEF IssueTokens, At, TypeInv, TypeOK, RequestOK, Request
  <2> QED
    BY <1>2, <2>1, MadeBefore, StoreSurvives DEF IssueTokens, Begins
<1>3. ASSUME NEW w \in Handlers, NEW t \in given, RefreshFind(w, t) PROVE SessionSurvives'
  <2>1. \A v \in Handlers, s \in Nat : Refreshes(req[v], s) => Refreshes(req'[v], s)
    BY <1>3, <1>r DEF RefreshFind, At, Refreshes
  <2> QED
    BY <1>3, <1>q, <1>r, <2>1 DEF RefreshFind
<1>4. ASSUME NEW w \in Handlers, RefreshDelete(w) PROVE SessionSurvives'
  <2>1. \A v \in Handlers, s \in Nat : Refreshes(req[v], s) => Refreshes(req'[v], s)
    BY <1>4, <1>r DEF RefreshDelete, At, Refreshes, Request
  <2>2. PICK s \in Nat : s = req[w].token.session
    BY <1>4, ExchangeHolds DEF RefreshDelete, At
  <2>3. Survives(s)'
    <3>1. Refreshes(req[w], s)
      BY <1>4, <2>2 DEF RefreshDelete, At, Refreshes
    <3> QED
      BY <2>1, <3>1 DEF Survives
  <2>4. \A t \in tokens : Survives(t.session)' \/ t \in tokens'
    BY <1>4, <2>2, <2>3 DEF RefreshDelete, DropExchanged
  <2> QED
    BY <1>4, <1>q, <1>r, <2>1, <2>4 DEF RefreshDelete, ghosts
<1>5. ASSUME NEW w \in Handlers, RefreshInsert(w) PROVE SessionSurvives'
  BY <1>5, ExchangeHolds, MadeBefore, StoreSurvives DEF RefreshInsert, At, Refreshes
<1>6. ASSUME NEW w \in Handlers, NEW a \in access, Logout(w, a) PROVE SessionSurvives'
  <2>1. Survives(a.session)'
    <3> DEFINE l == [session |-> a.session, at |-> clock]
    <3>1. l \in loggedOut'
      BY <1>6 DEF Logout
    <3>2. l.session = a.session
      OBVIOUS
    <3> HIDE DEF l
    <3> QED
      BY <3>1, <3>2 DEF Survives
  <2>2. \A t \in tokens : Survives(t.session)' \/ t \in tokens'
    BY <1>6, <2>1 DEF Logout, DeleteSession
  <2> QED
    BY <1>6, <1>q, <1>r, <2>2 DEF Logout
<1>7. ASSUME NEW w \in Handlers, RequestFails(w) PROVE SessionSurvives'
  <2>1. \A s \in Nat : Refreshes(req[w], s) => Survives(s)'
    BY <1>7 DEF RequestFails, At, Refreshes, Survives
  <2>2. \A v \in Handlers, s \in Nat :
          Refreshes(req[v], s) => Survives(s)' \/ Refreshes(req'[v], s)
    BY <1>7, <1>r, <2>1 DEF RequestFails, Finish
  <2> QED
    BY <1>7, <1>q, <1>r, <2>2 DEF RequestFails
<1>8. ASSUME NEW t \in tokens, Expire(t) PROVE SessionSurvives'
  <2>1. Survives(t.session)'
    BY <1>8, <1>r DEF Expire, Survives
  <2>2. \A x \in tokens : Survives(x.session)' \/ x \in tokens'
    BY <1>8, <2>1 DEF Expire
  <2> QED
    BY <1>8, <1>q, <1>r, <2>2 DEF Expire, ghosts
<1>9. CASE Tick
  BY <1>9, <1>q, <1>r DEF Tick, ghosts
<1>10. CASE UNCHANGED vars
  BY <1>10, <1>q, <1>r DEF vars, ghosts
<1> QED
  BY <1>1, <1>2, <1>3, <1>4, <1>5, <1>6, <1>7, <1>8, <1>9, <1>10 DEF Next, ReadOnly

\* However many refreshes of a session overlap, it stays able to refresh until it
\* is logged out, expires, or a request of it ends halfway
\* (UserService.RefreshToken, internal/service/user.go:136).
THEOREM SessionStaysAlive == Spec => []SessionSurvives
<1>1. Init => SessionSurvives
  BY DEF Init, SessionSurvives
<1> QED
  BY <1>1, TypeInvariant, SurvivesNext, PTL DEF Spec
==============================================================================
