----------------------------- MODULE UserSession -----------------------------
(***************************************************************************)
(* Sessions of the user service: Register, Login, RefreshToken and Logout, *)
(* served by concurrent handlers (goroutines of one replica or of several; *)
(* a handler keeps nothing between requests) against MongoDB.  A step is   *)
(* one database operation.  An access token is a signed JWT, valid until   *)
(* it expires wherever it is shown; a refresh token is valid while the     *)
(* refresh_tokens collection holds it and it has not expired.              *)
(*                                                                         *)
(* StoreLongAccess, ExchangeAnyGiven, KeepExchanged, DeleteOldest and      *)
(* DeleteUser are faulty forms of the definition after them, no part of    *)
(* the specification.                                                      *)
(***************************************************************************)
EXTENDS Integers, FiniteSets

CONSTANTS Handlers,    \* concurrent requests
          Users,       \* e-mail addresses
          AccessTTL,   \* 15 minutes
          RefreshTTL,  \* 7 days
          Failures,    \* whether a request can end between two operations
          MaxSessions, \* bound: sessions begun
          MaxTokens,   \* bound: refresh tokens made, or about to be
          MaxTime,     \* bound: the clock
          NoToken

ASSUME SessionAssumption ==
  /\ AccessTTL \in Nat /\ RefreshTTL \in Nat
  /\ Failures \in BOOLEAN
  /\ MaxSessions \in Nat /\ MaxTokens \in Nat /\ MaxTime \in Nat

VARIABLES users,      \* the users collection: registered e-mail addresses
          tokens,     \* the refresh_tokens collection
          req,        \* what each handler is doing
          clock,
          sessions,   \* how many session ids were drawn
          given,      \* refresh tokens that clients were given
          access,     \* access tokens that clients were given
          loggedOut,  \* ghost: which session was logged out, and when
          raced,      \* ghost: sessions that were being refreshed at a logout
          overlapped, \* ghost: sessions of which two refreshes overlapped
          cut         \* ghost: sessions of which a request ended halfway

ghosts == <<loggedOut, raced, overlapped, cut>>
vars == <<users, tokens, req, clock, sessions, given, access, ghosts>>

\* n stands for the random token; from is the token it was exchanged for, 0 if
\* it came with a login (a ghost: the collection does not know).
Token == [n : Nat, user : Users, session : Nat, expires : Nat, from : Nat]

AccessToken == [user : Users, session : Nat, expires : Nat]

Steps == {"idle", "issue", "refresh.delete", "refresh.insert"}

\* since is the time of the operation after which the handler makes its tokens.
Request == [at : Steps, user : Users \cup {NoToken}, session : Nat,
            token : Token \cup {NoToken}, since : Nat]

Idle == [at |-> "idle", user |-> NoToken, session |-> 0, token |-> NoToken, since |-> 0]

Init ==
  /\ users = {} /\ tokens = {} /\ given = {} /\ access = {}
  /\ req = [w \in Handlers |-> Idle]
  /\ clock = 0 /\ sessions = 0
  /\ loggedOut = {} /\ raced = {} /\ overlapped = {} /\ cut = {}

At(w, step) == req[w].at = step
Finish(w) == req' = [req EXCEPT ![w] = Idle]
Busy == {w \in Handlers : ~At(w, "idle")}
CanMakeToken == Cardinality(given) + Cardinality(Busy) < MaxTokens

Refreshing(s) == {w \in Handlers : /\ req[w].at \in {"refresh.delete", "refresh.insert"}
                                   /\ req[w].token.session = s}

\* jwt.GenerateSessionID, then the two tokens: the handler is about to store one.
BeginSession(w, u) ==
  /\ sessions < MaxSessions /\ CanMakeToken
  /\ sessions' = sessions + 1
  /\ req' = [req EXCEPT ![w] = [Idle EXCEPT !.at = "issue", !.user = u,
                                            !.session = sessions + 1, !.since = clock]]

StoreLongAccess(w, user, session, from, made) ==
  LET t == [n |-> Cardinality(given) + 1, user |-> user, session |-> session,
            expires |-> made + RefreshTTL, from |-> from]
  IN  /\ tokens' = tokens \cup {t}
      /\ given' = given \cup {t}
      /\ access' = access \cup {[user |-> user, session |-> session,
                                 expires |-> made + RefreshTTL]}
      /\ Finish(w)

\* RefreshTokenRepository::Create, and the response with both tokens, which were
\* made at some time made after the handler's last operation.
Store(w, user, session, from, made) ==
  LET t == [n |-> Cardinality(given) + 1, user |-> user, session |-> session,
            expires |-> made + RefreshTTL, from |-> from]
  IN  /\ tokens' = tokens \cup {t}
      /\ given' = given \cup {t}
      /\ access' = access \cup {[user |-> user, session |-> session,
                                 expires |-> made + AccessTTL]}
      /\ Finish(w)

------------------------------------------------------------------------------
\* The unique index on email refuses a second registration.
Register(w, u) ==
  /\ At(w, "idle")
  /\ u \notin users
  /\ users' = users \cup {u}
  /\ BeginSession(w, u)
  /\ UNCHANGED <<tokens, clock, given, access, ghosts>>

Login(w, u) ==
  /\ At(w, "idle")
  /\ u \in users
  /\ BeginSession(w, u)
  /\ UNCHANGED <<users, tokens, clock, given, access, ghosts>>

IssueTokens(w) ==
  /\ At(w, "issue")
  /\ \E made \in req[w].since .. clock : Store(w, req[w].user, req[w].session, 0, made)
  /\ UNCHANGED <<users, clock, sessions, ghosts>>

\* RefreshTokenRepository::Find: the token is stored and has not expired.
ExchangeAnyGiven(t) == t \in given /\ clock <= t.expires
Exchangeable(t) == t \in tokens /\ clock <= t.expires

RefreshFind(w, t) ==
  /\ At(w, "idle") /\ CanMakeToken
  /\ Exchangeable(t)
  /\ req' = [req EXCEPT ![w] = [Idle EXCEPT !.at = "refresh.delete", !.token = t]]
  /\ overlapped' = IF Refreshing(t.session) = {} THEN overlapped
                   ELSE overlapped \cup {t.session}
  /\ UNCHANGED <<users, tokens, clock, sessions, given, access, loggedOut, raced, cut>>

\* DeleteOne by hash: it may find nothing, and the count is not looked at.  Then
\* the user is read, which is always there, and the new tokens are made.
KeepExchanged(w) == tokens' = tokens
DropExchanged(w) == tokens' = tokens \ {req[w].token}

RefreshDelete(w) ==
  /\ At(w, "refresh.delete")
  /\ DropExchanged(w)
  /\ req' = [req EXCEPT ![w].at = "refresh.insert", ![w].since = clock]
  /\ UNCHANGED <<users, clock, sessions, given, access, ghosts>>

RefreshInsert(w) ==
  LET old == req[w].token
  IN  /\ At(w, "refresh.insert")
      /\ \E made \in req[w].since .. clock : Store(w, old.user, old.session, old.n, made)
      /\ UNCHANGED <<users, clock, sessions, ghosts>>

\* DeleteMany by session, the session of the access token the auth adapter
\* validated and put in the session-id header.
DeleteOldest(s) ==
  tokens' = {t \in tokens : t.session # s \/ \E x \in tokens : x.session = s /\ x.n < t.n}
DeleteUser(s) ==
  tokens' = {t \in tokens : \A x \in tokens : x.session = s => x.user # t.user}
DeleteSession(s) == tokens' = {t \in tokens : t.session # s}

Logout(w, a) ==
  /\ At(w, "idle")
  /\ clock < a.expires
  /\ DeleteSession(a.session)
  /\ loggedOut' = loggedOut \cup {[session |-> a.session, at |-> clock]}
  /\ raced' = IF Refreshing(a.session) # {} THEN raced \cup {a.session} ELSE raced
  /\ UNCHANGED <<users, req, clock, sessions, given, access, overlapped, cut>>

------------------------------------------------------------------------------
\* The TTL index on expires_at: MongoDB removes what expired, in its own time.
Expire(t) ==
  /\ clock >= t.expires
  /\ tokens' = tokens \ {t}
  /\ UNCHANGED <<users, req, clock, sessions, given, access, ghosts>>

\* The client goes away, MongoDB refuses, or the pod is stopped.
RequestFails(w) ==
  /\ Failures
  /\ ~At(w, "idle")
  /\ cut' = cut \cup {IF At(w, "issue") THEN req[w].session ELSE req[w].token.session}
  /\ Finish(w)
  /\ UNCHANGED <<users, tokens, clock, sessions, given, access, loggedOut, raced, overlapped>>

Tick == /\ clock < MaxTime
        /\ clock' = clock + 1
        /\ UNCHANGED <<users, tokens, req, sessions, given, access, ghosts>>

\* ValidateSession, GetProfile and every refusal.
ReadOnly(w) == At(w, "idle") /\ UNCHANGED vars

Next ==
  \/ Tick
  \/ \E t \in tokens : Expire(t)
  \/ \E w \in Handlers :
       \/ \E u \in Users : Register(w, u) \/ Login(w, u)
       \/ IssueTokens(w)
       \/ \E t \in given : RefreshFind(w, t)
       \/ RefreshDelete(w) \/ RefreshInsert(w)
       \/ \E a \in access : Logout(w, a)
       \/ RequestFails(w) \/ ReadOnly(w)

Spec == Init /\ [][Next]_vars

------------------------------------------------------------------------------
\* Every variable has its type; what is stored was given to a client.
TypeOK ==
  /\ users \subseteq Users
  /\ tokens \subseteq given
  /\ given \subseteq Token
  /\ access \subseteq AccessToken
  /\ req \in [Handlers -> Request]
  /\ clock \in Nat /\ sessions \in Nat
  /\ loggedOut \subseteq [session : Nat, at : Nat]
  /\ raced \subseteq Nat /\ overlapped \subseteq Nat /\ cut \subseteq Nat

Exchanging(t) == {w \in Handlers : /\ req[w].at \in {"refresh.delete", "refresh.insert"}
                                   /\ req[w].token = t}
Children(t) == {c \in given : c.from = t.n}
Spent(t) == t \notin tokens /\ Exchanging(t) = {}

\* Once a refresh token is gone and no exchange of it is under way, it is never
\* exchanged again, whoever replays it: it stays gone and has no new successor.
ReplayIsRefused ==
  [][\A t \in given : Spent(t) => Spent(t)' /\ Children(t)' = Children(t)]_vars

\* A logout that no refresh of the session overlaps is final: from then on the
\* session has no refresh token, and never gets one.
LogoutEndsRefreshing ==
  \A l \in loggedOut, t \in tokens : l.session \notin raced => t.session # l.session

\* Such a logout bounds the session's access tokens too: each expires within
\* AccessTTL of the logout, although nobody revokes it.
LogoutBoundsAccess ==
  \A l \in loggedOut, a \in access :
    l.session \notin raced /\ a.session = l.session => a.expires <= l.at + AccessTTL

\* A session that is not logged out, and of which no request ended halfway, stays
\* able to refresh: it has a stored token, or one about to be stored, until a
\* token of it expires; however many refreshes of it overlap.
SessionSurvives ==
  \A t \in given :
    \/ t.session \in cut
    \/ \E l \in loggedOut : l.session = t.session
    \/ \E c \in given : c.session = t.session /\ clock >= c.expires
    \/ \E c \in tokens : c.session = t.session
    \/ Refreshing(t.session) # {}

\* A session of which no two refreshes overlapped has at most one stored token,
\* also when its requests end halfway.
OneTokenPerSession ==
  \A s, t \in tokens : s.session = t.session /\ s.session \notin overlapped => s = t
==============================================================================
