------------------------------ MODULE UserServer ------------------------------
(***************************************************************************)
(* One replica of the user service as a process (cmd/server/main.go): it   *)
(* connects to MongoDB, builds the indexes, tries RabbitMQ once, serves,   *)
(* and at a signal drains, closes the publisher and disconnects.  While it *)
(* serves, requests change the database and then publish an event.  What   *)
(* is stored and what was published outlive the process.  UserSession      *)
(* models what tokens are good for; here they are stored, exchanged for    *)
(* others, deleted and expired, by requests that any step may cut off.     *)
(*                                                                         *)
(* PublishEarly, CloseFirst, WaitForNone and NeverGiveUp are faulty forms  *)
(* of the definition after them, no part of the specification.             *)
(***************************************************************************)
EXTENDS Integers, FiniteSets

CONSTANTS Handlers,    \* requests under way
          Emails,
          MaxRequests, \* bound: requests that change something
          MaxLives,    \* bound: starts of the process
          Expiring     \* bound: numbers of the tokens whose time runs out meanwhile

ASSUME ServerAssumption == MaxRequests \in Nat /\ MaxLives \in Nat

VARIABLES users,     \* the users collection: an id and an e-mail address each
          tokens,    \* the refresh_tokens collection: a number and a session each
          index,     \* whether the unique index on email exists
          events,    \* what the broker was handed
          stage,     \* how far main is
          listening, \* whether the listener accepts
          mongo,     \* whether the client is connected
          publisher, \* the connection to RabbitMQ
          req,       \* what each handler is doing
          life,      \* ghost: starts of the process
          requests,  \* ghost: requests begun; its number names what a request makes
          ok,        \* ghost: what clients were told is done, and whether its life
                     \*        was one with an outage, or late, by then
          ended,     \* ghost: sessions that a logout deleted
          raced,     \* ghost: those of them with a refresh past its look at its token
          lapsed,    \* ghost: sessions a token of which expired, or whose refresh ended
                     \*        after its delete and before its insert
          outage,    \* ghost: whether this life had no RabbitMQ, or lost it
          late,      \* ghost: whether the drain of this life ran out of time
          cut        \* ghost: whether the shutdown of this life cut off a request

stored == <<users, tokens, index>>
process == <<stage, listening, mongo, publisher>>
sessions == <<ended, raced, lapsed>>
ghosts == <<life, requests, ok, sessions, outage, late, cut>>
vars == <<stored, events, process, req, ghosts>>

Idle == [at |-> "idle", kind |-> "profile", id |-> 0, subject |-> 0, from |-> 0, email |-> ""]

Init ==
  /\ users = {} /\ tokens = {} /\ index = FALSE /\ events = {}
  /\ stage = "off" /\ listening = FALSE /\ mongo = FALSE /\ publisher = "none"
  /\ req = [h \in Handlers |-> Idle]
  /\ life = 0 /\ requests = 0
  /\ ok = {} /\ ended = {} /\ raced = {} /\ lapsed = {}
  /\ outage = FALSE /\ late = FALSE /\ cut = FALSE

At(h, step) == req[h].at = step
Busy == {h \in Handlers : ~At(h, "idle")}

------------------------------------------------------------------------------
\* mongo.Connect and Ping: a process that fails at them exits, and has done nothing.
ConnectMongo ==
  /\ stage = "off" /\ life < MaxLives
  /\ life' = life + 1
  /\ mongo' = TRUE /\ stage' = "indexes"
  /\ outage' = FALSE /\ late' = FALSE /\ cut' = FALSE
  /\ UNCHANGED <<stored, events, listening, publisher, req, requests, ok, sessions>>

\* MongoDB builds a unique index over unique values only.
Unique == \A u, v \in users : u.email = v.email => u = v
IndexAfter == IF Unique THEN {TRUE, index} ELSE {index}

\* A failure to build it is printed, and the process goes on.
EnsureIndexes ==
  /\ stage = "indexes"
  /\ index' \in IndexAfter
  /\ stage' = "rabbit"
  /\ UNCHANGED <<users, tokens, events, listening, mongo, publisher, req, ghosts>>

\* NewPublisher has one try: without it the service runs, and publishes nothing.
NewPublisher ==
  /\ stage = "rabbit"
  /\ \/ publisher' = "open" /\ UNCHANGED outage
     \/ publisher' = "none" /\ outage' = TRUE
  /\ stage' = "serving"
  /\ UNCHANGED <<stored, events, listening, mongo, req, life, requests, ok, sessions, late, cut>>

\* ListenAndServe; main waits for its signal whether or not this ever succeeds.
Listen ==
  /\ stage = "serving"
  /\ listening' = TRUE
  /\ UNCHANGED <<stored, events, stage, mongo, publisher, req, ghosts>>

\* The connection to RabbitMQ is lost, and nobody makes another.
ConnectionCloses ==
  /\ publisher = "open"
  /\ publisher' = "dead"
  /\ outage' = TRUE
  /\ UNCHANGED <<stored, events, stage, listening, mongo, req, life, requests, ok, sessions,
                 late, cut>>

------------------------------------------------------------------------------
\* A request over HTTP/1.1, as the gateway sends it.  What it makes bears its number;
\* which of the idle handlers it gets makes no difference.
Accept(h, at, kind, subject, from, email) ==
  /\ listening /\ At(h, "idle") /\ requests < MaxRequests
  /\ h = CHOOSE k \in Handlers : At(k, "idle")
  /\ requests' = requests + 1
  /\ req' = [req EXCEPT ![h] = [at |-> at, kind |-> kind, id |-> requests + 1,
                                subject |-> subject, from |-> from, email |-> email]]
  /\ UNCHANGED <<stored, events, process, life, ok, sessions, outage, late, cut>>

Register(h, email) == Accept(h, "user", "register", requests + 1, 0, email)

\* FindByEmail and the password: nothing changes before the tokens.
Login(h, user) == Accept(h, "token", "login", requests + 1, 0, user.email)

\* The session that the auth adapter read from an access token it was shown.
Logout(h, done) ==
  /\ done.kind # "logout"
  /\ Accept(h, "delete", "logout", done.subject, 0, "")

\* A client sends a refresh token that an answer gave it, used or not.
RefreshToken(h, done) ==
  /\ done.kind # "logout"
  /\ Accept(h, "find", "refresh", done.subject, done.id, "")

GetProfile(h) == Accept(h, "read", "profile", 0, 0, "")

PublishEarly(r) == CASE r.at = "user" -> "publish"
                     [] r.at = "publish" /\ r.kind = "register" -> "token"
                     [] r.at = "delete" -> "publish"
                     [] r.at = "find" -> "exchange" [] r.at = "exchange" -> "token"
                     [] OTHER -> "answer"

\* What follows a step of a request; a refresh publishes nothing.
After(r) == CASE r.at = "find" -> "exchange"
              [] r.at \in {"user", "exchange"} -> "token"
              [] r.at = "delete" \/ (r.at = "token" /\ r.kind # "refresh") -> "publish"
              [] OTHER -> "answer"

Step(h, at) == At(h, at) /\ req' = [req EXCEPT ![h].at = After(req[h])]

\* UserRepository.Create: the index, if there is one, refuses an address that is there.
CreateUser(h) ==
  /\ mongo
  /\ index => \A u \in users : u.email # req[h].email
  /\ Step(h, "user")
  /\ users' = users \cup {[id |-> req[h].subject, email |-> req[h].email]}
  /\ UNCHANGED <<tokens, index, events, process, ghosts>>

Presented(h) == [n |-> req[h].from, session |-> req[h].subject]

\* Find: the token is stored, and says which session it is of.
FindToken(h) ==
  /\ mongo /\ Presented(h) \in tokens
  /\ Step(h, "find")
  /\ UNCHANGED <<stored, events, process, ghosts>>

\* Delete: whether another refresh took it meanwhile is not looked at.
ExchangeToken(h) ==
  /\ mongo
  /\ Step(h, "exchange")
  /\ tokens' = tokens \ {Presented(h)}
  /\ UNCHANGED <<users, index, events, process, ghosts>>

\* FindByID, for a refresh, and the insert.
StoreToken(h) ==
  /\ mongo
  /\ Step(h, "token")
  /\ tokens' = tokens \cup {[n |-> req[h].id, session |-> req[h].subject]}
  /\ UNCHANGED <<users, index, events, process, ghosts>>

TokensOf(session) == {t \in tokens : t.session = session}

\* Refreshes that will store a token of this session, wherever its others have gone.
Refreshing(session) ==
  {h \in Handlers : /\ req[h].kind = "refresh" /\ req[h].subject = session
                    /\ req[h].at \in {"exchange", "token"}}

DeleteSession(h) ==
  /\ mongo
  /\ Step(h, "delete")
  /\ tokens' = tokens \ TokensOf(req[h].subject)
  /\ ended' = ended \cup {req[h].subject}
  /\ raced' = IF Refreshing(req[h].subject) = {} THEN raced ELSE raced \cup {req[h].subject}
  /\ UNCHANGED <<users, index, events, process, life, requests, ok, lapsed, outage, late, cut>>

ReadProfile(h) == mongo /\ Step(h, "read") /\ UNCHANGED <<stored, events, process, ghosts>>

\* The TTL index on expires_at removes a token, while the service runs or not.
Expire(t) ==
  /\ t.n \in Expiring
  /\ tokens' = tokens \ {t}
  /\ lapsed' = lapsed \cup {t.session}
  /\ UNCHANGED <<users, index, events, process, req, life, requests, ok, ended, raced, outage,
                 late, cut>>

\* Publish: without an open channel it fails, and the request does not care.
Publish(h) ==
  /\ Step(h, "publish")
  /\ events' = IF publisher = "open"
               THEN events \cup {[kind |-> req[h].kind, subject |-> req[h].subject]} ELSE events
  /\ UNCHANGED <<stored, process, ghosts>>

Answer(h) ==
  /\ At(h, "answer")
  /\ ok' = IF req[h].kind = "profile" THEN ok
           ELSE ok \cup {[kind |-> req[h].kind, id |-> req[h].id, subject |-> req[h].subject,
                          excused |-> outage \/ late]}
  /\ req' = [req EXCEPT ![h] = Idle]
  /\ UNCHANGED <<stored, events, process, life, requests, sessions, outage, late, cut>>

\* The sessions of refreshes that end here between their delete and their insert.
Halfway(H) ==
  {req[h].subject : h \in {k \in H : req[k].kind = "refresh" /\ req[k].at = "token"}}

\* MongoDB refuses, a look-up finds nothing, or the client goes away.
RequestFails(h) ==
  /\ h \in Busy
  /\ req' = [req EXCEPT ![h] = Idle]
  /\ lapsed' = lapsed \cup Halfway({h})
  /\ UNCHANGED <<stored, events, process, life, requests, ok, ended, raced, outage, late, cut>>

\* Handlers at an operation of MongoDB, which may hold a connection of the client.
Using == {h \in Handlers : req[h].at \in {"user", "find", "exchange", "token", "delete", "read"}}

\* The client of a request that is not done was disconnected under it.
ClientIsClosed(h) ==
  /\ ~mongo /\ h \in Using
  /\ req' = [req EXCEPT ![h] = Idle]
  /\ lapsed' = lapsed \cup Halfway({h})
  /\ cut' = TRUE
  /\ UNCHANGED <<stored, events, process, life, requests, ok, ended, raced, outage, late>>

------------------------------------------------------------------------------
\* server.Shutdown closes the listener, and then what main deferred runs, last first.
CloseFirst(s) == CASE s = "serving" -> "close" [] s = "close" -> "draining"
                   [] s = "draining" -> "disconnect" [] s = "disconnect" -> "exit"
StageAfter(s) == CASE s = "serving" -> "draining" [] s = "draining" -> "close"
                   [] s = "close" -> "disconnect" [] s = "disconnect" -> "exit"

Signal ==
  /\ stage = "serving"
  /\ listening' = FALSE
  /\ stage' = StageAfter(stage)
  /\ UNCHANGED <<stored, events, mongo, publisher, req, ghosts>>

\* Shutdown returns when no connection has a request.
WaitForNone == TRUE
Drainable == Busy = {}

Drained ==
  /\ stage = "draining" /\ Drainable
  /\ stage' = StageAfter(stage)
  /\ UNCHANGED <<stored, events, listening, mongo, publisher, req, ghosts>>

NeverGiveUp == FALSE
\* shutdownCtx ends after ten seconds, whatever the handlers and their clients do.
OutOfTime == TRUE

DrainTimesOut ==
  /\ stage = "draining" /\ OutOfTime
  /\ late' = TRUE
  /\ stage' = StageAfter(stage)
  /\ UNCHANGED <<stored, events, listening, mongo, publisher, req, life, requests, ok, sessions,
                 outage, cut>>

ClosePublisher ==
  /\ stage = "close"
  /\ publisher' = IF publisher = "none" THEN "none" ELSE "dead"
  /\ stage' = StageAfter(stage)
  /\ UNCHANGED <<stored, events, listening, mongo, req, ghosts>>

\* Disconnect waits for the connections in use, under a context without a deadline.
Disconnect ==
  /\ stage = "disconnect"
  /\ mongo' = FALSE
  /\ stage' = StageAfter(stage)
  /\ UNCHANGED <<stored, events, listening, publisher, req, ghosts>>

Halt ==
  /\ stage' = "off" /\ listening' = FALSE /\ mongo' = FALSE /\ publisher' = "none"
  /\ req' = [h \in Handlers |-> Idle]
  /\ lapsed' = lapsed \cup Halfway(Handlers)

\* main returns, and with it every handler that is left.
Exit ==
  /\ stage = "exit"
  /\ Halt
  /\ cut' = (cut \/ Busy # {})
  /\ UNCHANGED <<stored, events, life, requests, ok, ended, raced, outage, late>>

\* The pod is killed.
Crash ==
  /\ stage # "off"
  /\ Halt
  /\ UNCHANGED <<stored, events, life, requests, ok, ended, raced, outage, late, cut>>

Next ==
  \/ ConnectMongo \/ EnsureIndexes \/ NewPublisher \/ Listen \/ ConnectionCloses
  \/ Signal \/ Crash
  \/ Drained \/ DrainTimesOut \/ ClosePublisher \/ Disconnect \/ Exit
  \/ \E t \in tokens : Expire(t)
  \/ \E h \in Handlers :
       \/ \E email \in Emails : Register(h, email)
       \/ \E user \in users : Login(h, user)
       \/ \E done \in ok : Logout(h, done) \/ RefreshToken(h, done)
       \/ GetProfile(h)
       \/ CreateUser(h) \/ FindToken(h) \/ ExchangeToken(h) \/ StoreToken(h) \/ DeleteSession(h)
       \/ ReadProfile(h) \/ Publish(h) \/ Answer(h) \/ RequestFails(h) \/ ClientIsClosed(h)

\* main's own steps happen, the disconnect when no handler may hold a connection; no
\* handler has to end, no client has to read its answer.
Stopping == \/ Drained \/ DrainTimesOut \/ ClosePublisher \/ Exit
            \/ Disconnect /\ Using = {}

Spec == Init /\ [][Next]_vars /\ WF_vars(Stopping)

------------------------------------------------------------------------------
\* Nothing runs ahead of the database.  What an event or an answer says is stored, and
\* stays so through crashes, restarts and overlapping requests: the user of a
\* registration; a token of the session of a registration, a login or a refresh, until a
\* logout ends it, a token of it expires, or a refresh of it ends after its delete or is
\* about to insert; and of a session that a logout ended no token, unless a refresh had
\* looked before the delete: that one stores the session again (user.go:136-174).
NothingAheadOfDatabase ==
  \A x \in events \cup {[kind |-> d.kind, subject |-> d.subject] : d \in ok} :
    /\ x.kind = "register" => \E u \in users : u.id = x.subject
    /\ IF x.kind = "logout" THEN TokensOf(x.subject) = {} \/ x.subject \in raced
       ELSE TokensOf(x.subject) # {} \/ x.subject \in ended \cup lapsed \cup Halfway(Handlers)

\* "Connect to RabbitMQ (optional - continue if fails)" (main.go:81): an event of what
\* a client was told is missing only if by then its life had no RabbitMQ, had lost it, or
\* was not drained in time; closing down never loses one.  A refresh has none.
EventsLostOnlyInOutage ==
  \A d \in ok : d.kind # "refresh" =>
    \/ [kind |-> d.kind, subject |-> d.subject] \in events
    \/ d.excused

\* "Graceful shutdown" (main.go:164): a stop that drains in time cuts off no request,
\* neither by a client it closed nor by the exit.
ShutdownCutsNone == cut => late

\* A process told to stop does, within the time of its drain, although a handler hangs
\* over a broker or a client that does not read: it takes a handler that hangs at MongoDB
\* to keep it, since the disconnect that main deferred (main.go:58) waits for that one.
Stops ==
  (\A h \in Handlers : []<>(h \notin Using)) => (stage = "draining" ~> stage = "off")
==============================================================================
