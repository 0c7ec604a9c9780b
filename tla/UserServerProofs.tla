--------------------------- MODULE UserServerProofs ---------------------------
(***************************************************************************)
(* Theorems about the user service as a process, for every set of requests *)
(* and addresses and any number of lives: what is published and answered   *)
(* is stored, events are lost to the broker alone, and a stop that drains  *)
(* in time cuts nothing off.                                               *)
(***************************************************************************)
EXTENDS UserServer, TLAPS

------------------------------------------------------------------------------
(***************************************************************************)
(* The type invariant.                                                     *)
(***************************************************************************)
Stages == {"off", "indexes", "rabbit", "serving", "draining", "close", "disconnect", "exit"}
Marks == {"idle", "user", "find", "exchange", "token", "delete", "read", "publish", "answer"}
Kinds == {"register", "login", "logout", "refresh", "profile"}

Token == [n : Nat, session : Nat]
Request == [at : Marks, kind : Kinds, id : Nat, subject : Nat, from : Nat,
            email : Emails \cup {""}]
Done == [kind : Kinds, id : Nat, subject : Nat, excused : BOOLEAN]

Types ==
  /\ users \subseteq [id : Nat, email : Emails \cup {""}]
  /\ tokens \subseteq Token
  /\ ended \subseteq Nat /\ raced \subseteq Nat /\ lapsed \subseteq Nat
  /\ events \subseteq [kind : Kinds, subject : Nat]
  /\ ok \subseteq Done
  /\ req \in [Handlers -> Request]
  /\ stage \in Stages
  /\ mongo \in BOOLEAN /\ listening \in BOOLEAN
  /\ publisher \in {"none", "open", "dead"}
  /\ life \in Nat /\ requests \in Nat
  /\ outage \in BOOLEAN /\ late \in BOOLEAN /\ cut \in BOOLEAN

\* A request of each kind stands at one of the steps of its handler.
Standing(r) ==
  /\ r.at = "idle" => r.kind = "profile"
  /\ r.at = "user" => r.kind = "register"
  /\ r.at \in {"find", "exchange"} => r.kind = "refresh"
  /\ r.at = "token" => r.kind \in {"register", "login", "refresh"}
  /\ r.at = "delete" => r.kind = "logout"
  /\ r.at = "read" => r.kind = "profile"
  /\ r.at = "publish" => r.kind \notin {"profile", "refresh"}

TypeInv == Types /\ \A h \in Handlers : Standing(req[h])

\* Main stops in its order.
LEMMA StagesAfter == /\ StageAfter("serving") = "draining" /\ StageAfter("draining") = "close"
                     /\ StageAfter("close") = "disconnect" /\ StageAfter("disconnect") = "exit"
BY DEF StageAfter

LEMMA IdleIsRequest == Idle \in Request /\ Standing(Idle)
BY DEF Idle, Request, Marks, Kinds, Standing

\* A handler that leaves its request, and all others, are as typed as before.
LEMMA Replaced ==
  ASSUME TypeInv, NEW h \in Handlers, NEW r \in Request, Standing(r),
         req' = [req EXCEPT ![h] = r]
  PROVE  req' \in [Handlers -> Request] /\ \A k \in Handlers : Standing(req'[k])
<1>1. req \in [Handlers -> Request] /\ \A k \in Handlers : Standing(req[k])
  BY DEF TypeInv, Types
<1>2. req' \in [Handlers -> Request]
  BY <1>1
<1>3. req'[h] = r /\ \A k \in Handlers \ {h} : req'[k] = req[k]
  BY <1>1
<1> QED
  BY <1>1, <1>2, <1>3

\* What happens when request r begins at handler h.
Begins(h, r) ==
  /\ listening /\ At(h, "idle")
  /\ requests' = requests + 1
  /\ req' = [req EXCEPT ![h] = r]
  /\ UNCHANGED <<stored, events, process, life, ok, sessions, outage, late, cut>>
  /\ \/ /\ r.at \in {"user", "token"} /\ r.kind \in {"register", "login"}
        /\ r.kind = "register" => r.at = "user"
        /\ r.subject = requests + 1
     \/ /\ \/ r.at = "delete" /\ r.kind = "logout"
           \/ r.at = "find" /\ r.kind = "refresh"
        /\ \E done \in ok : done.kind # "logout" /\ r.subject = done.subject
     \/ r.at = "read" /\ r.kind = "profile"

LEMMA Beginning ==
  ASSUME TypeInv, NEW h \in Handlers,
         \/ \E email \in Emails : Register(h, email)
         \/ \E user \in users : Login(h, user)
         \/ \E done \in ok : Logout(h, done) \/ RefreshToken(h, done)
         \/ GetProfile(h)
  PROVE  \E r \in Request : Standing(r) /\ Begins(h, r)
<1>1. \A user \in users : user.email \in Emails \cup {""}
  BY DEF TypeInv, Types
<1>2. PICK n \in Nat : n = requests + 1
  <2>1. requests \in Nat
    BY DEF TypeInv, Types
  <2>2. requests + 1 \in Nat
    BY <2>1
  <2> QED
    BY <2>2
<1>3. ASSUME NEW email \in Emails, Register(h, email)
      PROVE  \E r \in Request : Standing(r) /\ Begins(h, r)
  <2> DEFINE r == [at |-> "user", kind |-> "register", id |-> n, subject |-> n, from |-> 0,
                  email |-> email]
  <2>1. r \in Request /\ Standing(r)
    BY DEF Request, Standing, Marks, Kinds
  <2>2. Begins(h, r)
    BY <1>2, <1>3 DEF Begins, Register, Accept
  <2> QED
    BY <2>1, <2>2
<1>4. ASSUME NEW user \in users, Login(h, user)
      PROVE  \E r \in Request : Standing(r) /\ Begins(h, r)
  <2> DEFINE r == [at |-> "token", kind |-> "login", id |-> n, subject |-> n, from |-> 0,
                  email |-> user.email]
  <2>1. r \in Request /\ Standing(r)
    BY <1>1 DEF Request, Standing, Marks, Kinds
  <2>2. Begins(h, r)
    BY <1>2, <1>4 DEF Begins, Login, Accept
  <2> QED
    BY <2>1, <2>2
<1>5. ASSUME NEW done \in ok, Logout(h, done) \/ RefreshToken(h, done)
      PROVE  \E r \in Request : Standing(r) /\ Begins(h, r)
  <2>1. done \in Done
    BY DEF TypeInv, Types
  <2>2. CASE Logout(h, done)
    <3> DEFINE r == [at |-> "delete", kind |-> "logout", id |-> n, subject |-> done.subject,
                    from |-> 0, email |-> ""]
    <3>1. r \in Request /\ Standing(r)
      BY <2>1 DEF Done, Request, Standing, Marks, Kinds
    <3>2. Begins(h, r)
      BY <1>2, <2>2 DEF Begins, Logout, Accept
    <3> QED
      BY <3>1, <3>2
  <2>3. CASE RefreshToken(h, done)
    <3> DEFINE r == [at |-> "find", kind |-> "refresh", id |-> n, subject |-> done.subject,
                    from |-> done.id, email |-> ""]
    <3>1. r \in Request /\ Standing(r)
      BY <2>1 DEF Done, Request, Standing, Marks, Kinds
    <3>2. Begins(h, r)
      BY <1>2, <2>3 DEF Begins, RefreshToken, Accept
    <3> QED
      BY <3>1, <3>2
  <2> QED
    BY <1>5, <2>2, <2>3
<1>6. ASSUME GetProfile(h)
      PROVE  \E r \in Request : Standing(r) /\ Begins(h, r)
  <2> DEFINE r == [at |-> "read", kind |-> "profile", id |-> n, subject |-> 0, from |-> 0,
                  email |-> ""]
  <2>1. r \in Request /\ Standing(r)
    BY DEF Request, Standing, Marks, Kinds
  <2>2. Begins(h, r)
    BY <1>2, <1>6 DEF Begins, GetProfile, Accept
  <2> QED
    BY <2>1, <2>2
<1> QED
  BY <1>3, <1>4, <1>5, <1>6

\* A step of a request between its begin and its answer.
Operates(h) == \/ CreateUser(h) \/ FindToken(h) \/ ExchangeToken(h) \/ StoreToken(h)
               \/ DeleteSession(h) \/ ReadProfile(h) \/ Publish(h)

\* What happens when handler h goes on to request r.
Continues(h, r) ==
  /\ req[h].at \notin {"idle", "answer"}
  /\ req' = [req EXCEPT ![h] = r]
  /\ r.kind = req[h].kind /\ r.subject = req[h].subject
  /\ r.at = After(req[h])

LEMMA Onward ==
  ASSUME TypeInv, NEW h \in Handlers, Operates(h)
  PROVE  \E r \in Request : Standing(r) /\ Continues(h, r)
<1> DEFINE r == [req[h] EXCEPT !.at = After(req[h])]
<1>1. req[h] \in Request /\ Standing(req[h])
  BY DEF TypeInv, Types
<1>2. req' = [req EXCEPT ![h] = r] /\ req[h].at \notin {"idle", "answer"}
  BY DEF Operates, CreateUser, FindToken, ExchangeToken, StoreToken, DeleteSession, ReadProfile,
              Publish, Step, At
<1>3. After(req[h]) \in {"exchange", "token", "publish", "answer"}
  BY DEF After
<1>4. r \in Request /\ r.kind = req[h].kind /\ r.subject = req[h].subject /\ r.at = After(req[h])
  BY <1>1, <1>3 DEF Request, Marks
<1>5. Standing(r)
  BY <1>1, <1>2, <1>4 DEF Standing, After, Request, Marks
<1> QED
  BY <1>2, <1>4, <1>5 DEF Continues

LEMMA InitTypes ==
  ASSUME Init
  PROVE  TypeInv
<1>1. Idle \in Request /\ Standing(Idle)
  BY IdleIsRequest
<1>2. req = [h \in Handlers |-> Idle]
  BY DEF Init
<1>3. req \in [Handlers -> Request] /\ \A h \in Handlers : Standing(req[h])
  BY <1>1, <1>2
<1>4. /\ users = {} /\ tokens = {} /\ ended = {} /\ raced = {} /\ lapsed = {}
      /\ events = {} /\ ok = {} /\ outage = FALSE /\ late = FALSE /\ cut = FALSE
      /\ stage = "off" /\ mongo = FALSE /\ listening = FALSE /\ publisher = "none"
      /\ life = 0 /\ requests = 0
  BY DEF Init
<1> QED
  BY <1>3, <1>4 DEF TypeInv, Types, Stages

LEMMA HalfwayTyped ==
  ASSUME TypeInv, NEW H \in SUBSET Handlers
  PROVE  Halfway(H) \subseteq Nat
BY DEF Halfway, TypeInv, Types, Request

\* No step of main or of a handler leaves the types.
LEMMA StepTypes ==
  ASSUME TypeInv, [Next]_vars
  PROVE  TypeInv'
<1> USE DEF TypeInv
<1>1. CASE UNCHANGED vars
  BY <1>1 DEF vars, stored, process, ghosts, sessions, Types, Standing
<1>2. CASE ConnectMongo \/ EnsureIndexes \/ NewPublisher \/ Listen \/ ConnectionCloses
  <2>1. life \in Nat
    BY DEF Types
  <2>2. life' \in Nat
    BY <1>2, <2>1 DEF ConnectMongo, EnsureIndexes, NewPublisher, Listen, ConnectionCloses, ghosts
  <2> QED
    BY <1>2, <2>2 DEF ConnectMongo, EnsureIndexes, NewPublisher, Listen, ConnectionCloses,
                      stored, process, ghosts, sessions, Types, Standing, Stages
<1>3. CASE Signal \/ Drained \/ DrainTimesOut \/ ClosePublisher \/ Disconnect
  <2>1. stage' \in Stages
    BY <1>3, StagesAfter DEF Signal, Drained, DrainTimesOut, ClosePublisher, Disconnect, Stages
  <2> QED
    BY <1>3, <2>1 DEF Signal, Drained, DrainTimesOut, ClosePublisher, Disconnect,
                      stored, process, ghosts, sessions, Types, Standing
<1>4. CASE Exit \/ Crash
  <2>1. req' = [h \in Handlers |-> Idle]
    BY <1>4 DEF Exit, Crash, Halt
  <2>2. req' \in [Handlers -> Request] /\ \A h \in Handlers : Standing(req'[h])
    BY <2>1, IdleIsRequest
  <2>3. lapsed' \subseteq Nat /\ cut' \in BOOLEAN
    BY <1>4, HalfwayTyped DEF Exit, Crash, Halt, Types
  <2> QED
    BY <1>4, <2>2, <2>3 DEF Exit, Crash, Halt, stored, Types, Standing, Stages
<1>5. ASSUME NEW h \in Handlers, NEW r \in Request, Standing(r), Begins(h, r)
      PROVE  TypeInv'
  <2>1. req' \in [Handlers -> Request] /\ \A k \in Handlers : Standing(req'[k])
    BY <1>5, Replaced DEF Begins
  <2>2. requests \in Nat
    BY DEF Types
  <2>3. requests' \in Nat
    BY <1>5, <2>2 DEF Begins
  <2>4. UNCHANGED <<stored, events, process, life, ok, sessions, outage, late, cut>>
    BY <1>5 DEF Begins
  <2> QED
    BY <2>1, <2>3, <2>4 DEF stored, process, sessions, Types, Standing
<1>6. ASSUME NEW h \in Handlers, Operates(h)
      PROVE  TypeInv'
  <2>1. PICK r \in Request : Standing(r) /\ Continues(h, r)
    BY <1>6, Onward
  <2>2. req' \in [Handlers -> Request] /\ \A k \in Handlers : Standing(req'[k])
    BY <2>1, Replaced DEF Continues
  <2>3. req[h] \in Request
    BY DEF Types
  <2>4. /\ [id |-> req[h].subject, email |-> req[h].email] \in [id : Nat, email : Emails \cup {""}]
        /\ [kind |-> req[h].kind, subject |-> req[h].subject] \in [kind : Kinds, subject : Nat]
        /\ [n |-> req[h].id, session |-> req[h].subject] \in Token
        /\ req[h].subject \in Nat
    BY <2>3 DEF Request, Token
  <2>5. UNCHANGED <<process, requests, life, ok, lapsed, outage, late, cut>>
    BY <1>6 DEF Operates, CreateUser, FindToken, ExchangeToken, StoreToken, DeleteSession,
                ReadProfile, Publish, ghosts, sessions
  <2>6. /\ users' \subseteq users \cup {[id |-> req[h].subject, email |-> req[h].email]}
        /\ events' \subseteq events \cup {[kind |-> req[h].kind, subject |-> req[h].subject]}
        /\ tokens' \subseteq tokens \cup {[n |-> req[h].id, session |-> req[h].subject]}
        /\ ended' \subseteq ended \cup {req[h].subject}
        /\ raced' \subseteq raced \cup {req[h].subject}
    BY <1>6 DEF Operates, CreateUser, FindToken, ExchangeToken, StoreToken, DeleteSession,
                ReadProfile, Publish, stored, ghosts, sessions
  <2> QED
    BY <2>2, <2>4, <2>5, <2>6 DEF process, Types
<1>7. ASSUME NEW h \in Handlers, Answer(h) \/ RequestFails(h) \/ ClientIsClosed(h)
       PROVE  TypeInv'
  <2>1. req' = [req EXCEPT ![h] = Idle]
    BY <1>7 DEF Answer, RequestFails, ClientIsClosed
  <2>2. req' \in [Handlers -> Request] /\ \A k \in Handlers : Standing(req'[k])
    BY <2>1, IdleIsRequest, Replaced
  <2>3. req[h] \in Request
    BY DEF Types
  <2>4. [kind |-> req[h].kind, id |-> req[h].id, subject |-> req[h].subject,
         excused |-> outage \/ late] \in Done
    BY <2>3 DEF Request, Done, Types
  <2>5. lapsed' \subseteq Nat
    BY <1>7, HalfwayTyped DEF Answer, RequestFails, ClientIsClosed, sessions, Types
  <2> QED
    BY <1>7, <2>2, <2>4, <2>5 DEF Answer, RequestFails, ClientIsClosed,
                                  stored, process, sessions, Types
<1>8. ASSUME NEW t \in tokens, Expire(t)
      PROVE  TypeInv'
  <2>1. t.session \in Nat
    BY DEF Types, Token
  <2> QED
    BY <1>8, <2>1 DEF Expire, process, Types, Standing
<1> QED
  BY <1>1, <1>2, <1>3, <1>4, <1>5, <1>6, <1>7, <1>8, Beginning DEF Next, Operates

------------------------------------------------------------------------------
(***************************************************************************)
(* The life of the process.                                                *)
(***************************************************************************)
EventOf(r) == [kind |-> r.kind, subject |-> r.subject]
NoneBusy == \A h \in Handlers : At(h, "idle")

\* Requests run only while it serves, and past the drain only if that ran out of
\* time; the publisher is missing only after an outage or when it was closed.
MainInv ==
  /\ listening => stage = "serving"
  /\ stage \in {"off", "indexes", "rabbit"} => NoneBusy
  /\ mongo \/ stage \in {"off", "exit"}
  /\ stage \in {"close", "disconnect", "exit"} => NoneBusy \/ late
  /\ stage \in {"serving", "draining"} => publisher = "open" \/ outage
  /\ cut => late

LEMMA StepMain ==
  ASSUME TypeInv, MainInv, [Next]_vars
  PROVE  MainInv'
<1>1. req \in [Handlers -> Request] /\ stage \in Stages
  BY DEF TypeInv, Types
<1>2. CASE UNCHANGED vars
  BY <1>2 DEF vars, stored, process, ghosts, MainInv, NoneBusy, At
<1>3. CASE ConnectMongo \/ EnsureIndexes \/ NewPublisher \/ Listen \/ ConnectionCloses
  BY <1>3 DEF ConnectMongo, EnsureIndexes, NewPublisher, Listen, ConnectionCloses,
              stored, process, ghosts, MainInv, NoneBusy, At
<1>4. CASE Signal
  BY <1>4, StagesAfter DEF Signal, stored, ghosts, MainInv, NoneBusy, At
<1>5. CASE Drained
  BY <1>5, StagesAfter DEF Drained, Drainable, Busy, stored, ghosts, MainInv, NoneBusy, At
<1>6. CASE DrainTimesOut
  BY <1>6, StagesAfter DEF DrainTimesOut, stored, ghosts, MainInv, NoneBusy, At
<1>7. CASE ClosePublisher
  BY <1>7, StagesAfter DEF ClosePublisher, stored, ghosts, MainInv, NoneBusy, At
<1>8. CASE Disconnect
  BY <1>8, StagesAfter DEF Disconnect, stored, ghosts, MainInv, NoneBusy, At
<1>9. CASE Exit \/ Crash
  <2>1. NoneBusy' /\ stage' = "off" /\ listening' = FALSE
    <3>1. req' = [h \in Handlers |-> Idle] /\ stage' = "off" /\ listening' = FALSE
      BY <1>9 DEF Exit, Crash, Halt
    <3>2. \A h \in Handlers : req'[h].at = "idle"
      BY <3>1 DEF Idle
    <3> QED
      BY <3>1, <3>2 DEF NoneBusy, At
  <2>2. CASE Crash
    <3>1. cut' => late'
      BY <2>2 DEF Crash, stored, MainInv
    <3> QED
      BY <2>1, <3>1 DEF MainInv
  <2>3. CASE Exit
    <3>1. NoneBusy => Busy = {}
      BY DEF NoneBusy, Busy
    <3>2. late' = late /\ (NoneBusy /\ cut' => cut)
      BY <2>3, <3>1 DEF Exit
    <3>3. cut' => late'
      BY <2>3, <3>2 DEF Exit, MainInv
    <3> QED
      BY <2>1, <3>3 DEF MainInv
  <2> QED
    BY <1>9, <2>2, <2>3
<1>10. ASSUME NEW h \in Handlers, NEW r \in Request, Begins(h, r)
       PROVE  MainInv'
  <2>1. stage = "serving"
    BY <1>10 DEF Begins, MainInv
  <2> QED
    BY <1>10, <2>1 DEF Begins, stored, process, MainInv
<1>11. ASSUME NEW h \in Handlers, Operates(h)
       PROVE  MainInv'
  <2>1. ~NoneBusy
    BY <1>11 DEF Operates, CreateUser, FindToken, ExchangeToken, StoreToken, DeleteSession,
                 ReadProfile, Publish, Step, NoneBusy, At
  <2> QED
    BY <1>11, <2>1 DEF Operates, CreateUser, FindToken, ExchangeToken, StoreToken, DeleteSession,
                       ReadProfile, Publish, stored, process, ghosts, MainInv
<1>12. ASSUME NEW h \in Handlers, Answer(h) \/ RequestFails(h) \/ ClientIsClosed(h)
       PROVE  MainInv'
  <2>1. ~NoneBusy
    BY <1>12 DEF Answer, RequestFails, ClientIsClosed, Using, Busy, NoneBusy, At
  <2>2. UNCHANGED <<process, outage, late>>
    BY <1>12 DEF Answer, RequestFails, ClientIsClosed, ghosts
  <2>3. cut' => late'
    <3>1. CASE ClientIsClosed(h)
      <4>1. ~mongo /\ stage \in {"off", "exit"}
        BY <3>1 DEF ClientIsClosed, MainInv
      <4> QED
        BY <2>1, <2>2, <4>1 DEF MainInv
    <3>2. CASE Answer(h) \/ RequestFails(h)
      <4>1. cut' = cut
        BY <3>2 DEF Answer, RequestFails
      <4> QED
        BY <2>2, <4>1 DEF MainInv
    <3> QED
      BY <1>12, <3>1, <3>2
  <2> QED
    BY <2>1, <2>2, <2>3 DEF process, MainInv
<1>13. ASSUME NEW t \in tokens, Expire(t)
       PROVE  MainInv'
  BY <1>13 DEF Expire, process, MainInv, NoneBusy, At
<1> QED
  BY <1>2, <1>3, <1>4, <1>5, <1>6, <1>7, <1>8, <1>9, <1>10, <1>11, <1>12, <1>13, Beginning
  DEF Next, Operates

------------------------------------------------------------------------------
(***************************************************************************)
(* The events of what clients are told.                                    *)
(***************************************************************************)
Accounted(r) == r.at = "answer" /\ r.kind \notin {"profile", "refresh"} =>
                  EventOf(r) \in events \/ outage \/ late

AnswersInv == EventsLostOnlyInOutage /\ \A h \in Handlers : Accounted(req[h])

\* An event finds the publisher open, or its life is one that loses events.
LEMMA Publishing ==
  ASSUME TypeInv, MainInv, NEW h \in Handlers, Publish(h)
  PROVE  EventOf(req[h]) \in events' \/ outage \/ late
<1>1. stage \in Stages /\ ~NoneBusy
  BY DEF TypeInv, Types, Publish, Step, NoneBusy, At
<1>2. publisher = "open" \/ outage \/ late
  BY <1>1 DEF MainInv, Stages
<1> QED
  BY <1>2 DEF Publish, EventOf

\* What was published stays so, and a life that lost events or time is known to the end.
LEMMA StepGrows ==
  ASSUME [Next]_vars
  PROVE  /\ events \subseteq events'
         /\ req' = [h \in Handlers |-> Idle] \/ ConnectMongo \/ ((outage => outage') /\ (late => late'))
<1>1. CASE UNCHANGED vars
  BY <1>1 DEF vars, ghosts
<1>2. CASE \/ ConnectMongo \/ EnsureIndexes \/ NewPublisher \/ Listen \/ ConnectionCloses
           \/ Signal \/ Crash \/ Drained \/ DrainTimesOut \/ ClosePublisher \/ Disconnect \/ Exit
           \/ \E t \in tokens : Expire(t)
  BY <1>2 DEF ConnectMongo, EnsureIndexes, NewPublisher, Listen, ConnectionCloses, Signal, Crash,
              Drained, DrainTimesOut, ClosePublisher, Disconnect, Exit, Expire, Halt, ghosts
<1>3. ASSUME NEW h \in Handlers,
             \/ \E email \in Emails : Register(h, email)
             \/ \E user \in users : Login(h, user)
             \/ \E done \in ok : Logout(h, done) \/ RefreshToken(h, done)
             \/ GetProfile(h)
      PROVE  events' = events /\ outage' = outage /\ late' = late
  BY <1>3 DEF Register, Login, Logout, RefreshToken, GetProfile, Accept
<1>4. ASSUME NEW h \in Handlers,
             Operates(h) \/ Answer(h) \/ RequestFails(h) \/ ClientIsClosed(h)
      PROVE  events \subseteq events' /\ outage' = outage /\ late' = late
  BY <1>4 DEF Operates, CreateUser, FindToken, ExchangeToken, StoreToken, DeleteSession,
              ReadProfile, Publish, Answer, RequestFails, ClientIsClosed, ghosts
<1> QED
  BY <1>1, <1>2, <1>3, <1>4 DEF Next, Operates

\* What clients were told stays accounted for.
LEMMA LostStays ==
  ASSUME EventsLostOnlyInOutage, events \subseteq events',
         \A d \in ok' : d \in ok \/ (d.kind # "refresh" =>
                          [kind |-> d.kind, subject |-> d.subject] \in events' \/ d.excused)
  PROVE  EventsLostOnlyInOutage'
BY DEF EventsLostOnlyInOutage

LEMMA StepAnswers ==
  ASSUME TypeInv, MainInv, AnswersInv, [Next]_vars
  PROVE  AnswersInv'
<1>1. req \in [Handlers -> Request]
  BY DEF TypeInv, Types
<1>2. /\ events \subseteq events'
      /\ req' = [h \in Handlers |-> Idle] \/ ConnectMongo \/ ((outage => outage') /\ (late => late'))
  BY StepGrows
<1>3. ASSUME ok' = ok, req' = [h \in Handlers |-> Idle]
      PROVE  AnswersInv'
  BY <1>2, <1>3, LostStays DEF AnswersInv, Accounted, Idle
<1>4. CASE ConnectMongo
  <2>1. NoneBusy /\ ok' = ok /\ req' = req
    BY <1>4 DEF ConnectMongo, MainInv
  <2>2. \A h \in Handlers : req[h].at = "idle"
    BY <2>1 DEF NoneBusy, At
  <2>3. ASSUME NEW h \in Handlers
        PROVE  Accounted(req[h])'
    BY <2>1, <2>2 DEF Accounted
  <2> QED
    BY <1>2, <2>1, <2>3, LostStays DEF AnswersInv
<1>5. ASSUME ok' = ok, req' = req
      PROVE  AnswersInv'
  <2>1. CASE req' = [h \in Handlers |-> Idle] \/ ConnectMongo
    BY <1>3, <1>4, <1>5, <2>1
  <2>2. ASSUME (outage => outage') /\ (late => late'), NEW h \in Handlers
        PROVE  Accounted(req[h])'
    BY <1>2, <1>5, <2>2 DEF AnswersInv, Accounted
  <2> QED
    BY <1>2, <1>5, <2>1, <2>2, LostStays DEF AnswersInv
<1>6. ASSUME NEW h \in Handlers, NEW r \in Request, outage' = outage, late' = late,
             req' = [req EXCEPT ![h] = r], Accounted(r)', EventsLostOnlyInOutage'
      PROVE  AnswersInv'
  <2>1. ASSUME NEW k \in Handlers
        PROVE  Accounted(req[k])'
    <3>1. CASE k = h
      BY <1>1, <1>6, <3>1 DEF Accounted
    <3>2. CASE k # h
      <4>1. req'[k] = req[k]
        BY <1>1, <1>6, <3>2
      <4> QED
        BY <1>2, <1>6, <4>1 DEF AnswersInv, Accounted
    <3> QED
      BY <3>1, <3>2
  <2> QED
    BY <1>6, <2>1 DEF AnswersInv
<1>7. CASE UNCHANGED vars
  BY <1>5, <1>7 DEF vars, ghosts
<1>8. CASE \/ EnsureIndexes \/ NewPublisher \/ Listen \/ ConnectionCloses
           \/ Signal \/ Drained \/ DrainTimesOut \/ ClosePublisher \/ Disconnect
           \/ \E t \in tokens : Expire(t)
  <2>1. ok' = ok /\ req' = req
    BY <1>8 DEF EnsureIndexes, NewPublisher, Listen, ConnectionCloses, Signal, Drained,
                DrainTimesOut, ClosePublisher, Disconnect, Expire, ghosts
  <2> QED
    BY <1>5, <2>1
<1>9. CASE Exit \/ Crash
  BY <1>3, <1>9 DEF Exit, Crash, Halt
<1>10. ASSUME NEW h \in Handlers, NEW r \in Request, Begins(h, r)
       PROVE  AnswersInv'
  <2>1. Accounted(r)' /\ ok' = ok
    BY <1>10 DEF Begins, Accounted
  <2>2. EventsLostOnlyInOutage'
    BY <1>2, <2>1, LostStays DEF AnswersInv
  <2> QED
    BY <1>6, <1>10, <2>1, <2>2 DEF Begins
<1>11. ASSUME NEW h \in Handlers, Operates(h)
       PROVE  AnswersInv'
  <2>1. PICK r \in Request : Standing(r) /\ Continues(h, r)
    BY <1>11, Onward
  <2>2. ok' = ok /\ outage' = outage /\ late' = late
    BY <1>11 DEF Operates, CreateUser, FindToken, ExchangeToken, StoreToken, DeleteSession,
                 ReadProfile, Publish, ghosts
  <2>3. EventsLostOnlyInOutage'
    BY <1>2, <2>2, LostStays DEF AnswersInv
  <2>4. CASE Publish(h)
    <3>1. EventOf(req[h]) \in events' \/ outage \/ late
      BY <2>4, Publishing
    <3>2. EventOf(r) = EventOf(req[h])
      BY <2>1 DEF Continues, EventOf
    <3> QED
      BY <1>6, <2>1, <2>2, <2>3, <3>1, <3>2 DEF Continues, Accounted
  <2>5. CASE ~Publish(h)
    <3>1. Standing(req[h]) /\ r.kind = req[h].kind /\ r.at = After(req[h])
      BY <2>1 DEF Continues, TypeInv
    <3>2. req[h].at \in {"user", "find", "exchange", "token", "delete", "read"}
      BY <1>11, <2>5 DEF Operates, CreateUser, FindToken, ExchangeToken, StoreToken,
                         DeleteSession, ReadProfile, Step, At
    <3>3. r.at # "answer" \/ r.kind \in {"profile", "refresh"}
      BY <3>1, <3>2 DEF After, Standing
    <3>4. Accounted(r)'
      BY <3>3 DEF Accounted
    <3> QED
      BY <1>6, <2>1, <2>2, <2>3, <3>4 DEF Continues
  <2> QED
    BY <2>4, <2>5
<1>12. ASSUME NEW h \in Handlers, Answer(h) \/ RequestFails(h) \/ ClientIsClosed(h)
       PROVE  AnswersInv'
  <2>1. /\ req' = [req EXCEPT ![h] = Idle] /\ outage' = outage /\ late' = late
        /\ events' = events
    BY <1>12 DEF Answer, RequestFails, ClientIsClosed, ghosts
  <2>2. Accounted(Idle)'
    BY DEF Accounted, Idle
  <2>3. EventsLostOnlyInOutage'
    <3>1. CASE ok' = ok
      BY <1>2, <3>1, LostStays DEF AnswersInv
    <3>2. CASE ok' # ok
      <4> DEFINE d == [kind |-> req[h].kind, id |-> req[h].id, subject |-> req[h].subject,
                       excused |-> outage \/ late]
      <4>1. req[h].at = "answer" /\ req[h].kind # "profile" /\ ok' = ok \cup {d}
        BY <1>12, <3>2 DEF Answer, RequestFails, ClientIsClosed, At
      <4>2. Accounted(req[h])
        BY DEF AnswersInv
      <4>3. /\ d.kind = req[h].kind /\ (outage \/ late => d.excused)
            /\ EventOf(req[h]) = [kind |-> d.kind, subject |-> d.subject]
        BY DEF EventOf
      <4> HIDE DEF d
      <4>4. d.kind # "refresh" => [kind |-> d.kind, subject |-> d.subject] \in events \/ d.excused
        BY <4>1, <4>2, <4>3 DEF Accounted
      <4> QED
        BY <1>2, <2>1, <4>1, <4>4, LostStays DEF AnswersInv
    <3> QED
      BY <3>1, <3>2
  <2> QED
    BY <1>6, <2>1, <2>2, <2>3, IdleIsRequest
<1> QED
  BY <1>4, <1>7, <1>8, <1>9, <1>10, <1>11, <1>12, Beginning DEF Next, Operates

------------------------------------------------------------------------------
(***************************************************************************)
(* Sessions keep to those that make them: numbers are used up in order,    *)
(* and no other request knows a session before its client does.            *)
(***************************************************************************)
Making(r) == r.kind \in {"register", "login"} /\ r.at \in {"user", "token"}

Numbered ==
  /\ \A s \in ended : s <= requests
  /\ \A d \in ok : d.subject <= requests
  /\ \A h \in Handlers : req[h].kind # "profile" => req[h].subject <= requests

\* Nobody was told of this session, and no logout ended it.
Unused(s) == s \notin ended /\ \A d \in ok : d.subject # s

\* A request that makes a session shares it with no other one.
Apart(q, r) == Making(q) /\ r.kind # "profile" => q.subject # r.subject

FreshInv ==
  /\ Numbered
  /\ \A h \in Handlers : Making(req[h]) => Unused(req[h].subject)
  /\ \A h, k \in Handlers : h # k => Apart(req[h], req[k])

\* A step of handler h, which goes on with its session, or ends.
LEMMA FreshOfOne ==
  ASSUME TypeInv, FreshInv, NEW h \in Handlers, NEW r \in Request, req' = [req EXCEPT ![h] = r],
         requests' = requests,
         Making(r) => Making(req[h]) /\ ended' = ended /\ ok' = ok,
         r.kind # "profile" => r.kind = req[h].kind /\ r.subject = req[h].subject,
         \/ ended' = ended /\ ok' = ok
         \/ /\ req[h].kind # "profile"
            /\ \A s \in ended' : s \in ended \/ s = req[h].subject
            /\ \A d \in ok' : d \in ok \/ d.subject = req[h].subject
  PROVE  FreshInv'
<1>1. req \in [Handlers -> Request]
  BY DEF TypeInv, Types
<1>2. \A k \in Handlers : req'[k] = IF k = h THEN r ELSE req[k]
  BY <1>1
<1>3. Numbered'
  BY <1>2 DEF FreshInv, Numbered
<1>4. ASSUME NEW k \in Handlers, Making(req[k])'
      PROVE  Unused(req[k].subject)'
  <2>1. CASE k = h
    <3>1. req'[k] = r /\ Making(r)
      BY <1>2, <1>4, <2>1
    <3>2. r.subject = req[h].subject /\ Making(req[h]) /\ ended' = ended /\ ok' = ok
      BY <3>1 DEF Making
    <3> QED
      BY <3>1, <3>2 DEF FreshInv, Unused
  <2>2. CASE k # h
    <3>1. req'[k] = req[k] /\ Making(req[k])
      BY <1>2, <1>4, <2>2
    <3>2. Unused(req[k].subject) /\ (req[h].kind # "profile" => req[k].subject # req[h].subject)
      BY <2>2, <3>1 DEF FreshInv, Apart
    <3> QED
      BY <3>1, <3>2 DEF Unused
  <2> QED
    BY <2>1, <2>2
<1>5. ASSUME NEW i \in Handlers, NEW k \in Handlers, i # k
      PROVE  Apart(req[i], req[k])'
  <2>1. Apart(req[i], req[k])
    BY <1>5 DEF FreshInv
  <2>2. CASE i = h
    <3>1. req'[i] = r /\ req'[k] = req[k]
      BY <1>2, <1>5, <2>2
    <3>2. Making(r) => Making(req[i]) /\ r.subject = req[i].subject
      BY <2>2 DEF Making
    <3> QED
      BY <2>1, <3>1, <3>2 DEF Apart, Making
  <2>3. CASE k = h
    <3>1. req'[k] = r /\ req'[i] = req[i]
      BY <1>2, <1>5, <2>3
    <3> QED
      BY <2>1, <2>3, <3>1 DEF Apart, Making
  <2>4. CASE i # h /\ k # h
    BY <1>2, <2>1, <2>4 DEF Apart, Making
  <2> QED
    BY <2>2, <2>3, <2>4
<1> QED
  BY <1>3, <1>4, <1>5 DEF FreshInv, Making

\* A request that begins has a new number, or the session of one that was answered.
LEMMA BeginFresh ==
  ASSUME TypeInv, FreshInv, NEW h \in Handlers, NEW r \in Request, Begins(h, r)
  PROVE  FreshInv'
<1>1. /\ req \in [Handlers -> Request] /\ ended \subseteq Nat /\ requests \in Nat
      /\ ok \subseteq Done
  BY DEF TypeInv, Types
<1>2. PICK n \in Nat : n = requests + 1 /\ \A m \in Nat : m <= requests => m <= n /\ m # n
  <2>1. requests + 1 \in Nat /\ \A m \in Nat : m <= requests => m <= requests + 1 /\ m # requests + 1
    BY <1>1
  <2> QED
    BY <2>1
<1>3. UNCHANGED <<ended, ok>> /\ req' = [req EXCEPT ![h] = r] /\ requests' = n
  BY <1>2 DEF Begins, sessions
<1>4. \A k \in Handlers : req'[k] = IF k = h THEN r ELSE req[k]
  BY <1>1, <1>3
<1>5. /\ Making(r) => r.subject = n
      /\ r.kind \notin {"register", "login", "profile"} =>
           ~Making(r) /\ \E done \in ok : r.subject = done.subject
  BY <1>2 DEF Begins, Making
<1>6. r.kind \in {"register", "login"} => r.subject = n
  BY <1>2 DEF Begins
<1>7. n \notin ended /\ \A d \in ok : d.subject # n /\ d.subject <= n
  BY <1>1, <1>2 DEF FreshInv, Numbered, Done
<1>8. \A k \in Handlers : req[k].kind # "profile" => req[k].subject # n /\ req[k].subject <= n
  BY <1>1, <1>2 DEF FreshInv, Numbered, Request
<1>9. r.kind # "profile" => r.subject <= n
  BY <1>2, <1>5, <1>6, <1>7
<1>10. Numbered'
  <2>1. \A s \in ended' : s <= n
    BY <1>1, <1>2, <1>3 DEF FreshInv, Numbered
  <2>2. \A k \in Handlers : req'[k].kind # "profile" => req'[k].subject <= n
    BY <1>4, <1>8, <1>9
  <2> QED
    BY <1>3, <1>7, <2>1, <2>2 DEF Numbered
<1>11. ASSUME NEW k \in Handlers, Making(req[k])'
       PROVE  Unused(req[k].subject)'
  BY <1>3, <1>4, <1>5, <1>7, <1>11 DEF FreshInv, Unused
<1>12. ASSUME NEW i \in Handlers, NEW k \in Handlers, i # k
       PROVE  Apart(req[i], req[k])'
  <2>1. Apart(req[i], req[k]) /\ (Making(req[i]) => Unused(req[i].subject))
    BY <1>12 DEF FreshInv
  <2>2. CASE i = h
    <3>1. req'[i] = r /\ req'[k] = req[k]
      BY <1>4, <1>12, <2>2
    <3> QED
      BY <1>5, <1>8, <3>1 DEF Apart, Making
  <2>3. CASE k = h
    <3>1. req'[k] = r /\ req'[i] = req[i]
      BY <1>4, <1>12, <2>3
    <3>2. Making(req[i]) => req[i].subject # n
      BY <1>8 DEF Making
    <3> QED
      BY <1>5, <1>6, <2>1, <3>1, <3>2 DEF Apart, Making, Unused
  <2>4. CASE i # h /\ k # h
    BY <1>4, <2>1, <2>4 DEF Apart, Making
  <2> QED
    BY <2>2, <2>3, <2>4
<1> QED
  BY <1>10, <1>11, <1>12 DEF FreshInv, Making

LEMMA StepFresh ==
  ASSUME TypeInv, FreshInv, [Next]_vars
  PROVE  FreshInv'
<1>1. req \in [Handlers -> Request]
  BY DEF TypeInv, Types
<1>2. ASSUME UNCHANGED <<ended, ok, requests>>, req' = req \/ req' = [h \in Handlers |-> Idle]
      PROVE  FreshInv'
  <2>1. CASE req' = req
    BY <1>2, <2>1 DEF FreshInv, Numbered, Unused, Apart, Making
  <2>2. CASE req' = [h \in Handlers |-> Idle]
    <3>1. \A h \in Handlers : req'[h].kind = "profile"
      BY <2>2 DEF Idle
    <3> QED
      BY <1>2, <3>1 DEF FreshInv, Numbered, Unused, Apart, Making
  <2> QED
    BY <1>2, <2>1, <2>2
<1>3. CASE UNCHANGED vars
  BY <1>2, <1>3 DEF vars, ghosts, sessions
<1>4. CASE \/ ConnectMongo \/ EnsureIndexes \/ NewPublisher \/ Listen \/ ConnectionCloses
           \/ Signal \/ Drained \/ DrainTimesOut \/ ClosePublisher \/ Disconnect
           \/ \E t \in tokens : Expire(t)
  BY <1>2, <1>4 DEF ConnectMongo, EnsureIndexes, NewPublisher, Listen, ConnectionCloses, Signal,
                    Drained, DrainTimesOut, ClosePublisher, Disconnect, Expire, ghosts, sessions
<1>5. CASE Exit \/ Crash
  BY <1>2, <1>5 DEF Exit, Crash, Halt
<1>6. ASSUME NEW h \in Handlers, NEW r \in Request, Begins(h, r)
      PROVE  FreshInv'
  BY <1>6, BeginFresh
<1>7. ASSUME NEW h \in Handlers, Operates(h)
      PROVE  FreshInv'
  <2>1. PICK r \in Request : Standing(r) /\ Continues(h, r)
    BY <1>7, Onward
  <2>2. r.kind = req[h].kind /\ r.subject = req[h].subject /\ r.at = After(req[h])
        /\ req' = [req EXCEPT ![h] = r] /\ Standing(req[h])
    BY <2>1 DEF Continues, TypeInv
  <2>3. requests' = requests /\ ok' = ok
    BY <1>7 DEF Operates, CreateUser, FindToken, ExchangeToken, StoreToken, DeleteSession,
                ReadProfile, Publish, ghosts
  <2>4. CASE DeleteSession(h)
    <3>1. /\ req[h].at = "delete" /\ req[h].kind = "logout" /\ ~Making(r)
          /\ ended' = ended \cup {req[h].subject}
      BY <2>2, <2>4 DEF DeleteSession, Step, At, Standing, Making
    <3> QED
      BY <2>2, <2>3, <3>1, FreshOfOne
  <2>5. CASE ~DeleteSession(h)
    <3>1. ended' = ended
      BY <1>7, <2>5 DEF Operates, CreateUser, FindToken, ExchangeToken, StoreToken,
                        ReadProfile, Publish, ghosts, sessions
    <3>2. Making(r) => Making(req[h])
      BY <2>2 DEF Making, After, Standing
    <3> QED
      BY <2>2, <2>3, <3>1, <3>2, FreshOfOne
  <2> QED
    BY <2>4, <2>5
<1>8. ASSUME NEW h \in Handlers, Answer(h) \/ RequestFails(h) \/ ClientIsClosed(h)
      PROVE  FreshInv'
  <2>1. /\ req' = [req EXCEPT ![h] = Idle] /\ Idle \in Request /\ Idle.kind = "profile"
        /\ ~Making(Idle) /\ requests' = requests /\ ended' = ended
    BY <1>8, IdleIsRequest DEF Answer, RequestFails, ClientIsClosed, sessions, Idle, Making
  <2>2. ok' = ok \/ (req[h].kind # "profile" /\ \A d \in ok' : d \in ok \/ d.subject = req[h].subject)
    BY <1>8 DEF Answer, RequestFails, ClientIsClosed
  <2> QED
    BY <2>1, <2>2, FreshOfOne
<1> QED
  BY <1>3, <1>4, <1>5, <1>6, <1>7, <1>8, Beginning DEF Next, Operates

------------------------------------------------------------------------------
(***************************************************************************)
(* A session that a logout ended stays without a token, unless a refresh   *)
(* of it was past its look at the token.                                   *)
(***************************************************************************)
ClosedInv == \A s \in ended \ raced : TokensOf(s) = {} /\ Refreshing(s) = {}

\* No token and no refresh past its look are there that were not before.
LEMMA ClosedStays ==
  ASSUME ClosedInv, ended' = ended, raced' = raced,
         \A t \in tokens' : t \in tokens \/ t.session \notin ended \ raced,
         \A k \in Handlers :
           \/ req'[k] = req[k]
           \/ req'[k].at \notin {"exchange", "token"} \/ req'[k].kind # "refresh"
           \/ req'[k].subject \notin ended \ raced
  PROVE  ClosedInv'
<1> SUFFICES ASSUME NEW s \in ended \ raced
             PROVE  (TokensOf(s) = {})' /\ (Refreshing(s) = {})'
  BY DEF ClosedInv
<1>1. TokensOf(s) = {} /\ Refreshing(s) = {}
  BY DEF ClosedInv
<1>2. (TokensOf(s) = {})'
  BY <1>1 DEF TokensOf
<1>3. (Refreshing(s) = {})'
  BY <1>1 DEF Refreshing
<1> QED
  BY <1>2, <1>3

\* The steps of a request.
LEMMA OperatesClosed ==
  ASSUME TypeInv, FreshInv, ClosedInv, NEW h \in Handlers, Operates(h)
  PROVE  ClosedInv'
<1>1. PICK r \in Request : Standing(r) /\ Continues(h, r)
  BY Onward
<1>2. /\ req \in [Handlers -> Request] /\ Standing(req[h]) /\ r.kind = req[h].kind
      /\ r.subject = req[h].subject /\ r.at = After(req[h])
  BY <1>1 DEF Continues, TypeInv, Types
<1>3. \A k \in Handlers : req'[k] = IF k = h THEN r ELSE req[k]
  BY <1>1, <1>2 DEF Continues
<1>4. CASE CreateUser(h) \/ ReadProfile(h) \/ Publish(h)
  <2>1. UNCHANGED <<tokens, ended, raced>> /\ req[h].at \in {"user", "read", "publish"}
    BY <1>4 DEF CreateUser, ReadProfile, Publish, Step, At, stored, ghosts, sessions
  <2>2. r.kind # "refresh"
    BY <1>2, <2>1 DEF Standing
  <2> QED
    BY <1>3, <2>1, <2>2, ClosedStays
<1>5. CASE FindToken(h)
  <2>1. UNCHANGED <<tokens, ended, raced>> /\ Presented(h) \in tokens
    BY <1>5 DEF FindToken, stored, ghosts, sessions
  <2>2. Presented(h).session = r.subject
    BY <1>2 DEF Presented
  <2>3. r.subject \notin ended \ raced
    BY <2>1, <2>2 DEF ClosedInv, TokensOf
  <2> QED
    BY <1>3, <2>1, <2>3, ClosedStays
<1>6. CASE ExchangeToken(h)
  <2>1. tokens' \subseteq tokens /\ ended' = ended /\ raced' = raced /\ req[h].at = "exchange"
    BY <1>6 DEF ExchangeToken, Step, At, ghosts, sessions
  <2>2. req[h].kind = "refresh" /\ h \in Refreshing(req[h].subject)
    BY <1>2, <2>1 DEF Standing, Refreshing
  <2>3. r.subject \notin ended \ raced
    BY <1>2, <2>2 DEF ClosedInv
  <2> QED
    BY <1>3, <2>1, <2>3, ClosedStays
<1>7. CASE StoreToken(h)
  <2>1. /\ ended' = ended /\ raced' = raced /\ req[h].at = "token"
        /\ tokens' = tokens \cup {[n |-> req[h].id, session |-> req[h].subject]}
    BY <1>7 DEF StoreToken, Step, At, ghosts, sessions
  <2>2. req[h].subject \notin ended \ raced
    <3>1. CASE req[h].kind = "refresh"
      <4>1. h \in Refreshing(req[h].subject)
        BY <2>1, <3>1 DEF Refreshing
      <4> QED
        BY <4>1 DEF ClosedInv
    <3>2. CASE req[h].kind # "refresh"
      <4>1. Making(req[h])
        BY <1>2, <2>1, <3>2 DEF Making, Standing
      <4> QED
        BY <4>1 DEF FreshInv, Unused
    <3> QED
      BY <3>1, <3>2
  <2>3. \A t \in tokens' : t \in tokens \/ t.session = req[h].subject
    BY <2>1
  <2> QED
    BY <1>2, <1>3, <2>1, <2>2, <2>3, ClosedStays
<1>8. CASE DeleteSession(h)
  <2>1. PICK n \in Nat : n = req[h].subject
    BY <1>2 DEF Request
  <2>2. /\ req[h].at = "delete" /\ tokens' = tokens \ TokensOf(n) /\ ended' = ended \cup {n}
        /\ raced' = IF Refreshing(n) = {} THEN raced ELSE raced \cup {n}
    BY <1>8, <2>1 DEF DeleteSession, Step, At
  <2>3. r.kind = "logout"
    BY <1>2, <2>2 DEF Standing
  <2> SUFFICES ASSUME NEW s \in ended' \ raced'
               PROVE  (TokensOf(s) = {})' /\ (Refreshing(s) = {})'
    BY DEF ClosedInv
  <2>4. Refreshing(s) = {} /\ (s = n \/ TokensOf(s) = {})
    BY <2>2 DEF ClosedInv
  <2>5. (TokensOf(s) = {})'
    BY <2>2, <2>4 DEF TokensOf
  <2>6. (Refreshing(s) = {})'
    BY <1>3, <2>3, <2>4 DEF Refreshing
  <2> QED
    BY <2>5, <2>6
<1> QED
  BY <1>4, <1>5, <1>6, <1>7, <1>8 DEF Operates

LEMMA StepClosed ==
  ASSUME TypeInv, FreshInv, ClosedInv, [Next]_vars
  PROVE  ClosedInv'
<1>1. req \in [Handlers -> Request]
  BY DEF TypeInv, Types
<1>2. CASE UNCHANGED vars
  BY <1>2, ClosedStays DEF vars, stored, ghosts, sessions
<1>3. CASE \/ ConnectMongo \/ EnsureIndexes \/ NewPublisher \/ Listen \/ ConnectionCloses
           \/ Signal \/ Drained \/ DrainTimesOut \/ ClosePublisher \/ Disconnect
           \/ \E t \in tokens : Expire(t)
  <2>1. tokens' \subseteq tokens /\ UNCHANGED <<ended, raced, req>>
    BY <1>3 DEF ConnectMongo, EnsureIndexes, NewPublisher, Listen, ConnectionCloses, Signal,
                Drained, DrainTimesOut, ClosePublisher, Disconnect, Expire, stored, ghosts, sessions
  <2> QED
    BY <2>1, ClosedStays
<1>4. CASE Exit \/ Crash
  <2>1. UNCHANGED <<tokens, ended, raced>> /\ req' = [h \in Handlers |-> Idle]
    BY <1>4 DEF Exit, Crash, Halt, stored
  <2>2. \A h \in Handlers : req'[h].kind # "refresh"
    BY <2>1 DEF Idle
  <2> QED
    BY <2>1, <2>2, ClosedStays
<1>5. ASSUME NEW h \in Handlers, NEW r \in Request, Begins(h, r)
      PROVE  ClosedInv'
  <2>1. UNCHANGED <<tokens, ended, raced>> /\ req' = [req EXCEPT ![h] = r]
        /\ (r.kind = "refresh" => r.at = "find")
    BY <1>5 DEF Begins, stored, sessions
  <2>2. \A k \in Handlers : req'[k] = IF k = h THEN r ELSE req[k]
    BY <1>1, <2>1
  <2> QED
    BY <2>1, <2>2, ClosedStays
<1>6. ASSUME NEW h \in Handlers, Operates(h)
      PROVE  ClosedInv'
  BY <1>6, OperatesClosed
<1>7. ASSUME NEW h \in Handlers, Answer(h) \/ RequestFails(h) \/ ClientIsClosed(h)
      PROVE  ClosedInv'
  <2>1. UNCHANGED <<tokens, ended, raced>> /\ req' = [req EXCEPT ![h] = Idle]
    BY <1>7 DEF Answer, RequestFails, ClientIsClosed, stored, sessions
  <2>2. \A k \in Handlers : req'[k] = (IF k = h THEN Idle ELSE req[k]) /\ Idle.kind # "refresh"
    BY <1>1, <2>1 DEF Idle
  <2> QED
    BY <2>1, <2>2, ClosedStays
<1> QED
  BY <1>2, <1>3, <1>4, <1>5, <1>6, <1>7, Beginning DEF Next, Operates

------------------------------------------------------------------------------
(***************************************************************************)
(* What is stored.                                                         *)
(***************************************************************************)
Has(id) == \E u \in users : u.id = id

\* A session that was stored is, or has lost its tokens in a way that may be.
Kept(s) == TokensOf(s) # {} \/ s \in ended \cup lapsed \cup Halfway(Handlers)

\* What an event or an answer says.
Truth(x) ==
  /\ x.kind = "register" => Has(x.subject)
  /\ x.kind = "logout" => x.subject \in ended
  /\ x.kind # "logout" => Kept(x.subject)

\* A request is backed by what it stored so far.
Backed(r) ==
  /\ r.kind = "register" /\ r.at # "user" => Has(r.subject)
  /\ r.at \in {"publish", "answer"} /\ r.kind # "profile" => Truth(r)

SaidInv ==
  /\ \A x \in events : Truth(x)
  /\ \A d \in ok : Truth(d)
  /\ \A h \in Handlers : Backed(req[h])

LEMMA HalfwayIs ==
  ASSUME NEW s
  PROVE  s \in Halfway(Handlers) <=>
           \E k \in Handlers : req[k].kind = "refresh" /\ req[k].at = "token" /\ req[k].subject = s
BY DEF Halfway

LEMMA HalfwayWillBe ==
  ASSUME NEW s
  PROVE  (s \in Halfway(Handlers))' <=>
           \E k \in Handlers :
             req'[k].kind = "refresh" /\ req'[k].at = "token" /\ req'[k].subject = s
BY DEF Halfway

\* A session stays kept when its tokens stay, and the refreshes between their two steps.
LEMMA KeptStays ==
  ASSUME NEW s, Kept(s), ended \subseteq ended', lapsed \subseteq lapsed',
         \/ s \in (ended \cup lapsed)'
         \/ /\ \A t \in tokens : t.session = s => t \in tokens'
            /\ \A k \in Handlers : \/ req'[k] = req[k]
                                   \/ req[k].at # "token" \/ req[k].kind # "refresh"
                                   \/ req[k].subject # s
                                   \/ TokensOf(s)' # {}
  PROVE  Kept(s)'
<1>1. CASE s \in (ended \cup lapsed)'
  BY <1>1 DEF Kept
<1>2. CASE /\ s \notin (ended \cup lapsed)'
           /\ \A t \in tokens : t.session = s => t \in tokens'
           /\ \A k \in Handlers : \/ req'[k] = req[k]
                                  \/ req[k].at # "token" \/ req[k].kind # "refresh"
                                  \/ req[k].subject # s
                                  \/ TokensOf(s)' # {}
  <2>1. CASE TokensOf(s) # {}
    <3>1. TokensOf(s)' # {}
      BY <1>2, <2>1 DEF TokensOf
    <3> QED
      BY <3>1 DEF Kept
  <2>2. CASE TokensOf(s) = {}
    <3>1. s \in Halfway(Handlers)
      BY <1>2, <2>2 DEF Kept
    <3>2. PICK k \in Handlers :
            req[k].kind = "refresh" /\ req[k].at = "token" /\ req[k].subject = s
      BY <3>1, HalfwayIs
    <3>3. CASE TokensOf(s)' # {}
      BY <3>3 DEF Kept
    <3>4. CASE TokensOf(s)' = {}
      <4>1. req'[k] = req[k]
        BY <1>2, <3>2, <3>4
      <4>2. (s \in Halfway(Handlers))'
        BY <3>2, <4>1, HalfwayWillBe
      <4> QED
        BY <4>2 DEF Kept
    <3> QED
      BY <3>3, <3>4
  <2> QED
    BY <2>1, <2>2
<1> QED
  BY <1>1, <1>2

\* The steps of a request.
LEMMA OperatesKeeps ==
  ASSUME TypeInv, NEW h \in Handlers, Operates(h), NEW s, Kept(s)
  PROVE  Kept(s)'
<1>1. PICK r \in Request : Standing(r) /\ Continues(h, r)
  BY Onward
<1>2. /\ req \in [Handlers -> Request] /\ Standing(req[h]) /\ r.kind = req[h].kind
      /\ r.subject = req[h].subject /\ r.at = After(req[h])
  BY <1>1 DEF Continues, TypeInv, Types
<1>3. \A k \in Handlers : req'[k] = IF k = h THEN r ELSE req[k]
  BY <1>1, <1>2 DEF Continues
<1>4. CASE CreateUser(h) \/ ReadProfile(h) \/ Publish(h) \/ FindToken(h)
  <2>1. /\ UNCHANGED <<tokens, ended, lapsed>>
        /\ req[h].at \in {"user", "read", "publish", "find"}
    BY <1>4 DEF CreateUser, ReadProfile, Publish, FindToken, Step, At, stored, ghosts, sessions
  <2> QED
    BY <1>3, <2>1, KeptStays
<1>5. CASE ExchangeToken(h)
  <2>1. /\ tokens' = tokens \ {Presented(h)} /\ UNCHANGED <<ended, lapsed>>
        /\ req[h].at = "exchange"
    BY <1>5 DEF ExchangeToken, Step, At, ghosts, sessions
  <2>2. CASE s = req[h].subject
    <3>1. req'[h].kind = "refresh" /\ req'[h].at = "token" /\ req'[h].subject = s
      BY <1>2, <1>3, <2>1, <2>2 DEF Standing, After
    <3>2. (s \in Halfway(Handlers))'
      BY <3>1, HalfwayWillBe
    <3> QED
      BY <3>2 DEF Kept
  <2>3. CASE s # req[h].subject
    <3>1. Presented(h).session # s
      BY <2>3 DEF Presented
    <3> QED
      BY <1>3, <2>1, <3>1, KeptStays
  <2> QED
    BY <2>2, <2>3
<1>6. CASE StoreToken(h)
  <2>1. /\ tokens' = tokens \cup {[n |-> req[h].id, session |-> req[h].subject]}
        /\ UNCHANGED <<ended, lapsed>>
    BY <1>6 DEF StoreToken, ghosts, sessions
  <2>2. \E t \in tokens' : t.session = req[h].subject
    <3> DEFINE t == [n |-> req[h].id, session |-> req[h].subject]
    <3>1. t \in tokens' /\ t.session = req[h].subject
      BY <2>1
    <3> QED
      BY <3>1
  <2>3. req[h].subject = s => TokensOf(s)' # {}
    BY <2>2 DEF TokensOf
  <2> QED
    BY <1>3, <2>1, <2>3, KeptStays
<1>7. CASE DeleteSession(h)
  <2>1. /\ tokens' = tokens \ TokensOf(req[h].subject) /\ ended' = ended \cup {req[h].subject}
        /\ lapsed' = lapsed /\ req[h].at = "delete"
    BY <1>7 DEF DeleteSession, Step, At
  <2>2. s \in ended' \/ \A t \in tokens : t.session = s => t \in tokens'
    BY <2>1 DEF TokensOf
  <2> QED
    BY <1>3, <2>1, <2>2, KeptStays
<1> QED
  BY <1>4, <1>5, <1>6, <1>7 DEF Operates

LEMMA StepKeeps ==
  ASSUME TypeInv, [Next]_vars, NEW s, Kept(s)
  PROVE  Kept(s)'
<1>1. req \in [Handlers -> Request]
  BY DEF TypeInv, Types
<1>2. CASE UNCHANGED vars
  BY <1>2, KeptStays DEF vars, stored, ghosts, sessions
<1>3. CASE \/ ConnectMongo \/ EnsureIndexes \/ NewPublisher \/ Listen \/ ConnectionCloses
           \/ Signal \/ Drained \/ DrainTimesOut \/ ClosePublisher \/ Disconnect
  <2>1. UNCHANGED <<tokens, ended, lapsed, req>>
    BY <1>3 DEF ConnectMongo, EnsureIndexes, NewPublisher, Listen, ConnectionCloses, Signal,
                Drained, DrainTimesOut, ClosePublisher, Disconnect, stored, ghosts, sessions
  <2> QED
    BY <2>1, KeptStays
<1>4. CASE Exit \/ Crash
  <2>1. UNCHANGED <<tokens, ended>> /\ lapsed' = lapsed \cup Halfway(Handlers)
    BY <1>4 DEF Exit, Crash, Halt, stored
  <2> QED
    BY <2>1 DEF Kept, TokensOf
<1>5. ASSUME NEW t \in tokens, Expire(t)
      PROVE  Kept(s)'
  <2>1. /\ tokens' = tokens \ {t} /\ lapsed' = lapsed \cup {t.session}
        /\ UNCHANGED <<ended, req>>
    BY <1>5 DEF Expire
  <2>2. s \in lapsed' \/ \A u \in tokens : u.session = s => u \in tokens'
    BY <2>1
  <2> QED
    BY <2>1, <2>2, KeptStays
<1>6. ASSUME NEW h \in Handlers, NEW r \in Request, Begins(h, r)
      PROVE  Kept(s)'
  <2>1. UNCHANGED <<tokens, ended, lapsed>> /\ req' = [req EXCEPT ![h] = r] /\ req[h].at = "idle"
    BY <1>6 DEF Begins, At, stored, sessions
  <2>2. \A k \in Handlers : req'[k] = IF k = h THEN r ELSE req[k]
    BY <1>1, <2>1
  <2> QED
    BY <2>1, <2>2, KeptStays
<1>7. ASSUME NEW h \in Handlers, Operates(h)
      PROVE  Kept(s)'
  BY <1>7, OperatesKeeps
<1>8. ASSUME NEW h \in Handlers, Answer(h)
      PROVE  Kept(s)'
  <2>1. UNCHANGED <<tokens, ended, lapsed>> /\ req' = [req EXCEPT ![h] = Idle] /\ req[h].at = "answer"
    BY <1>8 DEF Answer, At, stored, sessions
  <2>2. \A k \in Handlers : req'[k] = IF k = h THEN Idle ELSE req[k]
    BY <1>1, <2>1
  <2> QED
    BY <2>1, <2>2, KeptStays
<1>9. ASSUME NEW h \in Handlers, RequestFails(h) \/ ClientIsClosed(h)
      PROVE  Kept(s)'
  <2>1. /\ UNCHANGED <<tokens, ended>> /\ lapsed' = lapsed \cup Halfway({h})
        /\ req' = [req EXCEPT ![h] = Idle]
    BY <1>9 DEF RequestFails, ClientIsClosed, stored
  <2>2. \A k \in Handlers : req'[k] = IF k = h THEN Idle ELSE req[k]
    BY <1>1, <2>1
  <2>3. s \in lapsed' \/ req[h].kind # "refresh" \/ req[h].at # "token" \/ req[h].subject # s
    BY <2>1 DEF Halfway
  <2> QED
    BY <2>1, <2>2, <2>3, KeptStays
<1> QED
  BY <1>2, <1>3, <1>4, <1>5, <1>6, <1>7, <1>8, <1>9, Beginning DEF Next, Operates

\* Users are never removed, and an ended session stays ended.
LEMMA UsersStay ==
  ASSUME TypeInv, [Next]_vars
  PROVE  users \subseteq users' /\ ended \subseteq ended'
<1>1. CASE UNCHANGED vars
  BY <1>1 DEF vars, stored, ghosts, sessions
<1>2. CASE \/ ConnectMongo \/ EnsureIndexes \/ NewPublisher \/ Listen \/ ConnectionCloses
           \/ Signal \/ Crash \/ Drained \/ DrainTimesOut \/ ClosePublisher \/ Disconnect \/ Exit
           \/ \E t \in tokens : Expire(t)
  BY <1>2 DEF ConnectMongo, EnsureIndexes, NewPublisher, Listen, ConnectionCloses, Signal, Crash,
              Drained, DrainTimesOut, ClosePublisher, Disconnect, Exit, Expire, stored, ghosts,
              sessions
<1>3. ASSUME NEW h \in Handlers, NEW r \in Request, Begins(h, r)
      PROVE  users' = users /\ ended' = ended
  BY <1>3 DEF Begins, stored, sessions
<1>4. ASSUME NEW h \in Handlers,
             Operates(h) \/ Answer(h) \/ RequestFails(h) \/ ClientIsClosed(h)
      PROVE  users \subseteq users' /\ ended \subseteq ended'
  BY <1>4 DEF Operates, CreateUser, FindToken, ExchangeToken, StoreToken, DeleteSession,
              ReadProfile, Publish, Answer, RequestFails, ClientIsClosed, stored, ghosts, sessions
<1> QED
  BY <1>1, <1>2, <1>3, <1>4, Beginning DEF Next, Operates

LEMMA StepTruth ==
  ASSUME TypeInv, [Next]_vars, NEW x, Truth(x)
  PROVE  Truth(x)'
<1>1. users \subseteq users' /\ ended \subseteq ended'
  BY UsersStay
<1>2. x.kind # "logout" => Kept(x.subject)'
  <2>1. CASE x.kind # "logout"
    <3>1. PICK s : s = x.subject
      OBVIOUS
    <3>2. Kept(s)'
      BY <2>1, <3>1, StepKeeps DEF Truth
    <3> QED
      BY <3>1, <3>2
  <2> QED
    BY <2>1
<1> QED
  BY <1>1, <1>2 DEF Truth, Has

\* A handler that goes on to r, or stays, with the rest of the step as backed as it is.
LEMMA SaidOfOne ==
  ASSUME TypeInv, SaidInv, [Next]_vars, NEW h \in Handlers, NEW r \in Request,
         req' = [req EXCEPT ![h] = r], Backed(r)',
         \A x \in events' : x \in events \/ Truth(x)',
         \A d \in ok' : d \in ok \/ Truth(d)'
  PROVE  SaidInv'
<1>1. req \in [Handlers -> Request]
  BY DEF TypeInv, Types
<1>2. ASSUME NEW x \in events'
      PROVE  Truth(x)'
  BY <1>2, StepTruth DEF SaidInv
<1>3. ASSUME NEW d \in ok'
      PROVE  Truth(d)'
  BY <1>3, StepTruth DEF SaidInv
<1>4. users \subseteq users'
  BY UsersStay
<1>5. ASSUME NEW k \in Handlers
      PROVE  Backed(req[k])'
  <2>1. PICK q \in Request : q = req'[k]
    BY <1>1
  <2>2. CASE k = h
    BY <1>1, <2>2 DEF Backed, Truth, Has, Kept, TokensOf, Halfway
  <2>3. CASE k # h
    <3>1. q = req[k]
      BY <1>1, <2>1, <2>3
    <3>2. Backed(q)
      BY <3>1 DEF SaidInv
    <3>3. q.at \in {"publish", "answer"} /\ q.kind # "profile" => Truth(q)'
      BY <3>2, StepTruth DEF Backed
    <3>4. q.kind = "register" /\ q.at # "user" => Has(q.subject)'
      BY <1>4, <3>2 DEF Backed, Has
    <3>5. Backed(q)'
      BY <3>3, <3>4 DEF Backed
    <3> QED
      BY <2>1, <3>1, <3>5 DEF Backed, Truth, Has, Kept, TokensOf, Halfway
  <2> QED
    BY <2>2, <2>3
<1> QED
  BY <1>2, <1>3, <1>5 DEF SaidInv

LEMMA StepSaid ==
  ASSUME TypeInv, SaidInv, [Next]_vars
  PROVE  SaidInv'
<1>1. req \in [Handlers -> Request]
  BY DEF TypeInv, Types
<1>2. ASSUME UNCHANGED <<events, ok>>, req' = req \/ req' = [h \in Handlers |-> Idle]
      PROVE  SaidInv'
  <2>1. ASSUME NEW x \in events' \cup ok'
        PROVE  Truth(x)'
    BY <1>2, <2>1, StepTruth DEF SaidInv
  <2>2. ASSUME NEW k \in Handlers
        PROVE  Backed(req[k])'
    <3>1. CASE req' = [h \in Handlers |-> Idle]
      BY <3>1 DEF Idle, Backed
    <3>2. CASE req' = req
      <4>1. PICK q \in Request : q = req[k]
        BY <1>1
      <4>2. Backed(q)
        BY <4>1 DEF SaidInv
      <4>3. q.at \in {"publish", "answer"} /\ q.kind # "profile" => Truth(q)'
        BY <4>2, StepTruth DEF Backed
      <4>4. q.kind = "register" /\ q.at # "user" => Has(q.subject)'
        BY <4>2, UsersStay DEF Backed, Has
      <4>5. Backed(q)'
        BY <4>3, <4>4 DEF Backed
      <4> QED
        BY <3>2, <4>1, <4>5 DEF Backed, Truth, Has, Kept, TokensOf, Halfway
    <3> QED
      BY <1>2, <3>1, <3>2
  <2> QED
    BY <2>1, <2>2 DEF SaidInv
<1>3. CASE UNCHANGED vars
  BY <1>2, <1>3 DEF vars, ghosts
<1>4. CASE \/ ConnectMongo \/ EnsureIndexes \/ NewPublisher \/ Listen \/ ConnectionCloses
           \/ Signal \/ Drained \/ DrainTimesOut \/ ClosePublisher \/ Disconnect
           \/ \E t \in tokens : Expire(t)
  BY <1>2, <1>4 DEF ConnectMongo, EnsureIndexes, NewPublisher, Listen, ConnectionCloses, Signal,
                    Drained, DrainTimesOut, ClosePublisher, Disconnect, Expire, ghosts
<1>5. CASE Exit \/ Crash
  BY <1>2, <1>5 DEF Exit, Crash, Halt
<1>6. ASSUME NEW h \in Handlers, NEW r \in Request, Begins(h, r)
      PROVE  SaidInv'
  <2>1. /\ r.kind = "register" => r.at = "user"
        /\ r.at \notin {"publish", "answer"}
        /\ UNCHANGED <<events, ok>> /\ req' = [req EXCEPT ![h] = r]
    BY <1>6 DEF Begins
  <2>2. Backed(r)'
    BY <2>1 DEF Backed
  <2> QED
    BY <2>1, <2>2, SaidOfOne
<1>7. ASSUME NEW h \in Handlers, Operates(h)
      PROVE  SaidInv'
  <2>1. PICK r \in Request : Standing(r) /\ Continues(h, r)
    BY <1>7, Onward
  <2>2. /\ r.kind = req[h].kind /\ r.subject = req[h].subject /\ r.at = After(req[h])
        /\ req' = [req EXCEPT ![h] = r] /\ Standing(req[h]) /\ req[h].at \notin {"idle", "answer"}
    BY <2>1 DEF Continues, TypeInv
  <2>3. PICK n \in Nat : n = req[h].subject
    BY <1>1 DEF Request
  <2>4. ok' = ok /\ Backed(req[h])
    BY <1>7 DEF SaidInv, Operates, CreateUser, FindToken, ExchangeToken, StoreToken,
                DeleteSession, ReadProfile, Publish, ghosts
  <2>5. Truth(req[h]) => Truth(r)'
    <3>1. Truth(req[h]) => Truth(r)
      BY <2>2 DEF Truth
    <3> QED
      BY <3>1, StepTruth
  <2>6. r.kind = "register" => Has(n)'
    <3>1. CASE CreateUser(h)
      <4>1. users' = users \cup {[id |-> n, email |-> req[h].email]}
        BY <2>3, <3>1 DEF CreateUser
      <4>2. \E u \in users' : u.id = n
        <5> DEFINE u == [id |-> n, email |-> req[h].email]
        <5>1. u \in users' /\ u.id = n
          BY <4>1
        <5> QED
          BY <5>1
      <4> QED
        BY <4>2 DEF Has
    <3>2. CASE ~CreateUser(h)
      <4>1. req[h].at # "user"
        BY <1>7, <3>2 DEF Operates, FindToken, ExchangeToken, StoreToken, DeleteSession,
                          ReadProfile, Publish, Step, At
      <4> QED
        BY <2>2, <2>3, <2>4, <4>1, UsersStay DEF Backed, Has
    <3> QED
      BY <3>1, <3>2
  <2>7. CASE StoreToken(h)
    <3>1. /\ tokens' = tokens \cup {[n |-> req[h].id, session |-> n]} /\ req[h].at = "token"
          /\ events' = events
      BY <2>3, <2>7 DEF StoreToken, Step, At
    <3>2. \E t \in tokens' : t.session = n
      <4> DEFINE t == [n |-> req[h].id, session |-> n]
      <4>1. t \in tokens' /\ t.session = n
        BY <3>1
      <4> QED
        BY <4>1
    <3>3. Kept(n)'
      BY <3>2 DEF Kept, TokensOf
    <3>4. r.kind # "logout"
      BY <2>2, <3>1 DEF Standing
    <3>5. Truth(r)'
      BY <2>2, <2>3, <2>6, <3>3, <3>4 DEF Truth
    <3>6. Backed(r)'
      BY <2>2, <2>3, <2>6, <3>5 DEF Backed
    <3> QED
      BY <2>2, <2>4, <3>1, <3>6, SaidOfOne
  <2>8. CASE DeleteSession(h)
    <3>1. /\ ended' = ended \cup {n} /\ req[h].at = "delete" /\ events' = events
      BY <2>3, <2>8 DEF DeleteSession, Step, At
    <3>2. r.kind = "logout"
      BY <2>2, <3>1 DEF Standing
    <3>3. Truth(r)' /\ Backed(r)'
      BY <2>2, <2>3, <3>1, <3>2 DEF Truth, Backed
    <3> QED
      BY <2>2, <2>4, <3>1, <3>3, SaidOfOne
  <2>9. CASE Publish(h)
    <3>1. events' \subseteq events \cup {EventOf(req[h])} /\ req[h].at = "publish"
      BY <2>9 DEF Publish, Step, At, EventOf
    <3>2. Truth(req[h])
      BY <2>2, <2>4, <3>1 DEF Backed, Standing
    <3>3. Truth(r)'
      BY <2>5, <3>2
    <3>4. Backed(r)'
      BY <2>2, <2>3, <2>6, <3>3 DEF Backed
    <3>5. Truth(EventOf(req[h]))
      <4>1. EventOf(req[h]).kind = req[h].kind /\ EventOf(req[h]).subject = req[h].subject
        BY DEF EventOf
      <4> QED
        BY <3>2, <4>1 DEF Truth
    <3>6. ASSUME NEW x \in events', x \notin events
          PROVE  Truth(x)'
      <4>1. Truth(x)
        BY <3>1, <3>5, <3>6
      <4> QED
        BY <4>1, StepTruth
    <3> QED
      BY <2>2, <2>4, <3>4, <3>6, SaidOfOne
  <2>10. CASE CreateUser(h) \/ FindToken(h) \/ ExchangeToken(h) \/ ReadProfile(h)
    <3>1. events' = events /\ req[h].at \in {"user", "find", "exchange", "read"}
      BY <2>10 DEF CreateUser, FindToken, ExchangeToken, ReadProfile, Step, At
    <3>2. r.at \in {"publish", "answer"} => r.kind = "profile"
      BY <2>2, <3>1 DEF After, Standing
    <3>3. Backed(r)'
      BY <2>2, <2>3, <2>6, <3>2 DEF Backed
    <3> QED
      BY <2>2, <2>4, <3>1, <3>3, SaidOfOne
  <2> QED
    BY <1>7, <2>7, <2>8, <2>9, <2>10 DEF Operates
<1>8. ASSUME NEW h \in Handlers, Answer(h) \/ RequestFails(h) \/ ClientIsClosed(h)
      PROVE  SaidInv'
  <2>1. req' = [req EXCEPT ![h] = Idle] /\ Idle \in Request /\ events' = events
    BY <1>8, IdleIsRequest DEF Answer, RequestFails, ClientIsClosed
  <2>2. Backed(Idle)'
    BY DEF Backed, Idle
  <2>3. CASE ok' = ok
    BY <2>1, <2>2, <2>3, SaidOfOne
  <2>4. CASE ok' # ok
    <3> DEFINE d == [kind |-> req[h].kind, id |-> req[h].id, subject |-> req[h].subject,
                     excused |-> outage \/ late]
    <3>1. req[h].at = "answer" /\ req[h].kind # "profile" /\ ok' = ok \cup {d}
      BY <1>8, <2>4 DEF Answer, RequestFails, ClientIsClosed, At
    <3>2. Truth(req[h])
      BY <3>1 DEF SaidInv, Backed
    <3>3. d.kind = req[h].kind /\ d.subject = req[h].subject
      OBVIOUS
    <3> HIDE DEF d
    <3>4. Truth(d)
      BY <3>2, <3>3 DEF Truth
    <3>5. ASSUME NEW x \in ok', x \notin ok
          PROVE  Truth(x)'
      BY <3>1, <3>4, <3>5, StepTruth
    <3> QED
      BY <2>1, <2>2, <3>5, SaidOfOne
  <2> QED
    BY <2>3, <2>4
<1> QED
  BY <1>3, <1>4, <1>5, <1>6, <1>7, <1>8, Beginning DEF Next, Operates

------------------------------------------------------------------------------
(***************************************************************************)
(* The theorems.                                                           *)
(***************************************************************************)
ServerInv == TypeInv /\ MainInv /\ AnswersInv /\ FreshInv /\ ClosedInv /\ SaidInv

LEMMA InitServer ==
  ASSUME Init
  PROVE  ServerInv
<1>1. TypeInv
  BY InitTypes
<1>2. \A h \in Handlers : req[h].at = "idle" /\ req[h].kind = "profile"
  BY DEF Init, Idle
<1>3. /\ users = {} /\ ended = {} /\ events = {} /\ ok = {} /\ cut = FALSE
      /\ stage = "off" /\ listening = FALSE
  BY DEF Init
<1>4. MainInv
  BY <1>2, <1>3 DEF MainInv, NoneBusy, At
<1>5. AnswersInv
  BY <1>2, <1>3 DEF AnswersInv, Accounted, EventsLostOnlyInOutage
<1>6. FreshInv
  BY <1>2, <1>3 DEF FreshInv, Numbered, Apart, Making
<1>7. ClosedInv /\ SaidInv
  BY <1>2, <1>3 DEF ClosedInv, SaidInv, Backed
<1> QED
  BY <1>1, <1>4, <1>5, <1>6, <1>7 DEF ServerInv

\* The inductive invariant.
THEOREM ServerInvariant == Spec => []ServerInv
<1>1. Init => ServerInv
  BY InitServer
<1>2. ServerInv /\ [Next]_vars => ServerInv'
  BY StepTypes, StepMain, StepAnswers, StepFresh, StepClosed, StepSaid DEF ServerInv
<1> QED
  BY <1>1, <1>2, PTL DEF Spec

\* Whatever an event or an answer of the user service says is in the database, through
\* crashes, restarts, expiry and overlapping requests: users, the tokens of sessions that
\* were not logged out, and none of those that were, but for a refresh under way at the
\* logout (user.go:52-174, refresh_token.go:47-109).
THEOREM DatabaseIsAhead == Spec => []NothingAheadOfDatabase
<1>1. ServerInv => NothingAheadOfDatabase
  <2> SUFFICES ASSUME ServerInv,
                      NEW x \in events \cup {[kind |-> d.kind, subject |-> d.subject] : d \in ok}
               PROVE  /\ x.kind = "register" => \E u \in users : u.id = x.subject
                      /\ IF x.kind = "logout"
                         THEN TokensOf(x.subject) = {} \/ x.subject \in raced
                         ELSE \/ TokensOf(x.subject) # {}
                              \/ x.subject \in ended \cup lapsed \cup Halfway(Handlers)
    BY DEF NothingAheadOfDatabase
  <2>1. Truth(x)
    <3>1. CASE x \in events
      BY <3>1 DEF ServerInv, SaidInv
    <3>2. ASSUME NEW d \in ok, x = [kind |-> d.kind, subject |-> d.subject]
          PROVE  Truth(x)
      <4>1. Truth(d) /\ x.kind = d.kind /\ x.subject = d.subject
        BY <3>2 DEF ServerInv, SaidInv
      <4> QED
        BY <4>1 DEF Truth
    <3> QED
      BY <3>1, <3>2
  <2>2. x.kind = "logout" => TokensOf(x.subject) = {} \/ x.subject \in raced
    BY <2>1 DEF Truth, ServerInv, ClosedInv
  <2> QED
    BY <2>1, <2>2 DEF Truth, Has, Kept
<1> QED
  BY <1>1, ServerInvariant, PTL

\* The events of what clients are told are lost only when by then the life had no RabbitMQ,
\* had lost it, or was not drained in time (rabbitmq.go:84-143, main.go:81-91).
THEOREM EventsLost == Spec => []EventsLostOnlyInOutage
<1>1. ServerInv => EventsLostOnlyInOutage
  BY DEF ServerInv, AnswersInv
<1> QED
  BY <1>1, ServerInvariant, PTL

\* A shutdown that drains in time cuts off no request (main.go:157-172).
THEOREM ShutdownDrains == Spec => []ShutdownCutsNone
<1>1. ServerInv => ShutdownCutsNone
  BY DEF ServerInv, MainInv, ShutdownCutsNone
<1> QED
  BY <1>1, ServerInvariant, PTL
==============================================================================
