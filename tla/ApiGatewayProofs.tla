--------------------------- MODULE ApiGatewayProofs ---------------------------
(***************************************************************************)
(* Theorems about the API gateway, for every set of configurations and     *)
(* paths: the file that is written fits itself, the auth adapter loads     *)
(* what the generator accepts, and a request goes where its path says and  *)
(* is judged by what the file says of it.                                  *)
(***************************************************************************)
EXTENDS ApiGateway, FiniteSetTheorems, SequenceTheorems, TLAPS

------------------------------------------------------------------------------
(***************************************************************************)
(* The types of a configuration.                                           *)
(***************************************************************************)
LEMMA PlaceTypes ==
  ASSUME NEW c \in APIConf, NEW p \in Places(c)
  PROVE  /\ p[1] \in DOMAIN c.apis /\ p[2] \in Nat \ {0}
         /\ p \in Nat \X Nat /\ p = <<p[1], p[2]>>
         /\ ApiAt(c, p) \in API
<1>1. c.apis \in Seq(API)
  BY DEF APIConf
<1>2. PICK i \in DOMAIN c.apis : p \in {i} \X (1 .. Len(c.apis[i].methods) + 1)
  BY DEF Places
<1>3. i \in Nat /\ c.apis[i] \in API
  BY <1>1, <1>2
<1>4. c.apis[i].methods \in Seq(Method)
  BY <1>3 DEF API
<1>5. p[1] = i /\ p[2] \in 1 .. Len(c.apis[i].methods) + 1 /\ p = <<p[1], p[2]>>
  BY <1>2
<1>6. p[2] \in Nat \ {0}
  BY <1>4, <1>5
<1> QED
  BY <1>2, <1>3, <1>5, <1>6 DEF ApiAt

LEMMA MethodTypes ==
  ASSUME NEW c \in APIConf, NEW p \in MethodPlaces(c)
  PROVE  /\ p \in Places(c) /\ p[2] \in DOMAIN ApiAt(c, p).methods
         /\ MethodAt(c, p) \in Method
<1>1. p \in Places(c) /\ p[2] <= Len(ApiAt(c, p).methods)
  BY DEF MethodPlaces, IsMethod, ApiAt
<1>2. ApiAt(c, p) \in API /\ p[2] \in Nat \ {0}
  BY <1>1, PlaceTypes
<1>3. ApiAt(c, p).methods \in Seq(Method)
  BY <1>2 DEF API
<1>4. p[2] \in DOMAIN ApiAt(c, p).methods
  BY <1>1, <1>2, <1>3
<1>5. MethodAt(c, p) \in Method
  BY <1>3, <1>4 DEF MethodAt, ApiAt
<1> QED
  BY <1>1, <1>4, <1>5

\* What a name is made of.
Pieces == STRING \cup {"/"}

LEMMA Names ==
  ASSUME NEW c \in APIConf, NEW p \in Places(c)
  PROVE  /\ c.route \in Seq(Pieces) /\ Slash \in Seq(Pieces)
         /\ ApiAt(c, p).name \in Seq(Pieces)
         /\ p \in MethodPlaces(c) => MethodAt(c, p).name \in Seq(Pieces)
         /\ p \in MethodPlaces(c) => FullMethod(c, p) \in Seq(Pieces)
<1>1. Seq(STRING) \subseteq Seq(Pieces)
  BY SeqMonotonic DEF Pieces
<1>2. Slash \in Seq(Pieces)
  BY DEF Slash, Pieces
<1>3. c.route \in Seq(Pieces)
  BY <1>1 DEF APIConf, Name
<1>4. ApiAt(c, p).name \in Seq(Pieces)
  <2>1. ApiAt(c, p) \in API
    BY PlaceTypes
  <2> QED
    BY <1>1, <2>1 DEF API, Name
<1>5. ASSUME p \in MethodPlaces(c)
      PROVE  MethodAt(c, p).name \in Seq(Pieces) /\ FullMethod(c, p) \in Seq(Pieces)
  <2>1. MethodAt(c, p) \in Method
    BY <1>5, MethodTypes
  <2>2. MethodAt(c, p).name \in Seq(Pieces)
    BY <1>1, <2>1 DEF Method, Name
  <2> QED
    BY <1>2, <1>4, <2>2 DEF FullMethod
<1> QED
  BY <1>2, <1>3, <1>4, <1>5

------------------------------------------------------------------------------
(***************************************************************************)
(* What Validate changes, and what it leaves.                              *)
(***************************************************************************)
LEMMA FilledHealthIsPositive ==
  ASSUME NEW h \in Health \cup {NoSection}
  PROVE  /\ FilledHealth(h) \in Health \cup {NoSection}
         /\ FilledHealth(h) # NoSection =>
              /\ h # NoSection /\ FilledHealth(h).path = h.path
              /\ \A n \in DOMAIN FilledHealth(h).numbers : FilledHealth(h).numbers[n] > 0
<1>1. CASE h = NoSection
  BY <1>1 DEF FilledHealth
<1>2. CASE h # NoSection
  <2>1. h \in Health /\ h.numbers \in [DOMAIN HealthDefaults -> Int]
    BY <1>2 DEF Health
  <2> DEFINE numbers == Fill(h.numbers, HealthDefaults)
  <2>2. \A n \in DOMAIN HealthDefaults : HealthDefaults[n] \in Nat /\ HealthDefaults[n] > 0
    BY DEF HealthDefaults
  <2>3. numbers \in [DOMAIN HealthDefaults -> Int] /\ \A n \in DOMAIN numbers : numbers[n] > 0
    BY <2>1, <2>2 DEF Fill
  <2>4. FilledHealth(h) = [h EXCEPT !.numbers = numbers]
    BY <1>2 DEF FilledHealth
  <2> HIDE DEF numbers
  <2>5. /\ FilledHealth(h) \in Health /\ FilledHealth(h).path = h.path
        /\ FilledHealth(h).numbers = numbers
    BY <2>1, <2>3, <2>4 DEF Health
  <2> QED
    BY <1>2, <2>3, <2>5
<1> QED
  BY <1>1, <1>2

LEMMA FilledBreakerIsPositive ==
  ASSUME NEW b \in Breaker \cup {NoSection}
  PROVE  /\ FilledBreaker(b) \in Breaker \cup {NoSection}
         /\ FilledBreaker(b) # NoSection =>
              \A n \in DOMAIN FilledBreaker(b) : FilledBreaker(b)[n] > 0
<1>1. CASE b = NoSection
  BY <1>1 DEF FilledBreaker
<1>2. CASE b # NoSection
  <2>1. b \in [DOMAIN BreakerDefaults -> Int]
    BY <1>2 DEF Breaker
  <2>2. \A n \in DOMAIN BreakerDefaults : BreakerDefaults[n] \in Nat /\ BreakerDefaults[n] > 0
    BY DEF BreakerDefaults
  <2>3. FilledBreaker(b) = Fill(b, BreakerDefaults)
    BY <1>2 DEF FilledBreaker
  <2>4. /\ Fill(b, BreakerDefaults) \in [DOMAIN BreakerDefaults -> Int]
        /\ \A n \in DOMAIN Fill(b, BreakerDefaults) : Fill(b, BreakerDefaults)[n] > 0
    BY <2>1, <2>2 DEF Fill
  <2> QED
    BY <2>3, <2>4 DEF Breaker
<1> QED
  BY <1>1, <1>2

\* The defaults of a cluster's numbers leave everything else of it alone.
LEMMA DefaultsOfCluster ==
  ASSUME NEW cl \in ClusterConf
  PROVE  /\ WithDefaults(cl) \in ClusterConf
         /\ WithDefaults(cl).name = cl.name
         /\ ValidCluster(cl) => ValidCluster(WithDefaults(cl))
         /\ NumbersArePositive(WithDefaults(cl))
<1> DEFINE h == FilledHealth(cl.health)
           b == FilledBreaker(cl.breaker)
           d == WithDefaults(cl)
<1>1. cl.health \in Health \cup {NoSection} /\ cl.breaker \in Breaker \cup {NoSection}
  BY DEF ClusterConf
<1>2. /\ h \in Health \cup {NoSection}
      /\ h # NoSection => /\ cl.health # NoSection /\ h.path = cl.health.path
                          /\ \A n \in DOMAIN h.numbers : h.numbers[n] > 0
  BY <1>1, FilledHealthIsPositive
<1>3. /\ b \in Breaker \cup {NoSection}
      /\ b # NoSection => \A n \in DOMAIN b : b[n] > 0
  BY <1>1, FilledBreakerIsPositive
<1>4. d = [cl EXCEPT !.health = h, !.breaker = b]
  BY DEF WithDefaults
<1> HIDE DEF h, b, d
<1>5. /\ d \in ClusterConf /\ d.name = cl.name /\ d.addr = cl.addr /\ d.type = cl.type
      /\ d.health = h /\ d.breaker = b
  BY <1>2, <1>3, <1>4 DEF ClusterConf
<1>6. ValidCluster(cl) => ValidCluster(d)
  BY <1>2, <1>5 DEF ValidCluster
<1>7. NumbersArePositive(d)
  BY <1>2, <1>3, <1>5 DEF NumbersArePositive
<1> QED
  BY <1>5, <1>6, <1>7 DEF d

\* What is read from the APIs of a configuration is the same for two with the same APIs.
LEMMA SameApis ==
  ASSUME NEW c, NEW d, d.apis = c.apis
  PROVE  /\ Places(d) = Places(c) /\ MethodPlaces(d) = MethodPlaces(c)
         /\ IndexPlaces(d) = IndexPlaces(c)
         /\ \A p : /\ ApiAt(d, p) = ApiAt(c, p) /\ MethodAt(d, p) = MethodAt(c, p)
                   /\ FullMethod(d, p) = FullMethod(c, p) /\ Key(d, p) = Key(c, p)
                   /\ AuthAt(d, p) = AuthAt(c, p)
<1>1. Places(d) = Places(c)
  BY DEF Places
<1>2. \A p : IsMethod(d, p) <=> IsMethod(c, p)
  BY DEF IsMethod
<1>3. MethodPlaces(d) = MethodPlaces(c)
  BY <1>1, <1>2 DEF MethodPlaces
<1>4. \A p : ApiAt(d, p) = ApiAt(c, p) /\ MethodAt(d, p) = MethodAt(c, p)
  BY DEF ApiAt, MethodAt
<1>5. \A p : FullMethod(d, p) = FullMethod(c, p)
  BY <1>4 DEF FullMethod
<1>6. \A p : Key(d, p) = Key(c, p) /\ AuthAt(d, p) = AuthAt(c, p)
  BY <1>4, <1>5 DEF Key, AuthAt
<1>7. IndexPlaces(d) = IndexPlaces(c)
  BY <1>3, <1>4 DEF IndexPlaces
<1> QED
  BY <1>1, <1>3, <1>4, <1>5, <1>6, <1>7

LEMMA SameApisLoadable ==
  ASSUME NEW c, NEW d, d.apis = c.apis
  PROVE  Loadable(d) <=> Loadable(c)
<1>1. /\ IndexPlaces(d) = IndexPlaces(c) /\ MethodPlaces(d) = MethodPlaces(c)
      /\ \A p : /\ FullMethod(d, p) = FullMethod(c, p) /\ Key(d, p) = Key(c, p)
                /\ AuthAt(d, p) = AuthAt(c, p)
  BY SameApis
<1> QED
  BY <1>1 DEF Loadable

Positive(c) == \A k \in DOMAIN c.clusters : NumbersArePositive(c.clusters[k])

LEMMA DefaultsOfConfig ==
  ASSUME NEW c \in APIConf
  PROVE  /\ Defaulted(c) \in APIConf /\ Defaulted(c).apis = c.apis
         /\ Accepted(c) => Accepted(Defaulted(c))
         /\ Positive(Defaulted(c))
<1> DEFINE d == Defaulted(c)
           clusters == [i \in DOMAIN c.clusters |-> WithDefaults(c.clusters[i])]
<1>1. c.clusters \in Seq(ClusterConf)
  BY DEF APIConf
<1>2. \A i \in DOMAIN c.clusters : c.clusters[i] \in ClusterConf
  BY <1>1
<1>3. \A i \in DOMAIN c.clusters :
        /\ WithDefaults(c.clusters[i]) \in ClusterConf
        /\ WithDefaults(c.clusters[i]).name = c.clusters[i].name
        /\ ValidCluster(c.clusters[i]) => ValidCluster(WithDefaults(c.clusters[i]))
        /\ NumbersArePositive(WithDefaults(c.clusters[i]))
  BY <1>2, DefaultsOfCluster
<1>4. DOMAIN c.clusters = 1 .. Len(c.clusters) /\ Len(c.clusters) \in Nat
  BY <1>1
<1>5. clusters \in Seq(ClusterConf)
  BY <1>3, <1>4
<1>6. /\ DOMAIN clusters = DOMAIN c.clusters
      /\ \A i \in DOMAIN clusters :
           /\ clusters[i].name = c.clusters[i].name
           /\ ValidCluster(c.clusters[i]) => ValidCluster(clusters[i])
           /\ NumbersArePositive(clusters[i])
  BY <1>3
<1>7. d = [c EXCEPT !.clusters = clusters]
  BY DEF Defaulted
<1> HIDE DEF clusters, d
<1>8. d \in APIConf /\ d.clusters = clusters /\ d.apis = c.apis /\ d.route = c.route
  BY <1>5, <1>7 DEF APIConf
<1>9. Positive(d)
  BY <1>6, <1>8 DEF Positive
<1>10. ASSUME Accepted(c) PROVE Accepted(d)
  <2>1. /\ MethodPlaces(d) = MethodPlaces(c)
        /\ \A p : MethodAt(d, p) = MethodAt(c, p) /\ FullMethod(d, p) = FullMethod(c, p)
    BY <1>8, SameApis
  <2>2. UniqueMethods(d) /\ \A p \in MethodPlaces(d) : ValidAuth(MethodAt(d, p).auth)
    BY <1>10, <2>1 DEF Accepted, UniqueMethods
  <2>3. /\ \A i, j \in DOMAIN d.clusters : d.clusters[i].name = d.clusters[j].name => i = j
        /\ \A i \in DOMAIN d.clusters : ValidCluster(d.clusters[i])
    BY <1>6, <1>8, <1>10 DEF Accepted
  <2>4. \A i \in DOMAIN d.apis :
          /\ \E k \in DOMAIN d.clusters : d.clusters[k].name = d.apis[i].cluster
          /\ ValidAuth(d.apis[i].auth)
    BY <1>6, <1>8, <1>10 DEF Accepted
  <2> QED
    BY <1>8, <1>10, <2>2, <2>3, <2>4 DEF Accepted
<1> QED
  BY <1>8, <1>9, <1>10 DEF d

------------------------------------------------------------------------------
(***************************************************************************)
(* The inductive invariant: how far the container is tells what the        *)
(* configuration and the file are, and a request that was routed has the   *)
(* first route that fits its path.                                         *)
(***************************************************************************)
Usable(c) == Accepted(c) /\ Positive(c)

FileInv ==
  /\ config \in APIConf
  /\ gateway \in {"start", "loaded"} => file = NoFile
  /\ gateway \in {"valid", "written", "up"} \/ Written => Usable(config)
  /\ gateway \in {"written", "up"} \/ Written => file = Generated(config)
  /\ adapter = "failed" => ~Loadable(config)

First(path, p) == p \in Fitting(path) /\ \A q \in Fitting(path) : q = p \/ Before(p, q)

RequestInv ==
  /\ request = [at |-> request.at, path |-> request.path, route |-> request.route,
                auth |-> request.auth, sent |-> request.sent]
  /\ request.at # "none" => gateway = "up"
  /\ request.path \in Paths \cup {<<>>}
  /\ request.at \in {"routed", "judged", "sent"} => request.route # NoRoute
  /\ request.route # NoRoute => request.at # "none" /\ First(request.path, request.route)
  /\ request.at = "sent" => request.sent = Route.rewrite \o Rest(request.path, Route.prefix)

GatewayInv == FileInv /\ RequestInv

LEMMA GatewayInit == Init => GatewayInv
<1> SUFFICES ASSUME Init PROVE GatewayInv
  OBVIOUS
<1>1. config \in APIConf /\ gateway = "start" /\ file = NoFile /\ adapter = "start"
  BY GatewayAssumption DEF Init
<1>2. FileInv
  BY <1>1 DEF FileInv, Written
<1>3. request = NoRequest
  BY DEF Init
<1>4. /\ request.at = "none" /\ request.path = <<>> /\ request.route = NoRoute
      /\ request = [at |-> request.at, path |-> request.path, route |-> request.route,
                    auth |-> request.auth, sent |-> request.sent]
  BY <1>3 DEF NoRequest
<1> QED
  BY <1>2, <1>4 DEF GatewayInv, RequestInv

\* The file and what it was made of.
LEMMA FileStep == FileInv /\ [Next]_vars => FileInv'
<1> SUFFICES ASSUME FileInv, [Next]_vars PROVE FileInv'
  OBVIOUS
<1> USE DEF FileInv, Written
<1>1. CASE LoadConfig
  BY <1>1 DEF LoadConfig
<1>2. CASE Validate
  <2>1. CASE Accepted(config) /\ gateway' = "valid" /\ config' = Defaulted(config)
    <3>1. /\ config' \in APIConf /\ Usable(config') /\ config'.apis = config.apis
      BY <2>1, DefaultsOfConfig DEF Usable
    <3>2. Loadable(config') <=> Loadable(config)
      BY <3>1, SameApisLoadable
    <3>3. file = NoFile /\ file' = file /\ adapter' = adapter
      BY <1>2 DEF Validate
    <3> QED
      BY <2>1, <3>1, <3>2, <3>3
  <2>2. CASE gateway' = "failed" /\ config' = config
    BY <1>2, <2>2 DEF Validate
  <2> QED
    BY <1>2, <2>1, <2>2 DEF Validate
<1>3. CASE GenerateEnvoyConfig
  <2>1. CASE gateway' = "written" /\ file' = Generated(config)
    BY <1>3, <2>1 DEF GenerateEnvoyConfig
  <2>2. CASE gateway' = "failed" /\ file' = file
    BY <1>3, <2>2 DEF GenerateEnvoyConfig
  <2> QED
    BY <1>3, <2>1, <2>2 DEF GenerateEnvoyConfig
<1>4. CASE EnvoyStarts
  <2>1. gateway = "written" /\ gateway' \in {"up", "failed"}
    BY <1>4 DEF EnvoyStarts
  <2>2. UNCHANGED <<config, file, adapter>>
    BY <1>4 DEF EnvoyStarts
  <2> QED
    BY <2>1, <2>2
<1>5. CASE AdapterStarts
  <2>1. UNCHANGED <<config, gateway, file>>
    BY <1>5 DEF AdapterStarts
  <2>2. adapter' = "failed" => ~Loadable(config)
    BY <1>5 DEF AdapterStarts
  <2> QED
    BY <2>1, <2>2
<1>6. ASSUME UNCHANGED <<config, gateway, file, adapter>> PROVE FileInv'
  BY <1>6
<1>7. ASSUME NEW path \in Paths, Arrive(path) \/ NotFound(path) PROVE FileInv'
  BY <1>6, <1>7 DEF Arrive, NotFound
<1>8. CASE OverLimit \/ Check \/ Unauthorized \/ Forward \/ Answered
  BY <1>6, <1>8 DEF OverLimit, Check, Unauthorized, Forward, Answered
<1>9. CASE UNCHANGED vars
  BY <1>6, <1>9 DEF vars
<1> QED
  BY <1>1, <1>2, <1>3, <1>4, <1>5, <1>7, <1>8, <1>9 DEF Next

\* The file and the container stay while a request is under way.
LEMMA ServingStays ==
  GatewayInv /\ [Next]_vars /\ request' = request => RequestInv'
<1> SUFFICES ASSUME GatewayInv, [Next]_vars, request' = request PROVE RequestInv'
  OBVIOUS
<1>1. CASE UNCHANGED <<gateway, file>>
  <2>1. \A path, p : First(path, p)' <=> First(path, p)
    BY <1>1 DEF First, Fitting
  <2>2. Route' = Route
    BY <1>1 DEF Route
  <2> QED
    BY <1>1, <2>1, <2>2 DEF GatewayInv, RequestInv
<1>2. CASE gateway # "up"
  BY <1>2 DEF GatewayInv, RequestInv
<1>3. CASE gateway = "up" /\ ~UNCHANGED <<gateway, file>>
  BY <1>3 DEF Next, vars, LoadConfig, Validate, GenerateEnvoyConfig, EnvoyStarts, AdapterStarts,
              Arrive, NotFound, OverLimit, Check, Unauthorized, Forward, Answered
<1> QED
  BY <1>1, <1>2, <1>3

\* The places of routes, and NoRoute is none of them.
LEMMA RoutePlaces ==
  ASSUME FileInv, gateway = "up" \/ Written
  PROVE  /\ file = Generated(config) /\ Usable(config) /\ config \in APIConf
         /\ DOMAIN file.routes = Places(config)
         /\ \A p \in Places(config) : p # NoRoute /\ p \in Nat \X Nat
         /\ \A p \in Places(config) :
              file.routes[p] = IF IsMethod(config, p) THEN MethodRoute(config, p)
                               ELSE ApiRoute(config, p)
<1>1. file = Generated(config) /\ Usable(config) /\ config \in APIConf
  BY DEF FileInv
<1>2. file.routes = Routes(config)
  BY <1>1 DEF Generated
<1>3. \A p \in Places(config) : p # NoRoute /\ p \in Nat \X Nat
  BY <1>1, PlaceTypes, GatewayAssumption
<1> QED
  BY <1>1, <1>2, <1>3 DEF Routes

LEMMA ArriveStep ==
  ASSUME GatewayInv, NEW path \in Paths, Arrive(path)
  PROVE  RequestInv'
<1>1. PICK p \in Fitting(path) :
        /\ \A q \in Fitting(path) : q = p \/ Before(p, q)
        /\ request' = [NoRequest EXCEPT !.at = "routed", !.path = path, !.route = p]
  BY DEF Arrive
<1>2. gateway' = "up" /\ UNCHANGED <<file, gateway>> /\ gateway = "up"
  BY DEF Arrive
<1>3. p # NoRoute
  BY <1>1, <1>2, RoutePlaces DEF GatewayInv, Fitting
<1>4. First(path, p)
  BY <1>1 DEF First
<1>5. First(path, p)'
  BY <1>2, <1>4 DEF First, Fitting
<1>6. /\ request'.at = "routed" /\ request'.path = path /\ request'.route = p
      /\ request' = [at |-> request'.at, path |-> request'.path, route |-> request'.route,
                     auth |-> request'.auth, sent |-> request'.sent]
  BY <1>1 DEF NoRequest
<1> QED
  BY <1>2, <1>3, <1>5, <1>6 DEF RequestInv

\* A step that only moves a routed request on.
LEMMA MovesOn ==
  ASSUME GatewayInv, UNCHANGED <<gateway, file>>, request.route # NoRoute,
         request'.path = request.path, request'.route = request.route, request'.at # "none",
         request' = [at |-> request'.at, path |-> request'.path, route |-> request'.route,
                     auth |-> request'.auth, sent |-> request'.sent],
         request'.at = "sent" =>
           request'.sent = Route.rewrite \o Rest(request.path, Route.prefix)
  PROVE  RequestInv'
<1>1. First(request.path, request.route) /\ gateway = "up" /\ request.path \in Paths \cup {<<>>}
  BY DEF GatewayInv, RequestInv
<1>2. First(request.path, request.route)'
  BY <1>1 DEF First, Fitting
<1>3. Route' = Route
  BY DEF Route
<1> QED
  BY <1>1, <1>2, <1>3 DEF RequestInv

LEMMA RequestStep == GatewayInv /\ [Next]_vars => RequestInv'
<1> SUFFICES ASSUME GatewayInv, [Next]_vars PROVE RequestInv'
  OBVIOUS
<1>1. CASE LoadConfig \/ Validate \/ GenerateEnvoyConfig \/ EnvoyStarts \/ AdapterStarts
           \/ UNCHANGED vars
  <2>1. request' = request
    BY <1>1 DEF LoadConfig, Validate, GenerateEnvoyConfig, EnvoyStarts, AdapterStarts, vars
  <2> QED
    BY <2>1, ServingStays
<1>2. ASSUME NEW path \in Paths, Arrive(path) PROVE RequestInv'
  BY <1>2, ArriveStep
<1>3. ASSUME NEW path \in Paths, NotFound(path) PROVE RequestInv'
  <2>1. request' = [NoRequest EXCEPT !.at = "refused", !.path = path] /\ gateway' = "up"
    BY <1>3 DEF NotFound
  <2>2. /\ request'.at = "refused" /\ request'.path = path /\ request'.route = NoRoute
        /\ request' = [at |-> request'.at, path |-> request'.path, route |-> request'.route,
                       auth |-> request'.auth, sent |-> request'.sent]
    BY <2>1 DEF NoRequest
  <2> QED
    BY <2>1, <2>2 DEF RequestInv
<1>4. CASE OverLimit
  <2>1. request' = [request EXCEPT !.at = "refused"] /\ UNCHANGED <<gateway, file>>
    BY <1>4 DEF OverLimit
  <2>2. request.route # NoRoute
    BY <1>4 DEF OverLimit, GatewayInv, RequestInv
  <2>3. /\ request'.at = "refused" /\ request'.path = request.path
        /\ request'.route = request.route
        /\ request' = [at |-> request'.at, path |-> request'.path, route |-> request'.route,
                       auth |-> request'.auth, sent |-> request'.sent]
    BY <2>1 DEF GatewayInv, RequestInv
  <2> QED
    BY <2>1, <2>2, <2>3, MovesOn
<1>5. CASE Check
  <2> DEFINE auth == IF adapter = "up" /\ Parsed(request.path)
                     THEN Requested(request.path) ELSE NoAuth
             at == IF auth = NoAuth THEN "refused" ELSE "judged"
  <2>1. request' = [request EXCEPT !.at = at, !.auth = auth]
    BY <1>5 DEF Check
  <2> at \in {"refused", "judged"}
    OBVIOUS
  <2> HIDE DEF auth, at
  <2>2. request.route # NoRoute /\ UNCHANGED <<gateway, file>>
    BY <1>5 DEF Check, GatewayInv, RequestInv
  <2>3. /\ request'.at = at /\ request'.path = request.path
        /\ request'.route = request.route
        /\ request' = [at |-> request'.at, path |-> request'.path, route |-> request'.route,
                       auth |-> request'.auth, sent |-> request'.sent]
    BY <2>1 DEF GatewayInv, RequestInv
  <2> QED
    BY <2>1, <2>2, <2>3, MovesOn
<1>6. CASE Unauthorized
  <2>1. request' = [request EXCEPT !.at = "refused"] /\ UNCHANGED <<gateway, file>>
    BY <1>6 DEF Unauthorized
  <2>2. request.route # NoRoute
    BY <1>6 DEF Unauthorized, GatewayInv, RequestInv
  <2>3. /\ request'.at = "refused" /\ request'.path = request.path
        /\ request'.route = request.route
        /\ request' = [at |-> request'.at, path |-> request'.path, route |-> request'.route,
                       auth |-> request'.auth, sent |-> request'.sent]
    BY <2>1 DEF GatewayInv, RequestInv
  <2> QED
    BY <2>1, <2>2, <2>3, MovesOn
<1>7. CASE Forward
  <2>1. PICK sent : /\ sent = Route.rewrite \o Rest(request.path, Route.prefix)
                    /\ request' = [request EXCEPT !.at = "sent", !.sent = sent]
    BY <1>7 DEF Forward
  <2>2. request.route # NoRoute /\ UNCHANGED <<gateway, file>>
    BY <1>7 DEF Forward, GatewayInv, RequestInv
  <2>3. /\ request'.at = "sent" /\ request'.path = request.path /\ request'.sent = sent
        /\ request'.route = request.route
        /\ request' = [at |-> request'.at, path |-> request'.path, route |-> request'.route,
                       auth |-> request'.auth, sent |-> request'.sent]
    BY <2>1 DEF GatewayInv, RequestInv
  <2> QED
    BY <2>1, <2>2, <2>3, MovesOn
<1>8. CASE Answered
  <2>1. request' = NoRequest
    BY <1>8 DEF Answered
  <2>2. /\ request'.at = "none" /\ request'.path = <<>> /\ request'.route = NoRoute
        /\ request' = [at |-> request'.at, path |-> request'.path, route |-> request'.route,
                       auth |-> request'.auth, sent |-> request'.sent]
    BY <2>1 DEF NoRequest
  <2> QED
    BY <2>2 DEF RequestInv
<1> QED
  BY <1>1, <1>2, <1>3, <1>4, <1>5, <1>6, <1>7, <1>8 DEF Next

\* GatewayInv holds in every reachable state.
THEOREM GatewayInvariant == Spec => []GatewayInv
<1>1. Init => GatewayInv
  BY GatewayInit
<1>2. GatewayInv /\ [Next]_vars => GatewayInv'
  BY FileStep, RequestStep DEF GatewayInv
<1> QED
  BY <1>1, <1>2, PTL DEF Spec

------------------------------------------------------------------------------
(***************************************************************************)
(* The file.                                                               *)
(***************************************************************************)
\* The cluster of an API is the only one with its name.
LEMMA ClusterOfApi ==
  ASSUME NEW c \in APIConf, Accepted(c), NEW p \in Places(c)
  PROVE  \E k \in DOMAIN c.clusters :
           /\ ClusterOf(c, ApiAt(c, p)) = c.clusters[k]
           /\ c.clusters[k].name = ApiAt(c, p).cluster
           /\ \A i \in DOMAIN c.clusters : c.clusters[i].name = ApiAt(c, p).cluster => i = k
<1> DEFINE k == CHOOSE n \in DOMAIN c.clusters : c.clusters[n].name = ApiAt(c, p).cluster
<1>1. \E n \in DOMAIN c.clusters : c.clusters[n].name = ApiAt(c, p).cluster
  BY PlaceTypes DEF Accepted, ApiAt
<1>2. k \in DOMAIN c.clusters /\ c.clusters[k].name = ApiAt(c, p).cluster
  BY <1>1
<1>3. ClusterOf(c, ApiAt(c, p)) = c.clusters[k]
  BY DEF ClusterOf
<1> HIDE DEF k
<1>4. \A i \in DOMAIN c.clusters : c.clusters[i].name = ApiAt(c, p).cluster => i = k
  BY <1>2 DEF Accepted
<1> QED
  BY <1>2, <1>3, <1>4

\* A route fits the cluster of its API.
LEMMA RouteFits ==
  ASSUME NEW c, NEW p, NEW up, up = Upstream(ClusterOf(c, ApiAt(c, p))),
         up.name = ApiAt(c, p).cluster
  PROVE  Fits(IF IsMethod(c, p) THEN MethodRoute(c, p) ELSE ApiRoute(c, p), up)
<1> DEFINE cl == ClusterOf(c, ApiAt(c, p))
<1>1. \A name, rewrite, bucket :
        /\ RouteTo(c, p, name, rewrite, bucket).cluster = ApiAt(c, p).cluster
        /\ RouteTo(c, p, name, rewrite, bucket).http = IsHTTP(cl)
        /\ RouteTo(c, p, name, rewrite, bucket).host = HostRewrite(cl)
  BY DEF RouteTo
<1>2. up.http = IsHTTP(cl) /\ up.sni = HostRewrite(cl)
  BY DEF Upstream, HostRewrite
<1>3. \A name, rewrite, bucket : Fits(RouteTo(c, p, name, rewrite, bucket), up)
  BY <1>1, <1>2 DEF Fits
<1>4. Fits(MethodRoute(c, p), up) /\ Fits(ApiRoute(c, p), up)
  BY <1>3 DEF MethodRoute, ApiRoute
<1> QED
  BY <1>4

LEMMA GeneratedIsUsable ==
  ASSUME NEW c \in APIConf, Usable(c)
  PROVE  /\ RoutesFitClusters(Generated(c))
         /\ \A k \in DOMAIN Generated(c).clusters :
              NumbersArePositive(Generated(c).clusters[k])
<1> DEFINE f == Generated(c)
<1>1. /\ DOMAIN f.routes = Places(c)
      /\ \A p \in Places(c) :
           f.routes[p] = IF IsMethod(c, p) THEN MethodRoute(c, p) ELSE ApiRoute(c, p)
  BY DEF Generated, Routes
<1>2. /\ DOMAIN f.clusters = DOMAIN c.clusters
      /\ \A k \in DOMAIN c.clusters :
           f.clusters[k] = Upstream(c.clusters[k])
  BY DEF Generated
<1> HIDE DEF f
<1>3. \A k \in DOMAIN c.clusters :
        /\ f.clusters[k].name = c.clusters[k].name
        /\ f.clusters[k].health = c.clusters[k].health
        /\ f.clusters[k].breaker = c.clusters[k].breaker
  <2>1. \A cl : /\ Upstream(cl).name = cl.name /\ Upstream(cl).health = cl.health
               /\ Upstream(cl).breaker = cl.breaker
    BY DEF Upstream
  <2> QED
    BY <1>2, <2>1
<1>4. ASSUME NEW p \in Places(c)
      PROVE  \E k \in DOMAIN f.clusters :
               /\ Fits(f.routes[p], f.clusters[k])
               /\ \A i \in DOMAIN f.clusters : f.clusters[i].name = f.routes[p].cluster => i = k
  <2>1. PICK k \in DOMAIN c.clusters :
          /\ ClusterOf(c, ApiAt(c, p)) = c.clusters[k]
          /\ c.clusters[k].name = ApiAt(c, p).cluster
          /\ \A i \in DOMAIN c.clusters : c.clusters[i].name = ApiAt(c, p).cluster => i = k
    BY ClusterOfApi DEF Usable
  <2>2. Fits(f.routes[p], f.clusters[k])
    BY <1>1, <1>2, <1>3, <2>1, RouteFits
  <2>3. f.routes[p].cluster = ApiAt(c, p).cluster
    BY <1>3, <2>1, <2>2 DEF Fits
  <2> QED
    BY <1>2, <1>3, <2>1, <2>2, <2>3
<1>5. RoutesFitClusters(f)
  BY <1>1, <1>4 DEF RoutesFitClusters
<1>6. \A k \in DOMAIN f.clusters : NumbersArePositive(f.clusters[k])
  <2> SUFFICES ASSUME NEW k \in DOMAIN c.clusters PROVE NumbersArePositive(f.clusters[k])
    BY <1>2
  <2>1. NumbersArePositive(c.clusters[k])
    BY DEF Usable, Positive
  <2> QED
    BY <1>3, <2>1 DEF NumbersArePositive
<1> QED
  BY <1>5, <1>6 DEF f

\* Whatever configuration Validate accepted, in the file that is written every route
\* fits its one cluster and no number is left at zero (Generate,
\* envoy_conf_generator.go; ClusterConf.Validate, conf_convertor.go:86).
THEOREM FileIsUsable == Spec => []WrittenFileIsUsable
<1>1. GatewayInv => WrittenFileIsUsable
  BY GeneratedIsUsable DEF GatewayInv, FileInv, WrittenFileIsUsable
<1> QED
  BY <1>1, GatewayInvariant, PTL

------------------------------------------------------------------------------
(***************************************************************************)
(* The adapter's index.                                                    *)
(***************************************************************************)
\* A method's full name has a slash.
LEMMA FullMethodHasSlash ==
  ASSUME NEW c \in APIConf, NEW p \in MethodPlaces(c)
  PROVE  Contains(FullMethod(c, p), "/")
<1>1. p \in Places(c)
  BY DEF MethodPlaces
<1>2. /\ ApiAt(c, p).name \in Seq(Pieces) /\ Slash \in Seq(Pieces)
      /\ MethodAt(c, p).name \in Seq(Pieces)
  BY <1>1, Names
<1>3. \A a, m \in Seq(Pieces) : Contains(a \o Slash \o m, "/")
  <2> SUFFICES ASSUME NEW a \in Seq(Pieces), NEW m \in Seq(Pieces)
               PROVE  Contains(a \o Slash \o m, "/")
    OBVIOUS
  <2>1. Len(Slash) = 1 /\ Slash[1] = "/"
    BY DEF Slash
  <2>2. Len(a \o Slash) = Len(a) + 1 /\ (a \o Slash)[Len(a) + 1] = "/"
    <3>1. Len(a) \in Nat /\ Len(a) + 1 - Len(a) = 1
      BY LenProperties
    <3>2. /\ Len(a \o Slash) = Len(a) + Len(Slash)
          /\ \A i \in 1 .. Len(a) + Len(Slash) :
               (a \o Slash)[i] = IF i <= Len(a) THEN a[i] ELSE Slash[i - Len(a)]
      BY <1>2, ConcatProperties
    <3>3. Len(a) + 1 \in 1 .. Len(a) + Len(Slash) /\ ~(Len(a) + 1 <= Len(a))
      BY <2>1, <3>1
    <3> QED
      BY <2>1, <3>1, <3>2, <3>3
  <2>3. a \o Slash \in Seq(Pieces)
    BY <1>2
  <2>4. Len(a \o Slash \o m) = Len(a \o Slash) + Len(m) /\ Len(a) \in Nat /\ Len(m) \in Nat
    BY <2>3, ConcatProperties
  <2>5. Len(a) + 1 \in 1 .. Len(a \o Slash \o m)
    BY <2>2, <2>4
  <2>6. (a \o Slash \o m)[Len(a) + 1] = (a \o Slash)[Len(a) + 1]
    BY <2>2, <2>3, <2>4, <2>5, ConcatProperties
  <2> QED
    BY <2>2, <2>5, <2>6 DEF Contains
<1> QED
  BY <1>2, <1>3 DEF FullMethod

\* What the generator accepts the adapter loads.
LEMMA AcceptedIsLoadable ==
  ASSUME NEW c \in APIConf, Accepted(c), PlainNames(c),
         \A p \in IndexPlaces(c) : Decodable(AuthAt(c, p))
  PROVE  Loadable(c)
<1>1. ASSUME NEW p \in IndexPlaces(c) PROVE Readable(AuthAt(c, p))
  <2>1. AuthAt(c, p) # NoAuth /\ ValidAuth(AuthAt(c, p))
    <3>1. CASE p \in MethodPlaces(c) /\ MethodAt(c, p).auth # NoAuth
      <4>1. p[2] # 0
        BY <3>1, MethodTypes, PlaceTypes
      <4> QED
        BY <3>1, <4>1 DEF AuthAt, Accepted
    <3>2. ASSUME NEW i \in DOMAIN c.apis, c.apis[i].auth # NoAuth, p = <<i, 0>>
          PROVE  AuthAt(c, p) # NoAuth /\ ValidAuth(AuthAt(c, p))
      BY <3>2 DEF AuthAt, ApiAt, Accepted
    <3> QED
      BY <3>1, <3>2 DEF IndexPlaces
  <2>2. AuthAt(c, p).limit # NoLimit => AuthAt(c, p).limit.period \in Parses
    BY <2>1, GatewayAssumption DEF GatewayAssumption, ValidAuth
  <2> QED
    BY <2>1, <2>2 DEF ValidAuth, Readable
<1>2. ASSUME NEW p \in MethodPlaces(c), NEW q \in IndexPlaces(c),
             Before(q, p), Key(c, q) = FullMethod(c, p)
      PROVE  FALSE
  <2>1. CASE q \in MethodPlaces(c)
    <3>1. q[2] # 0 /\ q \in Nat \X Nat
      BY <2>1, MethodTypes, PlaceTypes
    <3>2. q = p
      BY <1>2, <2>1, <3>1 DEF Key, Accepted, UniqueMethods
    <3> QED
      BY <1>2, <3>1, <3>2 DEF Before
  <2>2. ASSUME NEW i \in DOMAIN c.apis, q = <<i, 0>> PROVE FALSE
    <3>1. Key(c, q) = c.apis[i].name
      BY <2>2 DEF Key, ApiAt
    <3>2. ~Contains(Key(c, q), "/")
      BY <3>1 DEF PlainNames
    <3> QED
      BY <1>2, <3>2, FullMethodHasSlash
  <2> QED
    BY <2>1, <2>2 DEF IndexPlaces
<1> QED
  BY <1>1, <1>2 DEF Loadable

\* The adapter loads what the generator accepted, when names are plain and the texts can
\* be decoded that the generator takes as they come (LoadConfig, auth-adapter/config.go:64).
THEOREM AdapterAgrees == Spec => []LoadersAgree
<1>1. GatewayInv => LoadersAgree
  BY AcceptedIsLoadable DEF GatewayInv, FileInv, LoadersAgree, Usable
<1> QED
  BY <1>1, GatewayInvariant, PTL

------------------------------------------------------------------------------
(***************************************************************************)
(* Prefixes.                                                               *)
(***************************************************************************)
LEMMA PrefixElements ==
  ASSUME NEW S, NEW x \in Seq(S), NEW s \in Seq(S)
  PROVE  IsPrefix(x, s) <=> Len(x) <= Len(s) /\ \A i \in 1 .. Len(x) : x[i] = s[i]
<1>1. Len(x) \in Nat /\ Len(s) \in Nat
  BY LenProperties
<1>2. SubSeq(x, 1, Len(x)) = x
  BY SubSeqFull
<1>3. ASSUME Len(x) <= Len(s)
      PROVE  SubSeq(s, 1, Len(x)) = x <=> \A i \in 1 .. Len(x) : x[i] = s[i]
  <2> DEFINE t == SubSeq(s, 1, Len(x))
  <2>1. \A i \in 1 .. Len(x) : s[i] \in S
    BY <1>1, <1>3, ElementOfSeq
  <2>2. /\ t \in Seq(S) /\ Len(t) = IF 1 <= Len(x) THEN Len(x) - 1 + 1 ELSE 0
        /\ \A i \in 1 .. Len(x) - 1 + 1 : t[i] = s[1 + i - 1]
    BY <1>1, <2>1, SubSeqProperties
  <2> HIDE DEF t
  <2>3. Len(t) = Len(x)
    BY <1>1, <2>2
  <2>4. \A i \in 1 .. Len(x) : t[i] = s[i]
    BY <1>1, <2>2
  <2>5. t = x <=> \A i \in 1 .. Len(x) : x[i] = s[i]
    BY <2>2, <2>3, <2>4, SeqEqual
  <2> QED
    BY <2>5 DEF t
<1> QED
  BY <1>1, <1>2, <1>3 DEF IsPrefix

\* The shorter of two prefixes of one sequence is a prefix of the longer.
LEMMA PrefixesOfOne ==
  ASSUME NEW S, NEW x \in Seq(S), NEW y \in Seq(S), NEW s \in Seq(S),
         IsPrefix(x, s), IsPrefix(y, s), Len(x) <= Len(y)
  PROVE  IsPrefix(x, y)
<1>1. Len(x) \in Nat /\ Len(y) \in Nat
  BY LenProperties
<1>2. \A i \in 1 .. Len(x) : i \in 1 .. Len(y)
  BY <1>1
<1>3. (\A i \in 1 .. Len(x) : x[i] = s[i]) /\ \A i \in 1 .. Len(y) : y[i] = s[i]
  BY PrefixElements
<1>4. \A i \in 1 .. Len(x) : x[i] = y[i]
  BY <1>2, <1>3
<1> QED
  BY <1>4, PrefixElements

\* What follows x in s begins with y, if x \o y is a prefix of s.
LEMMA RestOfPrefix ==
  ASSUME NEW S, NEW x \in Seq(S), NEW y \in Seq(S), NEW s \in Seq(S), IsPrefix(x \o y, s)
  PROVE  y \o Rest(s, x \o y) = Rest(s, x)
<1> DEFINE n == Len(x) + Len(y)
           t == SubSeq(s, Len(x) + 1, n)
<1>1. Len(x) \in Nat /\ Len(y) \in Nat /\ Len(s) \in Nat
  BY LenProperties
<1>2. /\ x \o y \in Seq(S) /\ Len(x \o y) = n
      /\ \A i \in 1 .. n : (x \o y)[i] = IF i <= Len(x) THEN x[i] ELSE y[i - Len(x)]
  BY ConcatProperties
<1>3. n <= Len(s) /\ \A i \in 1 .. n : (x \o y)[i] = s[i]
  <2> DEFINE z == x \o y
  <2>1. z \in Seq(S) /\ Len(z) = n /\ IsPrefix(z, s)
    BY <1>2
  <2> HIDE DEF z, n
  <2>2. Len(z) <= Len(s) /\ \A i \in 1 .. Len(z) : z[i] = s[i]
    BY <2>1, PrefixElements
  <2> QED
    BY <2>1, <2>2 DEF z
<1>4. \A i \in 1 .. Len(y) : s[Len(x) + i] = y[i]
  <2> SUFFICES ASSUME NEW i \in 1 .. Len(y) PROVE s[Len(x) + i] = y[i]
    OBVIOUS
  <2>1. /\ Len(x) + i \in 1 .. n /\ ~(Len(x) + i <= Len(x))
        /\ Len(x) + i - Len(x) = i
    BY <1>1
  <2> QED
    BY <1>2, <1>3, <2>1
<1>5. t = y
  <2>1. \A i \in Len(x) + 1 .. n : i \in 1 .. Len(s)
    BY <1>1, <1>3
  <2>2. \A i \in Len(x) + 1 .. n : s[i] \in S
    BY <2>1, ElementOfSeq
  <2>3. Len(x) + 1 \in Int /\ n \in Int
    BY <1>1
  <2>4. /\ t \in Seq(S)
        /\ Len(t) = IF Len(x) + 1 <= n THEN n - (Len(x) + 1) + 1 ELSE 0
        /\ \A i \in 1 .. n - (Len(x) + 1) + 1 : t[i] = s[Len(x) + 1 + i - 1]
    BY <2>2, <2>3, SubSeqProperties
  <2> HIDE DEF t
  <2>5. Len(t) = Len(y)
    BY <1>1, <2>4
  <2>6. \A i \in 1 .. Len(y) : t[i] = s[Len(x) + i]
    BY <1>1, <2>4
  <2> QED
    BY <1>4, <2>4, <2>5, <2>6, SeqEqual
<1>6. t \o SubSeq(s, n + 1, Len(s)) = SubSeq(s, Len(x) + 1, Len(s))
  <2>1. Len(x) + 1 \in 1 .. Len(s) + 1 /\ n \in (Len(x) + 1) - 1 .. Len(s) /\ Len(s) \in n .. Len(s)
    BY <1>1, <1>3
  <2> QED
    BY <2>1, ConcatAdjacentSubSeq
<1>7. Rest(s, x \o y) = SubSeq(s, n + 1, Len(s))
  BY <1>2 DEF Rest
<1>8. Rest(s, x) = SubSeq(s, Len(x) + 1, Len(s))
  BY DEF Rest
<1> HIDE DEF t, n
<1> QED
  BY <1>5, <1>6, <1>7, <1>8

------------------------------------------------------------------------------
(***************************************************************************)
(* Where a request goes.                                                   *)
(***************************************************************************)
\* Concatenation of pieces, and what is left of them.
LEMMA PiecesConcat == \A s, t \in Seq(Pieces) : s \o t \in Seq(Pieces)
BY ConcatProperties

LEMMA PiecesRegroup == \A s, t, u \in Seq(Pieces) : (s \o t) \o u = s \o (t \o u)
BY ConcatAssociative

LEMMA PiecesRest ==
  \A x, y, s \in Seq(Pieces) :
    IsPrefix(x \o y, s) => y \o Rest(s, x \o y) = Rest(s, x)
BY RestOfPrefix

RouteAt(c, p) == IF IsMethod(c, p) THEN MethodRoute(c, p) ELSE ApiRoute(c, p)

\* What a route writes follows what it strips.
LEMMA RouteStrips ==
  ASSUME NEW c \in APIConf, NEW p \in Places(c)
  PROVE  \E x, y \in Seq(Pieces) :
           /\ x = c.route \o (IF RouteAt(c, p).http THEN ApiAt(c, p).name \o Slash ELSE <<>>)
           /\ RouteAt(c, p).prefix = x \o y /\ RouteAt(c, p).rewrite = Slash \o y
<1> DEFINE route == RouteAt(c, p)
           r == c.route
           a == ApiAt(c, p).name
           m == MethodAt(c, p).name
<1>1. r \in Seq(Pieces) /\ a \in Seq(Pieces) /\ Slash \in Seq(Pieces)
  BY Names
<1>2. r \o <<>> = r /\ r \o <<>> \in Seq(Pieces) /\ <<>> \in Seq(Pieces)
  BY <1>1, ConcatEmptySeq, EmptySeq
<1>3. a \o Slash \in Seq(Pieces) /\ r \o (a \o Slash) \in Seq(Pieces)
  BY <1>1, ConcatProperties
<1>4. r \o (a \o Slash) = r \o (a \o Slash) \o <<>>
  BY <1>3, ConcatEmptySeq
<1>5. \A name, rewrite, bucket :
        /\ RouteTo(c, p, name, rewrite, bucket).prefix = r \o name
        /\ RouteTo(c, p, name, rewrite, bucket).rewrite = Slash \o rewrite
        /\ RouteTo(c, p, name, rewrite, bucket).http = ToHTTP(c, p)
  BY DEF RouteTo, ToHTTP
<1>6. CASE IsMethod(c, p)
  <2>1. p \in MethodPlaces(c)
    BY <1>6 DEF MethodPlaces
  <2>2. m \in Seq(Pieces) /\ FullMethod(c, p) \in Seq(Pieces)
    BY <2>1, Names
  <2>3. r \o FullMethod(c, p) = r \o (a \o Slash) \o m
    <3>1. FullMethod(c, p) = (a \o Slash) \o m
      BY DEF FullMethod
    <3> DEFINE b == a \o Slash
    <3>2. b \in Seq(Pieces)
      BY <1>3
    <3>3. r \in Seq(Pieces) /\ m \in Seq(Pieces)
      BY <1>1, <2>2
    <3> HIDE DEF r, m, b
    <3>4. (r \o b) \o m = r \o (b \o m)
      BY <3>2, <3>3, PiecesRegroup
    <3> QED
      BY <3>1, <3>4 DEF b, m, r
  <2>4. /\ route.prefix = r \o FullMethod(c, p) /\ route.http = ToHTTP(c, p)
        /\ route.rewrite = Slash \o MethodRewrite(c, p)
    BY <1>5, <1>6 DEF MethodRoute, RouteAt
  <2>5. CASE ToHTTP(c, p)
    <3>1. route.rewrite = Slash \o m /\ route.prefix = r \o (a \o Slash) \o m /\ route.http
      BY <2>3, <2>4, <2>5 DEF MethodRewrite
    <3> QED
      BY <1>3, <2>2, <3>1
  <2>6. CASE ~ToHTTP(c, p)
    <3>1. /\ route.rewrite = Slash \o FullMethod(c, p) /\ ~route.http
          /\ route.prefix = r \o <<>> \o FullMethod(c, p)
      BY <1>2, <2>4, <2>6 DEF MethodRewrite
    <3> QED
      BY <1>2, <2>2, <3>1
  <2> QED
    BY <2>5, <2>6
<1>7. CASE ~IsMethod(c, p)
  <2> route = ApiRoute(c, p)
    BY <1>7 DEF RouteAt
  <2>1. CASE ToHTTP(c, p)
    <3>1. route = RouteTo(c, p, a \o Slash, <<>>, NoLimit)
      BY <2>1 DEF ApiRoute
    <3>2. route.prefix = r \o (a \o Slash) /\ route.rewrite = Slash \o <<>> /\ route.http
      BY <1>5, <2>1, <3>1
    <3> QED
      BY <1>2, <1>3, <1>4, <3>2
  <2>2. CASE ~ToHTTP(c, p)
    <3>1. route = RouteTo(c, p, a, a, NoLimit)
      BY <2>2 DEF ApiRoute
    <3>2. route.prefix = r \o a /\ route.rewrite = Slash \o a /\ ~route.http
      <4>1. /\ RouteTo(c, p, a, a, NoLimit).prefix = r \o a
            /\ RouteTo(c, p, a, a, NoLimit).rewrite = Slash \o a
            /\ RouteTo(c, p, a, a, NoLimit).http = ToHTTP(c, p)
        BY DEF RouteTo, ToHTTP
      <4> QED
        BY <2>2, <3>1, <4>1
    <3>3. r \o <<>> \o a = r \o a
      BY <1>2
    <3> QED
      BY <1>1, <1>2, <3>2, <3>3
  <2> QED
    BY <2>1, <2>2
<1> QED
  BY <1>6, <1>7

\* A request that was routed: its route, its path, and the pieces of both.
LEMMA RoutedTypes ==
  ASSUME GatewayInv, request.route # NoRoute
  PROVE  /\ file = Generated(config) /\ config \in APIConf /\ Usable(config)
         /\ request.path \in Seq(Pieces)
         /\ First(request.path, request.route) /\ request.route \in Places(config)
         /\ DOMAIN file.routes = Places(config)
         /\ \A p \in Places(config) :
              /\ file.routes[p] = RouteAt(config, p)
              /\ file.routes[p].prefix \in Seq(Pieces)
<1>1. FileInv /\ RequestInv /\ gateway = "up"
  BY DEF GatewayInv, RequestInv
<1>2. /\ file = Generated(config) /\ config \in APIConf /\ Usable(config)
      /\ DOMAIN file.routes = Places(config)
      /\ \A p \in Places(config) :
           file.routes[p] = RouteAt(config, p)
  BY <1>1, RoutePlaces DEF RouteAt
<1>3. First(request.path, request.route) /\ request.route \in Places(config)
  BY <1>1, <1>2 DEF RequestInv, First, Fitting
<1>4. request.path \in Seq(Pieces)
  <2>1. request.path \in Seq(STRING)
    BY <1>1, GatewayAssumption, EmptySeq DEF RequestInv, Name
  <2> QED
    BY <2>1, SeqMonotonic DEF Pieces
<1>5. ASSUME NEW p \in Places(config) PROVE file.routes[p].prefix \in Seq(Pieces)
  <2>1. PICK x, y \in Seq(Pieces) : RouteAt(config, p).prefix = x \o y
    BY <1>2, RouteStrips
  <2>2. x \o y \in Seq(Pieces)
    BY PiecesConcat
  <2> QED
    BY <1>2, <2>1, <2>2
<1> QED
  BY <1>2, <1>3, <1>4, <1>5

\* What a route of an API makes of a path depends on the path and the API alone.
LEMMA RouteSends ==
  ASSUME NEW c \in APIConf, NEW p \in Places(c), NEW path \in Seq(Pieces),
         IsPrefix(RouteAt(c, p).prefix, path)
  PROVE  RouteAt(c, p).rewrite \o Rest(path, RouteAt(c, p).prefix)
           = Slash \o Rest(path, c.route \o (IF ToHTTP(c, p) THEN ApiAt(c, p).name \o Slash
                                           ELSE <<>>))
<1> DEFINE route == RouteAt(c, p)
<1>1. route.http = ToHTTP(c, p)
  BY DEF RouteAt, MethodRoute, ApiRoute, RouteTo, ToHTTP
<1>2. PICK x, y \in Seq(Pieces) :
        /\ x = c.route \o (IF route.http THEN ApiAt(c, p).name \o Slash ELSE <<>>)
        /\ route.prefix = x \o y /\ route.rewrite = Slash \o y
  BY RouteStrips
<1>3. IsPrefix(x \o y, path)
  BY <1>2
<1>4. y \o Rest(path, x \o y) = Rest(path, x)
  BY <1>3, PiecesRest
<1>5. Slash \o y \o Rest(path, x \o y) = Slash \o (y \o Rest(path, x \o y))
  <2> DEFINE rest == Rest(path, x \o y)
  <2>1. Slash \in Seq(Pieces)
    BY Names
  <2>2. rest \in Seq(Pieces)
    <3>1. x \o y \in Seq(Pieces) /\ Len(x \o y) \in Nat /\ Len(path) \in Nat
      BY <1>2, ConcatProperties, LenProperties
    <3>2. Len(x \o y) + 1 \in Int /\ \A i \in Len(x \o y) + 1 .. Len(path) : i \in 1 .. Len(path)
      BY <3>1
    <3>3. \A i \in Len(x \o y) + 1 .. Len(path) : path[i] \in Pieces
      BY <3>2, ElementOfSeq
    <3> QED
      BY <3>1, <3>2, <3>3, SubSeqProperties DEF Rest
  <2> HIDE DEF rest
  <2>3. Slash \o y \o rest = Slash \o (y \o rest)
    BY <2>1, <2>2, PiecesRegroup
  <2> QED
    BY <2>3 DEF rest
<1> HIDE DEF route
<1> QED
  BY <1>1, <1>2, <1>4, <1>5 DEF route

\* Whichever route of its API takes a request, the backend is sent the same
\* (envoyHttpRouteTmpl, envoyHttpApiRouteTmpl, envoyGrpcRouteTmpl,
\* envoy_conf_generator.go:12).
THEOREM RoutesSendAlike == Spec => []SentAlike
<1>1. GatewayInv => SentAlike
  <2> SUFFICES ASSUME GatewayInv, request.at = "sent", NEW q \in Fitting(request.path),
                      q[1] = request.route[1]
               PROVE  request.sent = SentBy(q, request.path)
    BY DEF SentAlike
  <2> DEFINE p == request.route
             path == request.path
             Sends(r) == Slash \o Rest(path, config.route \o
                           (IF ToHTTP(config, r) THEN ApiAt(config, r).name \o Slash ELSE <<>>))
  <2>1. p # NoRoute /\ request.sent = SentBy(p, path)
    <3>1. p # NoRoute /\ request.sent = Route.rewrite \o Rest(path, Route.prefix)
      BY DEF GatewayInv, RequestInv
    <3> QED
      BY <3>1 DEF Route, SentBy
  <2>2. /\ config \in APIConf /\ path \in Seq(Pieces)
        /\ p \in Places(config) /\ q \in Places(config)
        /\ file.routes[p] = RouteAt(config, p) /\ file.routes[q] = RouteAt(config, q)
        /\ IsPrefix(file.routes[p].prefix, path) /\ IsPrefix(file.routes[q].prefix, path)
    BY <2>1, RoutedTypes DEF First, Fitting
  <2>3. ApiAt(config, p) = ApiAt(config, q) /\ ToHTTP(config, p) = ToHTTP(config, q)
    BY DEF ApiAt, ToHTTP
  <2>4. SentBy(p, path) = Sends(p) /\ SentBy(q, path) = Sends(q)
    BY <2>2, RouteSends DEF SentBy
  <2>5. Sends(p) = Sends(q)
    BY <2>3
  <2> HIDE DEF Sends, p, path
  <2> QED
    BY <2>1, <2>4, <2>5 DEF path
<1> QED
  BY <1>1, GatewayInvariant, PTL

\* A request takes the longest route that fits its path, unless an earlier one shadows it.
THEOREM LongestIsTaken == Spec => []LongestRouteTaken
<1>1. GatewayInv => LongestRouteTaken
  <2> SUFFICES ASSUME GatewayInv, request.route # NoRoute, NEW p \in MethodPlaces(config),
                      Longest(request.path, p), ~Shadowed(p)
               PROVE  /\ Route.cluster = ApiAt(config, p).cluster
                      /\ Route.bucket = Bucket(MethodAt(config, p).auth)
    BY DEF LongestRouteTaken
  <2> DEFINE r == request.route
  <2>1. /\ config \in APIConf /\ request.path \in Seq(Pieces) /\ r \in Places(config)
        /\ First(request.path, r)
        /\ \A q \in Places(config) :
             /\ file.routes[q] = RouteAt(config, q)
             /\ file.routes[q].prefix \in Seq(Pieces)
        /\ DOMAIN file.routes = Places(config)
    BY RoutedTypes
  <2>2. p \in Places(config) /\ IsMethod(config, p) /\ p \in Fitting(request.path)
    BY DEF MethodPlaces, Longest
  <2>3. IsPrefix(file.routes[r].prefix, file.routes[p].prefix)
    <3>1. Len(file.routes[r].prefix) <= Len(file.routes[p].prefix)
      BY <2>1 DEF Longest, First
    <3>2. /\ IsPrefix(file.routes[r].prefix, request.path)
          /\ IsPrefix(file.routes[p].prefix, request.path)
      BY <2>1, <2>2 DEF First, Fitting
    <3> QED
      BY <2>1, <2>2, <3>1, <3>2, PrefixesOfOne
  <2>4. r = p
    BY <2>1, <2>2, <2>3 DEF First, Shadowed
  <2>5. Route = MethodRoute(config, p)
    BY <2>1, <2>2, <2>4 DEF Route, RouteAt
  <2> QED
    BY <2>5 DEF MethodRoute, RouteTo, LimitedBy
<1> QED
  BY <1>1, GatewayInvariant, PTL

------------------------------------------------------------------------------
(***************************************************************************)
(* The two readers of a path.                                              *)
(***************************************************************************)
\* The slashes of a path up to its i-th piece.
CutsTo(path, i) == {k \in Cuts(path) : k <= i}

\* The n-th cut of a path is the slash with n of them up to it.
LEMMA CutIs ==
  ASSUME NEW S, NEW path \in Seq(S), NEW n \in Nat, NEW i \in Cuts(path),
         Cardinality(CutsTo(path, i)) = n
  PROVE  Cut(path, n) = i
<1>1. DOMAIN path = 1 .. Len(path) /\ Len(path) \in Nat
  BY LenProperties
<1>2. IsFiniteSet(1 .. Len(path))
  BY <1>1, FS_Interval
<1>3. IsFiniteSet(Cuts(path)) /\ Cuts(path) \subseteq Nat
  BY <1>1, <1>2, FS_Subset DEF Cuts
<1>4. \A j : IsFiniteSet(CutsTo(path, j)) /\ Cardinality(CutsTo(path, j)) \in Nat
             /\ Cardinality(CutsTo(path, j)) <= Cardinality(Cuts(path))
  <2> SUFFICES ASSUME NEW j
               PROVE  IsFiniteSet(CutsTo(path, j)) /\ Cardinality(CutsTo(path, j)) \in Nat
                      /\ Cardinality(CutsTo(path, j)) <= Cardinality(Cuts(path))
    OBVIOUS
  <2>1. CutsTo(path, j) \in SUBSET Cuts(path)
    BY DEF CutsTo
  <2> QED
    BY <1>3, <2>1, FS_Subset, FS_CardinalityType
<1>5. ASSUME NEW j \in Cuts(path), NEW k \in Cuts(path), j < k
      PROVE  Cardinality(CutsTo(path, j)) # Cardinality(CutsTo(path, k))
  <2>1. CutsTo(path, j) \in SUBSET CutsTo(path, k)
    BY <1>3, <1>5 DEF CutsTo
  <2>2. k \in CutsTo(path, k) /\ k \notin CutsTo(path, j)
    BY <1>3, <1>5 DEF CutsTo
  <2> QED
    BY <1>4, <2>1, <2>2, FS_Subset
<1>6. \A j \in Cuts(path) : Cardinality(CutsTo(path, j)) = n => j = i
  <2> SUFFICES ASSUME NEW j \in Cuts(path), Cardinality(CutsTo(path, j)) = n PROVE j = i
    OBVIOUS
  <2>1. ~(i < j) /\ ~(j < i)
    BY <1>5
  <2> QED
    BY <1>3, <2>1
<1>7. Cut(path, n) = IF Cardinality(Cuts(path)) < n THEN Len(path) + 1
                     ELSE CHOOSE j \in Cuts(path) : Cardinality(CutsTo(path, j)) = n
  BY DEF Cut, CutsTo
<1>8. ~(Cardinality(Cuts(path)) < n)
  BY <1>3, <1>4, FS_CardinalityType
<1>9. (CHOOSE j \in Cuts(path) : Cardinality(CutsTo(path, j)) = n) = i
  BY <1>6
<1> QED
  BY <1>7, <1>8, <1>9

\* The segment between two cuts.
LEMMA SegmentIs ==
  ASSUME NEW S, NEW path \in Seq(S), NEW x \in Seq(S), NEW i \in Nat,
         i + Len(x) <= Len(path), \A k \in 1 .. Len(x) : path[i + k] = x[k]
  PROVE  SubSeq(path, i + 1, i + 1 + Len(x) - 1) = x
<1> DEFINE last == i + 1 + Len(x) - 1
           t == SubSeq(path, i + 1, last)
<1>1. Len(x) \in Nat /\ Len(path) \in Nat
  BY LenProperties
<1>2. last = i + Len(x) /\ last \in Int /\ i + 1 \in Int
  BY <1>1
<1>3. \A k \in i + 1 .. last : k \in 1 .. Len(path)
  BY <1>1, <1>2
<1>4. \A k \in i + 1 .. last : path[k] \in S
  BY <1>3, ElementOfSeq
<1>5. /\ t \in Seq(S) /\ Len(t) = IF i + 1 <= last THEN last - (i + 1) + 1 ELSE 0
      /\ \A k \in 1 .. last - (i + 1) + 1 : t[k] = path[i + 1 + k - 1]
  BY <1>2, <1>4, SubSeqProperties
<1> HIDE DEF t
<1>6. Len(t) = Len(x) /\ last - (i + 1) + 1 = Len(x)
  BY <1>1, <1>2, <1>5
<1>7. \A k \in 1 .. Len(x) : i + 1 + k - 1 = i + k
  BY <1>1
<1>8. \A k \in 1 .. Len(x) : t[k] = x[k]
  BY <1>5, <1>6, <1>7
<1>9. t = x
  BY <1>5, <1>6, <1>8, SeqEqual
<1> QED
  BY <1>9 DEF t

\* The path asks for method m of API a under /api/: the names have no slash, and after
\* them the path ends or has one.
UnderApi(path, a, m) ==
  /\ ~Contains(a, "/") /\ ~Contains(m, "/")
  /\ Len(a) + Len(m) + 4 <= Len(path)
  /\ path[1] = "/" /\ path[2] = "api" /\ path[3] = "/" /\ path[Len(a) + 4] = "/"
  /\ \A k \in 1 .. Len(a) : path[3 + k] = a[k]
  /\ \A k \in 1 .. Len(m) : path[Len(a) + 4 + k] = m[k]
  /\ Len(path) > Len(a) + Len(m) + 4 => path[Len(a) + Len(m) + 5] = "/"

\* Its second and third parts are the two names.
LEMMA PartsOfPath ==
  ASSUME NEW path \in Seq(Pieces), NEW a \in Seq(Pieces), NEW m \in Seq(Pieces),
         UnderApi(path, a, m)
  PROVE  Part(path, 2) = a /\ Part(path, 3) = m
<1> DEFINE i == Len(a) + 4
           j == Len(a) + Len(m) + 5
<1>1. /\ Len(a) \in Nat /\ Len(m) \in Nat /\ Len(path) \in Nat
      /\ DOMAIN path = 1 .. Len(path)
  BY LenProperties
<1>2. i \in Nat /\ j \in Nat /\ 3 < i /\ i < j /\ j <= Len(path) + 1
  BY <1>1 DEF UnderApi
<1>3. \A k \in 4 .. i - 1 : path[k] # "/"
  <2> SUFFICES ASSUME NEW k \in 4 .. i - 1 PROVE path[k] # "/"
    OBVIOUS
  <2>1. k - 3 \in 1 .. Len(a) /\ 3 + (k - 3) = k
    BY <1>1
  <2>2. path[k] = a[k - 3]
    BY <2>1 DEF UnderApi
  <2> QED
    BY <2>1, <2>2 DEF Contains, UnderApi
<1>4. \A k \in i + 1 .. j - 1 : path[k] # "/"
  <2> SUFFICES ASSUME NEW k \in i + 1 .. j - 1 PROVE path[k] # "/"
    OBVIOUS
  <2>1. k - i \in 1 .. Len(m) /\ Len(a) + 4 + (k - i) = k
    BY <1>1
  <2>2. path[k] = m[k - i]
    BY <2>1 DEF UnderApi
  <2> QED
    BY <2>1, <2>2 DEF Contains, UnderApi
<1>5. 1 \in Cuts(path) /\ 2 \notin Cuts(path) /\ 3 \in Cuts(path) /\ i \in Cuts(path)
  BY <1>1, <1>2 DEF Cuts, UnderApi
<1>6. \A k \in Cuts(path) : k \in Nat /\ 1 <= k /\ k <= Len(path)
  BY <1>1 DEF Cuts
<1>n. \A k \in Cuts(path) : k \notin 4 .. i - 1 /\ k \notin i + 1 .. j - 1
  BY <1>3, <1>4 DEF Cuts
<1> HIDE DEF i, j
<1>7. CutsTo(path, 3) = {1} \cup {3}
  <2>1. \A k \in Cuts(path) : k <= 3 => k = 1 \/ k = 3
    BY <1>5, <1>6
  <2> QED
    BY <1>5, <2>1 DEF CutsTo
<1>8. CutsTo(path, i) = {1} \cup {3} \cup {i}
  <2>1. \A k \in Cuts(path) : k <= i => k = 1 \/ k = 3 \/ k = i
    BY <1>2, <1>5, <1>6, <1>n
  <2>2. 1 <= i /\ 3 <= i /\ i <= i
    BY <1>2
  <2>3. \A k : k \in CutsTo(path, i) <=> k \in {1} \cup {3} \cup {i}
    BY <1>5, <2>1, <2>2 DEF CutsTo
  <2> QED
    BY <2>3
<1>9. IsFiniteSet({1} \cup {3}) /\ Cardinality({1} \cup {3}) = 2
  <2>1. IsFiniteSet({1}) /\ Cardinality({1}) = 1
    BY FS_Singleton
  <2>2. 3 \notin {1}
    OBVIOUS
  <2>3. IsFiniteSet({1} \cup {3}) /\ Cardinality({1} \cup {3}) = Cardinality({1}) + 1
    BY <2>1, <2>2, FS_AddElement
  <2>4. 1 + 1 = 2
    OBVIOUS
  <2> QED
    BY <2>1, <2>3, <2>4, Zenon
<1>10. IsFiniteSet({1} \cup {3} \cup {i}) /\ Cardinality({1} \cup {3} \cup {i}) = 3
  <2>1. i \notin {1} \cup {3}
    BY <1>2
  <2>2. /\ IsFiniteSet({1} \cup {3} \cup {i})
        /\ Cardinality({1} \cup {3} \cup {i}) = Cardinality({1} \cup {3}) + 1
    BY <1>9, <2>1, FS_AddElement
  <2>3. 2 + 1 = 3
    OBVIOUS
  <2> QED
    BY <1>9, <2>2, <2>3, Zenon
<1>11. Cut(path, 2) = 3 /\ Cut(path, 3) = i
  <2>1. Cut(path, 2) = 3
    BY <1>5, <1>7, <1>9, CutIs
  <2>2. Cut(path, 3) = i
    BY <1>5, <1>8, <1>10, CutIs
  <2> QED
    BY <2>1, <2>2
<1>12. Cut(path, 4) = j
  <2>1. CASE j \in Cuts(path)
    <3>1. \A k \in Cuts(path) : k <= j => k = 1 \/ k = 3 \/ k = i \/ k = j
      BY <1>2, <1>5, <1>6, <1>n
    <3>2. 1 <= j /\ 3 <= j /\ i <= j /\ j <= j
      BY <1>2
    <3>3. \A k : k \in CutsTo(path, j) <=> k \in {1} \cup {3} \cup {i} \cup {j}
      BY <1>5, <2>1, <3>1, <3>2 DEF CutsTo
    <3>4. j \notin {1} \cup {3} \cup {i}
      BY <1>2
    <3>5. Cardinality(CutsTo(path, j)) = 4
      <4>1. CutsTo(path, j) = {1} \cup {3} \cup {i} \cup {j}
        BY <3>3
      <4>2. Cardinality({1} \cup {3} \cup {i} \cup {j}) = Cardinality({1} \cup {3} \cup {i}) + 1
        BY <1>10, <3>4, FS_AddElement
      <4>3. 3 + 1 = 4
        OBVIOUS
      <4> QED
        BY <1>10, <4>1, <4>2, <4>3, Zenon
    <3> QED
      BY <2>1, <3>5, CutIs
  <2>2. CASE j \notin Cuts(path)
    <3>1. Len(path) = j - 1
      <4>1. ~(Len(path) > Len(a) + Len(m) + 4)
        <5>1. SUFFICES ASSUME Len(path) > Len(a) + Len(m) + 4 PROVE FALSE
          OBVIOUS
        <5>2. path[j] = "/" /\ j \in 1 .. Len(path)
          BY <1>1, <5>1 DEF UnderApi, j
        <5> QED
          BY <1>1, <2>2, <5>2 DEF Cuts
      <4>2. Len(a) + Len(m) + 4 <= Len(path)
        BY DEF UnderApi
      <4>3. Len(path) = Len(a) + Len(m) + 4
        <5>1. \A x, y \in Nat : ~(x > y) /\ y <= x => x = y
          OBVIOUS
        <5>2. Len(a) + Len(m) + 4 \in Nat /\ Len(path) \in Nat
          BY <1>1
        <5> QED
          BY <4>1, <4>2, <5>1, <5>2, Zenon
      <4> QED
        BY <1>1, <4>3 DEF j
    <3>2. \A k \in Cuts(path) : k = 1 \/ k = 3 \/ k = i
      BY <1>2, <1>5, <1>6, <1>n, <3>1
    <3>3. Cuts(path) = {1} \cup {3} \cup {i}
      BY <1>5, <3>2
    <3>4. Cardinality(Cuts(path)) < 4
      <4>1. Cardinality(Cuts(path)) = 3
        BY <1>10, <3>3
      <4> QED
        BY <4>1
    <3> QED
      BY <1>1, <1>2, <3>1, <3>4 DEF Cut
  <2> QED
    BY <2>1, <2>2
<1>13. Part(path, 2) = a
  <2>1. SubSeq(path, 3 + 1, 3 + 1 + Len(a) - 1) = a
    <3>1. 3 + Len(a) <= Len(path) /\ \A k \in 1 .. Len(a) : path[3 + k] = a[k]
      BY <1>1 DEF UnderApi
    <3> QED
      BY <3>1, SegmentIs
  <2>2. i - 1 = 3 + 1 + Len(a) - 1
    BY <1>1 DEF i
  <2> QED
    BY <1>11, <2>1, <2>2 DEF Part
<1>14. Part(path, 3) = m
  <2>1. i + Len(m) <= Len(path) /\ \A k \in 1 .. Len(m) : path[i + k] = m[k]
    BY <1>1 DEF UnderApi, i
  <2>2. SubSeq(path, i + 1, i + 1 + Len(m) - 1) = m
    BY <1>2, <2>1, SegmentIs
  <2>3. j - 1 = i + 1 + Len(m) - 1
    BY <1>1 DEF i, j
  <2> QED
    BY <1>11, <1>12, <2>2, <2>3 DEF Part
<1> QED
  BY <1>13, <1>14

------------------------------------------------------------------------------
\* The adapter's index: a key that one place has holds what that place has.
LEMMA IndexHolds ==
  ASSUME NEW c, NEW key
  PROVE  /\ key \in DOMAIN MethodsIndex(c) <=> \E p \in IndexPlaces(c) : Key(c, p) = key
         /\ \A p \in IndexPlaces(c) :
              Key(c, p) = key /\ (\A q \in IndexPlaces(c) : Key(c, q) = key => q = p)
                => MethodsIndex(c)[key] = AuthAt(c, p)
<1>1. key \in DOMAIN MethodsIndex(c) <=> \E p \in IndexPlaces(c) : Key(c, p) = key
  BY DEF MethodsIndex
<1>2. ASSUME NEW p \in IndexPlaces(c), Key(c, p) = key,
             \A q \in IndexPlaces(c) : Key(c, q) = key => q = p
      PROVE  MethodsIndex(c)[key] = AuthAt(c, p)
  <2> DEFINE IsFinal(q) == /\ Key(c, q) = key
                           /\ \A r \in IndexPlaces(c) : Key(c, r) = key => r = q \/ Before(r, q)
  <2>1. IsFinal(p) /\ \A q \in IndexPlaces(c) : IsFinal(q) => q = p
    BY <1>2
  <2>2. MethodsIndex(c)[key] = AuthAt(c, CHOOSE q \in IndexPlaces(c) : IsFinal(q))
    BY <1>1, <1>2 DEF MethodsIndex
  <2> HIDE DEF IsFinal
  <2>3. (CHOOSE q \in IndexPlaces(c) : IsFinal(q)) = p
    BY <2>1
  <2> QED
    BY <2>2, <2>3
<1> QED
  BY <1>1, <1>2

\* A place of the index is an API, whose name is its key, or a method.
LEMMA IndexPlaceKinds ==
  ASSUME NEW c \in APIConf, PlainNames(c), NEW q \in IndexPlaces(c)
  PROVE  \/ /\ q \in MethodPlaces(c) /\ MethodAt(c, q).auth # NoAuth
            /\ Key(c, q) = FullMethod(c, q) /\ Contains(Key(c, q), "/")
            /\ AuthAt(c, q) = MethodAt(c, q).auth
         \/ /\ q[1] \in DOMAIN c.apis /\ q = <<q[1], 0>> /\ c.apis[q[1]].auth # NoAuth
            /\ Key(c, q) = c.apis[q[1]].name /\ ~Contains(Key(c, q), "/")
            /\ AuthAt(c, q) = c.apis[q[1]].auth
<1>1. CASE q \in MethodPlaces(c) /\ MethodAt(c, q).auth # NoAuth
  <2>1. q[2] # 0
    BY <1>1, MethodTypes, PlaceTypes
  <2>2. Contains(FullMethod(c, q), "/")
    BY <1>1, FullMethodHasSlash
  <2> QED
    BY <1>1, <2>1, <2>2 DEF Key, AuthAt
<1>2. CASE q \in {<<i, 0>> : i \in {k \in DOMAIN c.apis : c.apis[k].auth # NoAuth}}
  <2>1. PICK i \in DOMAIN c.apis : c.apis[i].auth # NoAuth /\ q = <<i, 0>>
    BY <1>2
  <2>2. q[1] = i /\ q[2] = 0
    BY <2>1
  <2> QED
    BY <2>1, <2>2 DEF Key, AuthAt, ApiAt, PlainNames
<1> QED
  BY <1>1, <1>2 DEF IndexPlaces

\* What the index holds for a method and for its API.
LEMMA IndexOfMethod ==
  ASSUME NEW c \in APIConf, Accepted(c), PlainNames(c), NEW p \in MethodPlaces(c)
  PROVE  /\ FullMethod(c, p) \in DOMAIN MethodsIndex(c) <=> MethodAt(c, p).auth # NoAuth
         /\ MethodAt(c, p).auth # NoAuth =>
              MethodsIndex(c)[FullMethod(c, p)] = MethodAt(c, p).auth
         /\ ApiAt(c, p).name \in DOMAIN MethodsIndex(c) <=> ApiAt(c, p).auth # NoAuth
         /\ ApiAt(c, p).auth # NoAuth =>
              MethodsIndex(c)[ApiAt(c, p).name] = ApiAt(c, p).auth
<1>1. Contains(FullMethod(c, p), "/")
  BY FullMethodHasSlash
<1>2. p \in Places(c) /\ p[1] \in DOMAIN c.apis /\ p[2] # 0 /\ ApiAt(c, p) = c.apis[p[1]]
  BY MethodTypes, PlaceTypes DEF ApiAt
<1>3. ~Contains(ApiAt(c, p).name, "/")
  BY <1>2 DEF PlainNames
<1>4. \A q \in IndexPlaces(c) : Key(c, q) = FullMethod(c, p) => q = p
  <2> SUFFICES ASSUME NEW q \in IndexPlaces(c), Key(c, q) = FullMethod(c, p) PROVE q = p
    OBVIOUS
  <2>1. q \in MethodPlaces(c) /\ Key(c, q) = FullMethod(c, q)
    BY <1>1, IndexPlaceKinds
  <2> QED
    BY <2>1 DEF Accepted, UniqueMethods
<1>5. \A q \in IndexPlaces(c) : Key(c, q) = ApiAt(c, p).name => q = <<p[1], 0>>
  <2> SUFFICES ASSUME NEW q \in IndexPlaces(c), Key(c, q) = ApiAt(c, p).name
               PROVE  q = <<p[1], 0>>
    OBVIOUS
  <2>1. q[1] \in DOMAIN c.apis /\ q = <<q[1], 0>> /\ Key(c, q) = c.apis[q[1]].name
    BY <1>3, IndexPlaceKinds
  <2>2. q[1] = p[1]
    BY <1>2, <2>1 DEF Accepted
  <2> QED
    BY <2>1, <2>2
<1>6. p \in IndexPlaces(c) <=> MethodAt(c, p).auth # NoAuth
  <2>1. p \in IndexPlaces(c) => MethodAt(c, p).auth # NoAuth
    <3>1. p # <<p[1], 0>>
      BY <1>2
    <3> QED
      BY <3>1, IndexPlaceKinds
  <2> QED
    BY <2>1 DEF IndexPlaces
<1>7. Key(c, p) = FullMethod(c, p) /\ AuthAt(c, p) = MethodAt(c, p).auth
  BY <1>2 DEF Key, AuthAt
<1>8. /\ FullMethod(c, p) \in DOMAIN MethodsIndex(c) <=> MethodAt(c, p).auth # NoAuth
      /\ MethodAt(c, p).auth # NoAuth =>
           MethodsIndex(c)[FullMethod(c, p)] = MethodAt(c, p).auth
  BY <1>4, <1>6, <1>7, IndexHolds
<1> DEFINE a == <<p[1], 0>>
<1>9. a[1] = p[1] /\ a[2] = 0
  OBVIOUS
<1>10. Key(c, a) = ApiAt(c, p).name /\ AuthAt(c, a) = ApiAt(c, p).auth
  BY <1>2, <1>9 DEF Key, AuthAt, ApiAt
<1>11. a \in IndexPlaces(c) <=> ApiAt(c, p).auth # NoAuth
  <2>1. ASSUME a \in IndexPlaces(c) PROVE ApiAt(c, p).auth # NoAuth
    <3>1. a \notin MethodPlaces(c)
      BY <1>9, MethodTypes, PlaceTypes
    <3> QED
      BY <1>2, <1>9, <2>1, <3>1, IndexPlaceKinds
  <2>2. ASSUME ApiAt(c, p).auth # NoAuth PROVE a \in IndexPlaces(c)
    BY <1>2, <2>2 DEF IndexPlaces
  <2> QED
    BY <2>1, <2>2
<1> HIDE DEF a
<1>12. /\ ApiAt(c, p).name \in DOMAIN MethodsIndex(c) <=> ApiAt(c, p).auth # NoAuth
       /\ ApiAt(c, p).auth # NoAuth => MethodsIndex(c)[ApiAt(c, p).name] = ApiAt(c, p).auth
  <2>1. \A q \in IndexPlaces(c) : Key(c, q) = ApiAt(c, p).name => q = a
    BY <1>5 DEF a
  <2> QED
    BY <1>10, <1>11, <2>1, IndexHolds
<1> QED
  BY <1>8, <1>12

------------------------------------------------------------------------------
\* The adapter's index is that of the configuration, also after Validate has changed
\* it, and a request on its way to the backend has the auth the adapter found.
JudgedInv ==
  /\ adapter = "up" => index = MethodsIndex(config)
  /\ request.at \in {"judged", "sent"} =>
       adapter = "up" /\ request.auth = Requested(request.path)

\* It holds before any request, and every step keeps it.
LEMMA JudgedInit == Init => JudgedInv
  BY DEF Init, JudgedInv, NoRequest

\* Two configurations with the same APIs have the same index.
LEMMA SameApisIndex ==
  ASSUME NEW c, NEW d, d.apis = c.apis
  PROVE  MethodsIndex(d) = MethodsIndex(c)
<1>1. /\ IndexPlaces(d) = IndexPlaces(c)
      /\ \A p : Key(d, p) = Key(c, p) /\ AuthAt(d, p) = AuthAt(c, p)
  BY SameApis
<1> QED
  BY <1>1 DEF MethodsIndex

\* A step keeps JudgedInv that leaves the adapter alone and judges nothing.
LEMMA JudgedBefore ==
  ASSUME JudgedInv, UNCHANGED <<adapter, index>>, config'.apis = config.apis,
         request'.at \in {"judged", "sent"} =>
           /\ request.at \in {"judged", "sent"}
           /\ request'.path = request.path /\ request'.auth = request.auth
  PROVE  JudgedInv'
<1>1. MethodsIndex(config') = MethodsIndex(config)
  BY SameApisIndex
<1>2. adapter' = "up" => index' = MethodsIndex(config')
  BY <1>1 DEF JudgedInv
<1>3. ASSUME request'.at \in {"judged", "sent"}
      PROVE  adapter' = "up" /\ request'.auth = Requested(request.path)'
  <2>1. /\ adapter = "up" /\ request'.path = request.path
        /\ request'.auth = Requested(request.path)
    BY <1>3 DEF JudgedInv
  <2> QED
    BY <2>1 DEF Requested
<1> QED
  BY <1>2, <1>3 DEF JudgedInv

\* Only Check judges, with the index as it is; the adapter starts once, and nothing is
\* judged before.
LEMMA JudgedStep == GatewayInv /\ JudgedInv /\ [Next]_vars => JudgedInv'
<1> SUFFICES ASSUME GatewayInv, JudgedInv, [Next]_vars PROVE JudgedInv'
  OBVIOUS
<1>r. request = [at |-> request.at, path |-> request.path, route |-> request.route,
                 auth |-> request.auth, sent |-> request.sent]
  BY DEF GatewayInv, RequestInv
<1>1. CASE LoadConfig \/ GenerateEnvoyConfig \/ EnvoyStarts \/ UNCHANGED vars
  <2>1. UNCHANGED <<config, adapter, index, request>>
    BY <1>1 DEF LoadConfig, GenerateEnvoyConfig, EnvoyStarts, vars
  <2> QED
    BY <2>1, JudgedBefore
<1>2. CASE Validate
  <2>1. config'.apis = config.apis
    BY <1>2, DefaultsOfConfig DEF Validate, GatewayInv, FileInv
  <2>2. UNCHANGED <<adapter, index, request>>
    BY <1>2 DEF Validate
  <2> QED
    BY <2>1, <2>2, JudgedBefore
<1>3. CASE AdapterStarts
  <2>1. request' = request /\ config' = config /\ adapter = "start"
    BY <1>3 DEF AdapterStarts
  <2>2. request'.at \notin {"judged", "sent"}
    BY <2>1 DEF JudgedInv
  <2>3. adapter' = "up" => index' = MethodsIndex(config')
    BY <1>3, <2>1 DEF AdapterStarts
  <2> QED
    BY <2>2, <2>3 DEF JudgedInv
<1>4. ASSUME NEW path \in Paths, Arrive(path) \/ NotFound(path) PROVE JudgedInv'
  <2>1. UNCHANGED <<config, adapter, index>>
    BY <1>4 DEF Arrive, NotFound
  <2>2. request'.at \in {"routed", "refused"}
    BY <1>4 DEF Arrive, NotFound, NoRequest
  <2> QED
    BY <2>1, <2>2, JudgedBefore
<1>5. CASE OverLimit \/ Unauthorized
  <2>1. UNCHANGED <<config, adapter, index>> /\ request' = [request EXCEPT !.at = "refused"]
    BY <1>5 DEF OverLimit, Unauthorized
  <2>2. request'.at = "refused"
    BY <1>r, <2>1
  <2> QED
    BY <2>1, <2>2, JudgedBefore
<1>6. CASE Check
  <2> DEFINE auth == IF adapter = "up" /\ Parsed(request.path)
                     THEN Requested(request.path) ELSE NoAuth
             at == IF auth = NoAuth THEN "refused" ELSE "judged"
  <2>1. /\ request' = [request EXCEPT !.at = at, !.auth = auth]
        /\ UNCHANGED <<config, adapter, index>>
    BY <1>6 DEF Check
  <2>2. at \in {"judged", "sent"} => adapter = "up" /\ auth = Requested(request.path)
    OBVIOUS
  <2> HIDE DEF auth, at
  <2>3. request'.at = at /\ request'.path = request.path /\ request'.auth = auth
    BY <1>r, <2>1
  <2>4. Requested(request.path)' = Requested(request.path)
    BY <2>1, <2>3 DEF Requested
  <2>5. adapter' = "up" => index' = MethodsIndex(config')
    BY <2>1 DEF JudgedInv
  <2>6. request'.at \in {"judged", "sent"} =>
          adapter' = "up" /\ request'.auth = Requested(request.path)'
    BY <2>1, <2>2, <2>3, <2>4
  <2> QED
    BY <2>5, <2>6 DEF JudgedInv
<1>7. CASE Forward
  <2>1. PICK sent : /\ request' = [request EXCEPT !.at = "sent", !.sent = sent]
                    /\ request.at = "judged" /\ UNCHANGED <<config, adapter, index>>
    BY <1>7 DEF Forward
  <2>2. request'.path = request.path /\ request'.auth = request.auth
    BY <1>r, <2>1
  <2> QED
    BY <2>1, <2>2, JudgedBefore
<1>8. CASE Answered
  <2>1. UNCHANGED <<config, adapter, index>> /\ request'.at = "none"
    BY <1>8 DEF Answered, NoRequest
  <2> QED
    BY <2>1, JudgedBefore
<1> QED
  BY <1>1, <1>2, <1>3, <1>4, <1>5, <1>6, <1>7, <1>8 DEF Next

\* The pieces of a concatenation.
LEMMA PiecesOfConcat ==
  \A x, y \in Seq(Pieces) :
    /\ x \o y \in Seq(Pieces) /\ Len(x \o y) = Len(x) + Len(y)
    /\ \A k \in 1 .. Len(x) : (x \o y)[k] = x[k]
    /\ \A k \in 1 .. Len(y) : (x \o y)[Len(x) + k] = y[k]
<1> TAKE x, y \in Seq(Pieces)
<1> DEFINE z == x \o y
<1>1. Len(x) \in Nat /\ Len(y) \in Nat
  BY LenProperties
<1>2. /\ z \in Seq(Pieces) /\ Len(z) = Len(x) + Len(y)
      /\ \A k \in 1 .. Len(x) + Len(y) : z[k] = IF k <= Len(x) THEN x[k] ELSE y[k - Len(x)]
  BY ConcatProperties
<1> HIDE DEF z
<1>3. \A k \in 1 .. Len(x) : k \in 1 .. Len(x) + Len(y) /\ k <= Len(x)
  BY <1>1
<1>4. \A k \in 1 .. Len(y) : /\ Len(x) + k \in 1 .. Len(x) + Len(y) /\ ~(Len(x) + k <= Len(x))
                             /\ Len(x) + k - Len(x) = k
  BY <1>1
<1>5. \A k \in 1 .. Len(x) : z[k] = x[k]
  BY <1>2, <1>3
<1>6. ASSUME NEW k \in 1 .. Len(y) PROVE z[Len(x) + k] = y[k]
  <2>1. z[Len(x) + k] = y[Len(x) + k - Len(x)]
    BY <1>2, <1>4
  <2> QED
    BY <1>4, <2>1, Zenon
<1> QED
  BY <1>2, <1>5, <1>6 DEF z

\* The path a request for a method has.
LEMMA AsksUnderApi ==
  ASSUME config \in APIConf, config.route = <<"/", "api", "/">>,
         NEW path \in Seq(Pieces), NEW p \in MethodPlaces(config), AsksFor(path, p),
         ~Contains(ApiAt(config, p).name, "/"), ~Contains(MethodAt(config, p).name, "/")
  PROVE  MethodOf(path) = FullMethod(config, p) /\ ServiceOf(path) = ApiAt(config, p).name
<1> DEFINE a == ApiAt(config, p).name
           m == MethodAt(config, p).name
           api == config.route
           b == a \o Slash
           n == b \o m
           own == api \o n
<1>1. a \in Seq(Pieces) /\ m \in Seq(Pieces) /\ Slash \in Seq(Pieces) /\ api \in Seq(Pieces)
  BY Names DEF MethodPlaces
<1>2. Len(Slash) = 1 /\ Slash[1] = "/"
  BY DEF Slash
<1>3. Len(api) = 3 /\ api[1] = "/" /\ api[2] = "api" /\ api[3] = "/"
  OBVIOUS
<1>4. AsksFor(path, p) /\ FullMethod(config, p) = n /\ ~Contains(a, "/") /\ ~Contains(m, "/")
  BY DEF FullMethod
<1>5. IsPrefix(own, path) /\ (Rest(path, own) = <<>> \/ Rest(path, own)[1] = "/")
  BY <1>4 DEF AsksFor
<1> HIDE DEF a, m, api
<1>6. Len(a) \in Nat /\ Len(m) \in Nat /\ Len(path) \in Nat
  BY <1>1, LenProperties
<1>7. /\ b \in Seq(Pieces) /\ Len(b) = Len(a) + 1
      /\ \A k \in 1 .. Len(a) : b[k] = a[k]
      /\ b[Len(a) + 1] = "/"
  <2>1. 1 \in 1 .. Len(Slash)
    BY <1>2
  <2>2. /\ b \in Seq(Pieces) /\ Len(b) = Len(a) + Len(Slash)
        /\ \A k \in 1 .. Len(a) : b[k] = a[k]
        /\ \A k \in 1 .. Len(Slash) : b[Len(a) + k] = Slash[k]
    BY <1>1, PiecesOfConcat
  <2> HIDE DEF b
  <2> QED
    BY <1>2, <2>1, <2>2
<1> HIDE DEF b
<1>8. /\ n \in Seq(Pieces) /\ Len(n) = Len(b) + Len(m)
      /\ \A k \in 1 .. Len(b) : n[k] = b[k]
      /\ \A k \in 1 .. Len(m) : n[Len(b) + k] = m[k]
  BY <1>1, <1>7, PiecesOfConcat
<1> HIDE DEF n
<1>9. /\ own \in Seq(Pieces) /\ Len(own) = 3 + Len(n)
      /\ \A k \in 1 .. 3 : own[k] = api[k]
      /\ \A k \in 1 .. Len(n) : own[3 + k] = n[k]
  <2>1. /\ own \in Seq(Pieces) /\ Len(own) = Len(api) + Len(n)
        /\ \A k \in 1 .. Len(api) : own[k] = api[k]
        /\ \A k \in 1 .. Len(n) : own[Len(api) + k] = n[k]
    BY <1>1, <1>8, PiecesOfConcat
  <2> HIDE DEF own
  <2> QED
    BY <1>3, <2>1
<1> HIDE DEF own
<1>10. Len(own) <= Len(path) /\ \A k \in 1 .. Len(own) : own[k] = path[k]
  BY <1>5, <1>9, PrefixElements
<1>11. Len(own) = Len(a) + Len(m) + 4
  BY <1>6, <1>7, <1>8, <1>9
<1>12. UnderApi(path, a, m)
  <2>1. path[1] = "/" /\ path[2] = "api" /\ path[3] = "/"
    BY <1>3, <1>6, <1>9, <1>10, <1>11
  <2>2. \A k \in 1 .. Len(a) : path[3 + k] = a[k]
    <3> SUFFICES ASSUME NEW k \in 1 .. Len(a) PROVE path[3 + k] = a[k]
      OBVIOUS
    <3>1. k \in 1 .. Len(b) /\ k \in 1 .. Len(n) /\ 3 + k \in 1 .. Len(own)
      BY <1>6, <1>7, <1>8, <1>9
    <3> QED
      BY <1>7, <1>8, <1>9, <1>10, <3>1
  <2>3. path[Len(a) + 4] = "/"
    <3>1. /\ Len(a) + 1 \in 1 .. Len(b) /\ Len(a) + 1 \in 1 .. Len(n)
          /\ 3 + (Len(a) + 1) = Len(a) + 4 /\ Len(a) + 4 \in 1 .. Len(own)
      BY <1>6, <1>7, <1>8, <1>9
    <3>2. /\ own[3 + (Len(a) + 1)] = n[Len(a) + 1] /\ n[Len(a) + 1] = b[Len(a) + 1]
      BY <1>8, <1>9, <3>1
    <3> QED
      BY <1>7, <1>10, <3>1, <3>2
  <2>4. \A k \in 1 .. Len(m) : path[Len(a) + 4 + k] = m[k]
    <3> SUFFICES ASSUME NEW k \in 1 .. Len(m) PROVE path[Len(a) + 4 + k] = m[k]
      OBVIOUS
    <3>1. /\ Len(b) + k \in 1 .. Len(n) /\ 3 + (Len(b) + k) = Len(a) + 4 + k
          /\ Len(a) + 4 + k \in 1 .. Len(own)
      BY <1>6, <1>7, <1>8, <1>9
    <3>2. own[3 + (Len(b) + k)] = n[Len(b) + k] /\ n[Len(b) + k] = m[k]
      BY <1>8, <1>9, <3>1
    <3> QED
      BY <1>10, <3>1, <3>2
  <2>5. Len(path) > Len(a) + Len(m) + 4 => path[Len(a) + Len(m) + 5] = "/"
    <3> SUFFICES ASSUME Len(path) > Len(own) PROVE path[Len(own) + 1] = "/"
      BY <1>6, <1>11
    <3> DEFINE rest == Rest(path, own)
    <3>1. \A k \in Len(own) + 1 .. Len(path) : k \in 1 .. Len(path)
      BY <1>6, <1>11
    <3>2. \A k \in Len(own) + 1 .. Len(path) : path[k] \in Pieces
      BY <3>1, ElementOfSeq
    <3>3. /\ Len(rest) = IF Len(own) + 1 <= Len(path) THEN Len(path) - (Len(own) + 1) + 1 ELSE 0
          /\ \A k \in 1 .. Len(path) - (Len(own) + 1) + 1 : rest[k] = path[Len(own) + 1 + k - 1]
      BY <1>6, <1>11, <3>2, SubSeqProperties DEF Rest
    <3> HIDE DEF rest
    <3>4. Len(rest) > 0 /\ rest[1] = path[Len(own) + 1]
      BY <1>6, <1>11, <3>3
    <3>5. rest # <<>>
      BY <3>4
    <3>6. rest[1] = "/"
      BY <1>5, <3>5 DEF rest
    <3> QED
      BY <3>4, <3>6
  <2> QED
    BY <1>4, <1>10, <1>11, <2>1, <2>2, <2>3, <2>4, <2>5 DEF UnderApi
<1>13. Part(path, 2) = a /\ Part(path, 3) = m
  BY <1>1, <1>12, PartsOfPath
<1> QED
  BY <1>4, <1>13 DEF MethodOf, ServiceOf, FullMethod, a, m

\* A request for a method is judged by the method's auth, or its API's.
THEOREM JudgedByOwn == Spec => []JudgedByOwnAuth
<1>1. GatewayInv /\ JudgedInv => JudgedByOwnAuth
  <2> SUFFICES ASSUME GatewayInv, JudgedInv, request.at \in {"judged", "sent"},
                      PlainNames(config), config.route = <<"/", "api", "/">>,
                      NEW p \in MethodPlaces(config), AsksFor(request.path, p),
                      ~Contains(MethodAt(config, p).name, "/")
               PROVE  request.auth = IF MethodAt(config, p).auth # NoAuth
                                     THEN MethodAt(config, p).auth ELSE ApiAt(config, p).auth
    BY DEF JudgedByOwnAuth
  <2>1. request.route # NoRoute
    BY DEF GatewayInv, RequestInv
  <2>2. config \in APIConf /\ Accepted(config) /\ request.path \in Seq(Pieces)
    BY <2>1, RoutedTypes DEF Usable
  <2>3. p[1] \in DOMAIN config.apis /\ ApiAt(config, p) = config.apis[p[1]]
    BY <2>2, MethodTypes, PlaceTypes DEF ApiAt
  <2>4. ~Contains(ApiAt(config, p).name, "/")
    BY <2>3 DEF PlainNames
  <2>5. /\ MethodOf(request.path) = FullMethod(config, p)
        /\ ServiceOf(request.path) = ApiAt(config, p).name
    BY <2>2, <2>4, AsksUnderApi
  <2>6. index = MethodsIndex(config) /\ request.auth = Requested(request.path)
    BY DEF JudgedInv
  <2>7. request.auth = IF FullMethod(config, p) \in DOMAIN index
                       THEN index[FullMethod(config, p)]
                       ELSE IF ApiAt(config, p).name \in DOMAIN index
                            THEN index[ApiAt(config, p).name] ELSE NoAuth
    BY <2>5, <2>6 DEF Requested
  <2> QED
    BY <2>2, <2>6, <2>7, IndexOfMethod
<1>2. Init => JudgedInv
  BY JudgedInit
<1>3. GatewayInv /\ JudgedInv /\ [Next]_vars => JudgedInv'
  BY JudgedStep
<1> QED
  BY <1>1, <1>2, <1>3, GatewayInvariant, PTL DEF Spec
==============================================================================
