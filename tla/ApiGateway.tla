------------------------------ MODULE ApiGateway ------------------------------
(***************************************************************************)
(* The API gateway: a generator (api-gateway-image) turns config.yaml into *)
(* the configuration of Envoy, the auth adapter builds its index of        *)
(* policies from the same file, and a request then passes both: Envoy      *)
(* takes the first route whose prefix fits the path, the adapter looks up  *)
(* the segments of that path.  Names, routes and paths are sequences of    *)
(* pieces, and the piece "/" is what the two of them cut a path at.        *)
(*                                                                         *)
(* AnyMethods, HostOfAddress, KeepService, ApiAuth and LastSegment are     *)
(* faulty forms of the definition after them, no part of the               *)
(* specification.                                                          *)
(***************************************************************************)
EXTENDS Integers, FiniteSets, SequencesExt

CONSTANTS Configs,     \* what the file may hold
          Paths,       \* paths of requests
          PortNumbers, \* the texts that are numbers
          Ports,       \* those of them that are ports
          Parses,      \* the texts that are durations
          Booleans,    \* the texts that are booleans
          NoAuth, NoLimit, NoText, NoTLS, NoSection, NoFile, NoRoute

Slash == <<"/">>
Name == Seq(STRING)

Policies == {"required", "optional", "no-need"}
Periods == {"1s", "1m", "1h"}

\* The generator takes delay as it comes and has no need_recaptcha (recaptcha): only
\* the adapter decodes them, if the file has them.
Text == STRING \cup {NoText}
RateLimit == [count : Int, period : STRING, delay : Text]
AuthConf == [policy : STRING, recaptcha : Text, limit : RateLimit \cup {NoLimit}]
Method == [name : Name, auth : AuthConf \cup {NoAuth}]
API == [name : Name, cluster : STRING, auth : AuthConf \cup {NoAuth}, methods : Seq(Method)]

\* HealthCheckConf and CircuitBreakerConf: their numbers, 0 where the file has none.
HealthDefaults == [interval |-> 30, timeout |-> 5, healthy |-> 2, unhealthy |-> 3]
BreakerDefaults == [connections |-> 1024, pending |-> 1024, requests |-> 1024, retries |-> 3]
Health == [path : STRING, numbers : [DOMAIN HealthDefaults -> Int]]
Breaker == [DOMAIN BreakerDefaults -> Int]

\* addr is the address cut at its colons.
ClusterConf == [name : STRING, addr : Seq(STRING), type : STRING,
                tls : [enabled : BOOLEAN, sni : STRING] \cup {NoTLS},
                health : Health \cup {NoSection}, breaker : Breaker \cup {NoSection}]

APIConf == [route : Name, clusters : Seq(ClusterConf), apis : Seq(API)]

ASSUME GatewayAssumption ==
  /\ Configs \subseteq APIConf
  /\ Paths \subseteq Name
  /\ Ports \subseteq PortNumbers
  /\ Periods \subseteq Parses
  /\ NoAuth \notin AuthConf /\ NoLimit \notin RateLimit /\ NoRoute \notin Nat \X Nat

VARIABLES config,  \* the configuration the generator works on
          gateway, \* how far the gateway's container is
          file,    \* envoy.yaml: the routes by the place they come from, the clusters
          adapter, \* how far the auth adapter's container is
          index,   \* methodsIndex of the adapter
          request  \* the request under way

vars == <<config, gateway, file, adapter, index, request>>

NoRequest == [at |-> "none", path |-> <<>>, route |-> NoRoute, auth |-> NoAuth, sent |-> <<>>]

Init ==
  /\ config \in Configs
  /\ gateway = "start" /\ file = NoFile
  /\ adapter = "start" /\ index = <<>>
  /\ request = NoRequest

------------------------------------------------------------------------------
\* The places a route comes from, in the order of the file: method j of API i, or,
\* after the methods of API i, the API itself.
Places(c) == UNION {{i} \X (1 .. Len(c.apis[i].methods) + 1) : i \in DOMAIN c.apis}
IsMethod(c, p) == p[2] <= Len(c.apis[p[1]].methods)
MethodPlaces(c) == {p \in Places(c) : IsMethod(c, p)}
Before(p, q) == p[1] < q[1] \/ (p[1] = q[1] /\ p[2] < q[2])

ApiAt(c, p) == c.apis[p[1]]
MethodAt(c, p) == c.apis[p[1]].methods[p[2]]
FullMethod(c, p) == ApiAt(c, p).name \o Slash \o MethodAt(c, p).name

ValidAuth(a) ==
  a # NoAuth =>
    /\ a.policy \in Policies
    /\ a.limit # NoLimit => a.limit.count > 0 /\ a.limit.period \in Periods

ValidCluster(cl) ==
  /\ Len(cl.addr) = 2 /\ cl.addr[2] \in PortNumbers
  /\ cl.type \in {"", "grpc", "http"}
  /\ cl.health # NoSection => cl.health.path # ""

AnyMethods(c) == TRUE
UniqueMethods(c) == \A p, q \in MethodPlaces(c) : FullMethod(c, p) = FullMethod(c, q) => p = q

\* APIConf.Validate: what the generator accepts.
Accepted(c) ==
  /\ Len(c.route) > 0 /\ c.route[1] = "/"
  /\ \A i, j \in DOMAIN c.clusters : c.clusters[i].name = c.clusters[j].name => i = j
  /\ \A i \in DOMAIN c.clusters : ValidCluster(c.clusters[i])
  /\ \A i, j \in DOMAIN c.apis : c.apis[i].name = c.apis[j].name => i = j
  /\ \A i \in DOMAIN c.apis :
       /\ \E k \in DOMAIN c.clusters : c.clusters[k].name = c.apis[i].cluster
       /\ ValidAuth(c.apis[i].auth)
  /\ UniqueMethods(c)
  /\ \A p \in MethodPlaces(c) : ValidAuth(MethodAt(c, p).auth)

Fill(numbers, defaults) ==
  [f \in DOMAIN defaults |-> IF numbers[f] <= 0 THEN defaults[f] ELSE numbers[f]]

FilledHealth(h) ==
  IF h = NoSection THEN NoSection ELSE [h EXCEPT !.numbers = Fill(h.numbers, HealthDefaults)]
FilledBreaker(b) == IF b = NoSection THEN NoSection ELSE Fill(b, BreakerDefaults)

\* ClusterConf.Validate has a copy of the cluster, which points to the sections of the
\* original: the defaults stay.
WithDefaults(cl) ==
  [cl EXCEPT !.health = FilledHealth(cl.health), !.breaker = FilledBreaker(cl.breaker)]

Defaulted(c) == [c EXCEPT !.clusters = [i \in DOMAIN @ |-> WithDefaults(@[i])]]

------------------------------------------------------------------------------
ClusterOf(c, api) ==
  c.clusters[CHOOSE k \in DOMAIN c.clusters : c.clusters[k].name = api.cluster]

IsHTTP(cl) == cl.type = "http"
IsTLS(cl) == cl.tls # NoTLS /\ cl.tls.enabled
SNI(cl) == IF cl.tls # NoTLS /\ cl.tls.sni # "" THEN cl.tls.sni ELSE cl.addr[1]
HostOfAddress(cl) == IF IsTLS(cl) THEN cl.addr[1] ELSE ""
HostRewrite(cl) == IF IsTLS(cl) THEN SNI(cl) ELSE ""

Seconds(period) == CASE period = "1s" -> 1 [] period = "1h" -> 3600 [] OTHER -> 60

\* The token bucket of a route: twice the count, refilled by the count.
Bucket(a) ==
  IF a = NoAuth \/ a.limit = NoLimit THEN NoLimit
  ELSE [max |-> 2 * a.limit.count, fill |-> a.limit.count, seconds |-> Seconds(a.limit.period)]

RouteTo(c, p, name, rewrite, bucket) ==
  LET cl == ClusterOf(c, ApiAt(c, p))
  IN  [prefix |-> c.route \o name, rewrite |-> Slash \o rewrite,
       cluster |-> ApiAt(c, p).cluster, http |-> IsHTTP(cl), host |-> HostRewrite(cl),
       bucket |-> bucket]

ToHTTP(c, p) == IsHTTP(ClusterOf(c, ApiAt(c, p)))

\* envoyHttpRouteTmpl strips the name of the API, envoyGrpcRouteTmpl keeps it.
KeepService(c, p) == FullMethod(c, p)
MethodRewrite(c, p) == IF ToHTTP(c, p) THEN MethodAt(c, p).name ELSE FullMethod(c, p)

ApiAuth(c, p) == ApiAt(c, p).auth
LimitedBy(c, p) == MethodAt(c, p).auth

MethodRoute(c, p) ==
  RouteTo(c, p, FullMethod(c, p), MethodRewrite(c, p), Bucket(LimitedBy(c, p)))

\* envoyHttpApiRouteTmpl ends the prefix with a slash, envoyGrpcRouteTmpl does not; the
\* rate limit of the API itself is in neither.
ApiRoute(c, p) ==
  IF ToHTTP(c, p) THEN RouteTo(c, p, ApiAt(c, p).name \o Slash, <<>>, NoLimit)
  ELSE RouteTo(c, p, ApiAt(c, p).name, ApiAt(c, p).name, NoLimit)

Routes(c) ==
  [p \in Places(c) |-> IF IsMethod(c, p) THEN MethodRoute(c, p) ELSE ApiRoute(c, p)]

\* envoyHttpClusterTmpl and envoyGrpcClusterTmpl: HTTP/1.1 or HTTP/2 to the address.
Upstream(cl) ==
  [name |-> cl.name, http |-> IsHTTP(cl), host |-> cl.addr[1], port |-> cl.addr[2],
   sni |-> IF IsTLS(cl) THEN SNI(cl) ELSE "", health |-> cl.health, breaker |-> cl.breaker]

\* The clusters envoyConfTmpl writes before those of the file.
FixedClusters == {"ext_auth", "opentelemetry_collector"}

Generated(c) ==
  [routes |-> Routes(c), clusters |-> [i \in DOMAIN c.clusters |-> Upstream(c.clusters[i])]]

------------------------------------------------------------------------------
\* What LoadConfig of the adapter puts into its index, in order: the auth of an API,
\* then those of its methods.
IndexPlaces(c) ==
  {<<i, 0>> : i \in {k \in DOMAIN c.apis : c.apis[k].auth # NoAuth}}
    \cup {p \in MethodPlaces(c) : MethodAt(c, p).auth # NoAuth}
Key(c, p) == IF p[2] = 0 THEN ApiAt(c, p).name ELSE FullMethod(c, p)
AuthAt(c, p) == IF p[2] = 0 THEN ApiAt(c, p).auth ELSE MethodAt(c, p).auth

\* The texts that only the adapter decodes: one that is absent is fine, but one that is
\* empty is no duration and no boolean.
Decodable(a) ==
  /\ a.recaptcha \in Booleans \cup {NoText}
  /\ a.limit # NoLimit => a.limit.delay \in Parses \cup {NoText}

\* A policy that is known, and fields that the YAML decoder takes.
Readable(a) ==
  /\ a.policy \in Policies
  /\ Decodable(a)
  /\ a.limit # NoLimit => a.limit.period \in Parses

\* A method is refused if its path is in the index already.
Loadable(c) ==
  /\ \A p \in IndexPlaces(c) : Readable(AuthAt(c, p))
  /\ \A p \in MethodPlaces(c) :
       ~\E q \in IndexPlaces(c) : Before(q, p) /\ Key(c, q) = FullMethod(c, p)

\* A name that is written twice keeps what was written last.
MethodsIndex(c) ==
  [key \in {Key(c, p) : p \in IndexPlaces(c)} |->
     AuthAt(c, CHOOSE p \in IndexPlaces(c) :
                 /\ Key(c, p) = key
                 /\ \A q \in IndexPlaces(c) : Key(c, q) = key => q = p \/ Before(q, p))]

\* strings.Split at the slashes: part n begins after the n-th of them.
Cuts(path) == {i \in DOMAIN path : path[i] = "/"}
Cut(path, n) ==
  IF Cardinality(Cuts(path)) < n THEN Len(path) + 1
  ELSE CHOOSE i \in Cuts(path) : Cardinality({k \in Cuts(path) : k <= i}) = n
Part(path, n) == SubSeq(path, Cut(path, n) + 1, Cut(path, n + 1) - 1)

\* parsePath, where it finds a service and a method.
Parsed(path) ==
  Cardinality(Cuts(path)) >= 3 /\ Part(path, 1) = <<"api">> /\ Part(path, 2) # <<>>
ServiceOf(path) == Part(path, 2)
LastSegment(path) == Part(path, 2) \o Slash \o Part(path, Cardinality(Cuts(path)))
MethodOf(path) == Part(path, 2) \o Slash \o Part(path, 3)

\* GetRequestedPermissions
Requested(path) ==
  IF MethodOf(path) \in DOMAIN index THEN index[MethodOf(path)]
  ELSE IF ServiceOf(path) \in DOMAIN index THEN index[ServiceOf(path)] ELSE NoAuth

------------------------------------------------------------------------------
LoadConfig ==
  /\ gateway = "start"
  /\ gateway' \in {"loaded", "failed"}
  /\ UNCHANGED <<config, file, adapter, index, request>>

Validate ==
  /\ gateway = "loaded"
  /\ IF Accepted(config) THEN gateway' = "valid" /\ config' = Defaulted(config)
     ELSE gateway' = "failed" /\ UNCHANGED config
  /\ UNCHANGED <<file, adapter, index, request>>

GenerateEnvoyConfig ==
  /\ gateway = "valid"
  /\ \/ gateway' = "written" /\ file' = Generated(config)
     \/ gateway' = "failed" /\ UNCHANGED file
  /\ UNCHANGED <<config, adapter, index, request>>

\* Envoy demands at least that no cluster is defined twice, that each has a name, a host
\* and a port, and that every route has one.  Validate looks at none of the names, hosts
\* and port ranges.
EnvoyAccepts(f) ==
  /\ \A i, j \in DOMAIN f.clusters : f.clusters[i].name = f.clusters[j].name => i = j
  /\ \A i \in DOMAIN f.clusters :
       /\ f.clusters[i].name \notin FixedClusters \cup {""}
       /\ f.clusters[i].host # "" /\ f.clusters[i].port \in Ports
  /\ \A p \in DOMAIN f.routes :
       \E i \in DOMAIN f.clusters : f.clusters[i].name = f.routes[p].cluster

\* It refuses a file for more than that, such as a CA certificate that is not there.
EnvoyStarts ==
  /\ gateway = "written"
  /\ gateway' = "failed" \/ (gateway' = "up" /\ EnvoyAccepts(file))
  /\ UNCHANGED <<config, file, adapter, index, request>>

AdapterStarts ==
  /\ adapter = "start"
  /\ IF Loadable(config) THEN adapter' = "up" /\ index' = MethodsIndex(config)
     ELSE adapter' = "failed" /\ UNCHANGED index
  /\ UNCHANGED <<config, gateway, file, request>>

\* Envoy takes the first route whose prefix fits.
Fitting(path) == {p \in DOMAIN file.routes : IsPrefix(file.routes[p].prefix, path)}

Arrive(path) ==
  /\ gateway = "up" /\ request.at = "none"
  /\ \E p \in Fitting(path) :
       /\ \A q \in Fitting(path) : q = p \/ Before(p, q)
       /\ request' = [NoRequest EXCEPT !.at = "routed", !.path = path, !.route = p]
  /\ UNCHANGED <<config, gateway, file, adapter, index>>

NotFound(path) ==
  /\ gateway = "up" /\ request.at = "none"
  /\ Fitting(path) = {}
  /\ request' = [NoRequest EXCEPT !.at = "refused", !.path = path]
  /\ UNCHANGED <<config, gateway, file, adapter, index>>

Route == file.routes[request.route]

\* The bucket of the route is empty, or the adapter's limiter refuses.
OverLimit ==
  /\ request.at = "routed"
  /\ \/ Route.bucket # NoLimit
     \/ /\ Parsed(request.path) /\ MethodOf(request.path) \in DOMAIN index
        /\ index[MethodOf(request.path)].limit # NoLimit
  /\ request' = [request EXCEPT !.at = "refused"]
  /\ UNCHANGED <<config, gateway, file, adapter, index>>

\* The adapter is asked about the path as it arrived; while it is down Envoy refuses.
Check ==
  /\ request.at = "routed"
  /\ LET auth == IF adapter = "up" /\ Parsed(request.path)
                 THEN Requested(request.path) ELSE NoAuth
     IN  request' = [request EXCEPT !.at = IF auth = NoAuth THEN "refused" ELSE "judged",
                                    !.auth = auth]
  /\ UNCHANGED <<config, gateway, file, adapter, index>>

Unauthorized ==
  /\ request.at = "judged" /\ request.auth.policy = "required"
  /\ request' = [request EXCEPT !.at = "refused"]
  /\ UNCHANGED <<config, gateway, file, adapter, index>>

Rest(path, prefix) == SubSeq(path, Len(prefix) + 1, Len(path))

Forward ==
  /\ request.at = "judged"
  /\ request' = [request EXCEPT !.at = "sent",
                                !.sent = Route.rewrite \o Rest(request.path, Route.prefix)]
  /\ UNCHANGED <<config, gateway, file, adapter, index>>

Answered ==
  /\ request.at \in {"refused", "sent"}
  /\ request' = NoRequest
  /\ UNCHANGED <<config, gateway, file, adapter, index>>

Next ==
  \/ LoadConfig \/ Validate \/ GenerateEnvoyConfig \/ EnvoyStarts
  \/ AdapterStarts
  \/ \E path \in Paths : Arrive(path) \/ NotFound(path)
  \/ OverLimit \/ Check \/ Unauthorized \/ Forward \/ Answered

Spec == Init /\ [][Next]_vars

------------------------------------------------------------------------------
Written == file # NoFile

\* A route and a cluster fit: they speak one protocol, and the host is rewritten to
\* the name the cluster's TLS presents.
Fits(route, up) == route.cluster = up.name /\ route.http = up.http /\ route.host = up.sni

\* Each route names exactly one of the clusters, and fits it.
RoutesFitClusters(f) ==
  \A p \in DOMAIN f.routes : \E k \in DOMAIN f.clusters :
    /\ Fits(f.routes[p], f.clusters[k])
    /\ \A i \in DOMAIN f.clusters : f.clusters[i].name = f.routes[p].cluster => i = k

\* No threshold, interval or circuit breaker is zero.
NumbersArePositive(up) ==
  /\ up.health # NoSection => \A n \in DOMAIN up.health.numbers : up.health.numbers[n] > 0
  /\ up.breaker # NoSection => \A n \in DOMAIN up.breaker : up.breaker[n] > 0

\* No route is left dangling, and nothing to guess: whatever configuration Validate
\* accepts, in the file that is written each route fits its one cluster, and the numbers
\* that the configuration leaves out have their defaults.
WrittenFileIsUsable ==
  Written => /\ RoutesFitClusters(file)
             /\ \A k \in DOMAIN file.clusters : NumbersArePositive(file.clusters[k])

PlainNames(c) == \A i \in DOMAIN c.apis : ~Contains(c.apis[i].name, "/")

\* Two programs validate the file, each in its own way.  When the names of the APIs
\* have no slash and the texts that only the adapter decodes can be, what the generator
\* accepts the adapter loads: no other configuration puts the gateway in front of an
\* adapter that cannot start.
LoadersAgree ==
  /\ Written /\ PlainNames(config)
  /\ \A p \in IndexPlaces(config) : Decodable(AuthAt(config, p))
  => adapter # "failed"

\* What the backend is sent for a path by route p.
SentBy(p, path) == file.routes[p].rewrite \o Rest(path, file.routes[p].prefix)

\* Within an API it does not matter which route takes a request, its own method's, that
\* of a method whose name begins like it, or the API's: the backend is sent the same by
\* each that fits.  (Whether the API's name is part of it the templates say,
\* envoy_conf_generator.go:11 and 25, not the comments of config.yaml:131 and 148.)
SentAlike ==
  request.at = "sent" =>
    \A p \in Fitting(request.path) :
      p[1] = request.route[1] => request.sent = SentBy(p, request.path)

Shadowed(p) == \E q \in DOMAIN file.routes :
                 Before(q, p) /\ IsPrefix(file.routes[q].prefix, file.routes[p].prefix)

Longest(path, p) ==
  /\ p \in Fitting(path)
  /\ \A q \in Fitting(path) : Len(file.routes[q].prefix) <= Len(file.routes[p].prefix)

\* Envoy takes the first route, and still a request takes the longest one that fits its
\* path, with the cluster of its API and the bucket of its method alone, twice its
\* count, as long as no earlier route has a prefix of that one's prefix.
LongestRouteTaken ==
  request.route # NoRoute =>
    \A p \in MethodPlaces(config) :
      Longest(request.path, p) /\ ~Shadowed(p) =>
        /\ Route.cluster = ApiAt(config, p).cluster
        /\ Route.bucket = Bucket(MethodAt(config, p).auth)

\* The path asks for method p: its name, and at most more segments.
AsksFor(path, p) ==
  LET own == config.route \o FullMethod(config, p)
  IN  IsPrefix(own, path) /\ (Rest(path, own) = <<>> \/ Rest(path, own)[1] = "/")

\* The two readers of a path agree.  Under /api/, where the adapter looks for it, and
\* when no name has a slash, a request for a method is judged by that method's own
\* auth, or its API's if it has none, whatever route Envoy took.
JudgedByOwnAuth ==
  /\ request.at \in {"judged", "sent"}
  /\ PlainNames(config) /\ config.route = <<"/", "api", "/">>
  => \A p \in MethodPlaces(config) :
      AsksFor(request.path, p) /\ ~Contains(MethodAt(config, p).name, "/") =>
        request.auth = IF MethodAt(config, p).auth # NoAuth THEN MethodAt(config, p).auth
                       ELSE ApiAt(config, p).auth
==============================================================================
