----------------------------- MODULE MCApiGateway -----------------------------
EXTENDS ApiGateway

NoNeed == [policy |-> "no-need", recaptcha |-> NoText, limit |-> NoLimit]
Limit(n, period) == [policy |-> "required", recaptcha |-> NoText,
                     limit |-> [count |-> n, period |-> period, delay |-> NoText]]

\* A gRPC cluster without TLS, and an HTTP cluster with it, whose sections leave out
\* some of their numbers.
Web == [name |-> "web", addr |-> <<"web", "80">>, type |-> "", tls |-> NoTLS,
        health |-> NoSection, breaker |-> NoSection]
Site == [name |-> "site", addr |-> <<"site", "80">>, type |-> "http",
         tls |-> [enabled |-> TRUE, sni |-> "site.example"],
         health |-> [path |-> "/health", numbers |-> [HealthDefaults EXCEPT !.timeout = 0]],
         breaker |-> [BreakerDefaults EXCEPT !.retries = 0]]

SitesTLS == {NoTLS, [enabled |-> FALSE, sni |-> "x"], [enabled |-> TRUE, sni |-> ""],
             [enabled |-> TRUE, sni |-> "x"]}

\* Names of APIs and methods that begin like another, and names with a slash.
ApiNames == {<<"user">>, <<"user", "-admin">>, <<"user", "/", "get">>}
MethodNames == {<<"get">>, <<"get", "All">>, <<"s", "/", "get">>}
MCMethods ==
  {[name |-> n, auth |-> IF n = <<"get", "All">> THEN NoAuth ELSE Limit(1, "1m")] :
     n \in MethodNames}

Apis(methods) == [name : ApiNames, cluster : {"web", "site"}, auth : {NoAuth, NoNeed},
                  methods : methods]
Short == {<<>>} \cup {<<m>> : m \in MCMethods}
Long == Short \cup (MCMethods \X MCMethods)

Config(clusters, apis) == [route |-> <<"/", "api", "/">>, clusters |-> clusters, apis |-> apis]

OneApi == {Config(<<Web, Site>>, <<a>>) : a \in Apis(Long)}
TwoApis == {Config(<<Web, Site>>, <<a, b>>) : a, b \in Apis(Short)}

Play == [name |-> <<"user">>, cluster |-> "site", auth |-> NoNeed,
         methods |-> <<[name |-> <<"get">>, auth |-> Limit(1, "1s")]>>]

\* Everything that Validate looks at, one at a time.
Odd ==
  LET base == Config(<<Site>>, <<Play>>)
  IN  {[base EXCEPT !.route = r] : r \in {<<>>, <<"api", "/">>, <<"/", "api">>, <<"/", "v1", "/">>}}
        \cup {[base EXCEPT !.clusters = <<[Site EXCEPT !.addr = a]>>] :
                a \in {<<"site">>, <<"site", "port">>, <<"site", "80", "1">>, <<"site", "99999">>,
                      <<"", "80">>}}
        \cup {[base EXCEPT !.clusters = <<[Site EXCEPT !.type = t]>>] : t \in {"grpc", "tcp"}}
        \cup {[base EXCEPT !.clusters = <<[Site EXCEPT !.tls = t]>>] : t \in SitesTLS}
        \cup {[base EXCEPT !.clusters = <<[Site EXCEPT !.health = h, !.breaker = b]>>] :
                h \in {NoSection, [path |-> "", numbers |-> HealthDefaults],
                       [path |-> "/", numbers |-> HealthDefaults]},
                b \in {NoSection, BreakerDefaults}}
        \cup {[base EXCEPT !.clusters = <<Site, Web, [Site EXCEPT !.name = n]>>] :
                n \in {"site", "ext_auth", "", "other"}}
        \cup {[base EXCEPT !.apis[1].methods[1].auth = a] :
                a \in {Limit(0, "1h"), Limit(1, "1h"), Limit(1, "1d"),
                       [NoNeed EXCEPT !.policy = "any"],
                       [Limit(1, "1m") EXCEPT !.recaptcha = "true"],
                       [Limit(1, "1m") EXCEPT !.recaptcha = "maybe"],
                       [Limit(1, "1m") EXCEPT !.limit.delay = "1s"],
                       [Limit(1, "1m") EXCEPT !.limit.delay = "soon"],
                       [Limit(1, "1m") EXCEPT !.limit.delay = ""]}}
        \cup {[base EXCEPT !.apis[1].auth = [NoNeed EXCEPT !.policy = "any"]]}

MCConfigs == OneApi \cup TwoApis \cup Odd

MCPaths ==
  {<<"/", "api", "/">> \o a \o Slash \o m \o rest :
     a \in ApiNames, m \in MethodNames \cup {<<"put">>}, rest \in {<<>>, <<"/", "7">>}}
    \cup {<<"/", "api", "/", "user">>, <<"/", "v1", "/", "user", "/", "get">>}
==============================================================================
