----------------------------- MODULE AuthAdapter -----------------------------
(***************************************************************************)
(* The auth adapter: Envoy asks it, by Check, about every request.  Checks *)
(* run concurrently (a goroutine each).  They share the rate limiter: per  *)
(* limited method a count of requests by address, begun anew when its      *)
(* period is over, under one mutex, which a check over the limit holds     *)
(* while it sleeps.  A step is what runs under the mutex, or one call of   *)
(* the captcha service or of the user service, whose answers are left open.*)
(*                                                                         *)
(* WindowOfNow, OneMore, OneLess and TrustToken are faulty forms of the    *)
(* definition after them, no part of the specification.                    *)
(***************************************************************************)
EXTENDS Integers, FiniteSets

CONSTANTS Checks,      \* concurrent calls of Check
          Addresses,   \* x-real-ip, else x-forwarded-for; "" counts as one
          Methods,     \* paths of the form /api/service/method
          Limited,     \* methods with a rate_limit; all have the same here
          Count,       \* rate_limit.count
          Period,      \* rate_limit.period
          Delays,      \* whether rate_limit.delay > 0
          RecaptchaOn, \* whether RECAPTCHA_URL is set
          MethodAuth,  \* auth of the method, or NoAuth
          ServiceAuth, \* auth of the method's service, or NoAuth
          Permissions, \* of the roles that the user service knows
          NoAuth, NoCheck,
          MaxChecks,   \* bound: checks
          MaxTime,     \* bound: the clock
          MaxRestarts  \* bound: restarts of the adapter

Policies == {"required", "optional", "no-need"}

\* authConf, valid as LoadConfig demands; "CLIENT" stands for no permission given.
AuthConf == [policy : Policies, permission : Permissions, recaptcha : BOOLEAN]

ASSUME AdapterAssumption ==
  /\ Addresses # {} /\ Methods # {}
  /\ Limited \subseteq Methods
  /\ Count \in Nat /\ Period \in Nat
  /\ Delays \in BOOLEAN /\ RecaptchaOn \in BOOLEAN
  /\ MethodAuth \in [Methods -> AuthConf \cup {NoAuth}]
  /\ ServiceAuth \in [Methods -> AuthConf \cup {NoAuth}]
  /\ \A m \in Limited : MethodAuth[m] # NoAuth
  /\ NoAuth \notin AuthConf
  /\ NoCheck \notin Checks
  /\ MaxChecks \in Nat /\ MaxTime \in Nat /\ MaxRestarts \in Nat

VARIABLES window,   \* rlProgress.PeriodEnd per limited method, -1 while there is none
          rate,     \* rlProgress.IPRate
          mutex,    \* the check that sleeps and holds it
          check,    \* what each call of Check is doing
          clock,
          checks,   \* how many checks began
          restarts, \* how often the adapter restarted
          epoch,    \* ghost: how often an address was forgiven
          grants,   \* ghost: checks the limiter let pass
          overs     \* ghost: counts that a check found used up

limiter == <<window, rate, mutex>>
ghosts == <<epoch, grants, overs>>
vars == <<limiter, check, clock, checks, restarts, ghosts>>

Steps == {"idle", "limit", "asleep", "captcha2", "reset", "permission",
          "captcha3", "token", "validate", "done"}

Codes == {"none", "ok", "bad_request", "too_many", "precondition",
          "unauthorized", "forbidden"}

Verdicts == {"none", "valid", "invalid"}   \* of the user service on the token

\* solved is v2RepatchaPassed.  The last three are the response once at "done": its
\* code, whether it adds user-id and session-id to the request, and whether it clears
\* the cookie at the client.
Check == [at : Steps, ip : Addresses, method : Methods, token : BOOLEAN, solved : BOOLEAN,
          verdict : Verdicts, code : Codes, identity : BOOLEAN, cleared : BOOLEAN]

\* What one count of the limiter is about: in a life of the adapter, a window of
\* the method (its end identifies it), and an address since it was forgiven.
Key == [method : Limited, ip : Addresses, life : Nat, window : Nat, epoch : Nat]

NoRates == [m \in Limited |-> [a \in Addresses |-> 0]]
NoWindows == [m \in Limited |-> -1]
Idle == [at |-> "idle", ip |-> CHOOSE a \in Addresses : TRUE,
         method |-> CHOOSE m \in Methods : TRUE, token |-> FALSE, solved |-> FALSE,
         verdict |-> "none", code |-> "none", identity |-> FALSE, cleared |-> FALSE]

Init ==
  /\ window = NoWindows /\ rate = NoRates /\ mutex = NoCheck
  /\ check = [c \in Checks |-> Idle]
  /\ clock = 0 /\ checks = 0 /\ restarts = 0
  /\ epoch = NoRates /\ grants = {} /\ overs = {}

At(c, step) == check[c].at = step
Goto(c, step) == check' = [check EXCEPT ![c].at = step]
Respond(c, code, verdict, identity, cleared) ==
  check' = [check EXCEPT ![c].at = "done", ![c].solved = FALSE, ![c].code = code,
                         ![c].verdict = verdict,
                         ![c].identity = identity, ![c].cleared = cleared]

------------------------------------------------------------------------------
\* RateLimitManager::Check lets a method without a limit pass.
Arrive(c, ip, m, token) ==
  /\ At(c, "idle") \/ At(c, "done")
  /\ checks < MaxChecks
  /\ checks' = checks + 1
  /\ check' = [check EXCEPT ![c] =
                 [Idle EXCEPT !.at = IF m \in Limited THEN "limit" ELSE "permission",
                              !.ip = ip, !.method = m, !.token = token]]
  /\ UNCHANGED <<limiter, clock, restarts, ghosts>>

\* now.After(PeriodEnd): the last instant of a period still belongs to it.
Over(m) == clock > window[m]

Used(c) == LET m == check[c].method
           IN  1 + IF Over(m) THEN 0 ELSE rate[m][check[c].ip]

WindowOfNow(m) == IF Over(m) THEN clock ELSE window[m]
CurrentWindow(m) == IF Over(m) THEN clock + Period ELSE window[m]

\* Under the mutex: begin a new period when the old one is over, and count.
CountCheck(c) ==
  LET m == check[c].method
  IN  /\ At(c, "limit") /\ mutex = NoCheck
      /\ window' = [window EXCEPT ![m] = CurrentWindow(m)]
      /\ rate' = [rate EXCEPT ![m] = [(IF Over(m) THEN NoRates[m] ELSE rate[m])
                                        EXCEPT ![check[c].ip] = Used(c)]]
      /\ UNCHANGED <<clock, checks, restarts, epoch>>

KeyOf(c) == LET m == check[c].method
            IN  [method |-> m, ip |-> check[c].ip, life |-> restarts,
                 window |-> CurrentWindow(m), epoch |-> epoch[m][check[c].ip]]

OneMore(n) == n <= Count + 1
OneLess(n) == n < Count
Within(n) == n <= Count

LimitPasses(c) ==
  /\ CountCheck(c)
  /\ Within(Used(c))
  /\ grants' = grants \cup {[n |-> Cardinality(grants), at |-> clock, key |-> KeyOf(c)]}
  /\ Goto(c, "permission")
  /\ UNCHANGED <<mutex, overs>>

\* The first two over the limit are refused at once; later ones sleep first,
\* with the mutex.
LimitReached(c) ==
  /\ CountCheck(c)
  /\ ~Within(Used(c))
  /\ overs' = overs \cup {KeyOf(c)}
  /\ IF Delays /\ Used(c) > Count + 2
     THEN mutex' = c /\ Goto(c, "asleep")
     ELSE mutex' = mutex /\ Goto(c, "captcha2")
  /\ UNCHANGED grants

Unlock(c) == mutex' = NoCheck

Wake(c) ==
  /\ At(c, "asleep")
  /\ Unlock(c)
  /\ Goto(c, "captcha2")
  /\ UNCHANGED <<window, rate, clock, checks, restarts, ghosts>>

\* checkReCaptcha v2: with no captcha service configured every check passes.
Captcha2Passes(c) ==
  /\ At(c, "captcha2")
  /\ Goto(c, "reset")
  /\ UNCHANGED <<limiter, clock, checks, restarts, ghosts>>

Captcha2Fails(c) ==
  /\ RecaptchaOn
  /\ At(c, "captcha2")
  /\ Respond(c, "too_many", "none", FALSE, FALSE)
  /\ UNCHANGED <<limiter, clock, checks, restarts, ghosts>>

\* RateLimitManager::Reset forgives the address, in whatever period it is now.
Reset(c) ==
  LET m == check[c].method
  IN  /\ At(c, "reset") /\ mutex = NoCheck
      /\ rate' = [rate EXCEPT ![m][check[c].ip] = 0]
      /\ epoch' = [epoch EXCEPT ![m][check[c].ip] = @ + 1]
      /\ check' = [check EXCEPT ![c].at = "permission", ![c].solved = TRUE]
      /\ UNCHANGED <<window, mutex, clock, checks, restarts, grants, overs>>

------------------------------------------------------------------------------
\* GetRequestedPermissions: the method's own, else its service's.
RequestedPermissions(m) == IF MethodAuth[m] # NoAuth THEN MethodAuth[m] ELSE ServiceAuth[m]
Auth(c) == RequestedPermissions(check[c].method)

Permission(c) ==
  /\ At(c, "permission")
  /\ IF Auth(c) = NoAuth THEN Respond(c, "bad_request", "none", FALSE, FALSE)
     ELSE Goto(c, IF ~check[c].solved /\ Auth(c).recaptcha /\ RecaptchaOn
                  THEN "captcha3" ELSE "token")
  /\ UNCHANGED <<limiter, clock, checks, restarts, ghosts>>

Captcha3(c) ==
  /\ At(c, "captcha3")
  /\ Goto(c, "token") \/ Respond(c, "precondition", "none", FALSE, FALSE)
  /\ UNCHANGED <<limiter, clock, checks, restarts, ghosts>>

\* The answer to a request whose identity nobody vouches for.
WithoutIdentity(c) == IF Auth(c).policy = "required" THEN "unauthorized" ELSE "ok"

TrustToken(c) ==
  /\ At(c, "token")
  /\ IF check[c].token /\ Auth(c).policy = "required" THEN Goto(c, "validate")
     ELSE Respond(c, WithoutIdentity(c), "none", FALSE, FALSE)
  /\ UNCHANGED <<limiter, clock, checks, restarts, ghosts>>

\* A token in the cookie is validated whatever the policy says.
ReadToken(c) ==
  /\ At(c, "token")
  /\ IF check[c].token THEN Goto(c, "validate")
     ELSE Respond(c, WithoutIdentity(c), "none", FALSE, FALSE)
  /\ UNCHANGED <<limiter, clock, checks, restarts, ghosts>>

\* The user service refuses, or does not answer before Envoy gives up.  The set-cookie
\* that clears the token is a header of either answer, but Envoy adds the headers of
\* an OK answer to the request that goes on: the client gets those of a refusal only.
Invalid(c) ==
  /\ At(c, "validate")
  /\ Respond(c, WithoutIdentity(c), "invalid", FALSE, WithoutIdentity(c) # "ok")
  /\ UNCHANGED <<limiter, clock, checks, restarts, ghosts>>

Authorize(permission, roles) == permission \in roles

\* The session is valid and its user has the roles.
Valid(c, roles) ==
  /\ At(c, "validate")
  /\ IF Auth(c).policy = "required" /\ ~Authorize(Auth(c).permission, roles)
     THEN Respond(c, "forbidden", "valid", FALSE, FALSE)
     ELSE Respond(c, "ok", "valid", TRUE, FALSE)
  /\ UNCHANGED <<limiter, clock, checks, restarts, ghosts>>

------------------------------------------------------------------------------
Tick == /\ clock < MaxTime
        /\ clock' = clock + 1
        /\ UNCHANGED <<limiter, check, checks, restarts, ghosts>>

\* The pod is stopped: the limiter is kept in memory, and no check is answered.
Restart ==
  /\ restarts < MaxRestarts
  /\ restarts' = restarts + 1
  /\ window' = NoWindows /\ rate' = NoRates /\ mutex' = NoCheck
  /\ check' = [c \in Checks |-> Idle]
  /\ UNCHANGED <<clock, checks, ghosts>>

\* A path that names no service and method is refused before anything is read.
BadPath(c) == (At(c, "idle") \/ At(c, "done")) /\ UNCHANGED vars

Next ==
  \/ Tick
  \/ Restart
  \/ \E c \in Checks :
       \/ \E ip \in Addresses, m \in Methods, token \in BOOLEAN : Arrive(c, ip, m, token)
       \/ LimitPasses(c) \/ LimitReached(c) \/ Wake(c)
       \/ Captcha2Passes(c) \/ Captcha2Fails(c) \/ Reset(c)
       \/ Permission(c) \/ Captcha3(c) \/ ReadToken(c) \/ Invalid(c)
       \/ \E roles \in SUBSET Permissions : Valid(c, roles)
       \/ BadPath(c)

Spec == Init /\ [][Next]_vars

------------------------------------------------------------------------------
\* Every variable has its type, and the mutex is held by the check that sleeps
\* and by no other.
TypeOK ==
  /\ window \in [Limited -> Nat \cup {-1}]
  /\ rate \in [Limited -> [Addresses -> Nat]]
  /\ epoch \in [Limited -> [Addresses -> Nat]]
  /\ check \in [Checks -> Check]
  /\ clock \in Nat /\ checks \in Nat /\ restarts \in Nat
  /\ grants \subseteq [n : Nat, at : Nat, key : Key]
  /\ overs \subseteq Key
  /\ \A c \in Checks : At(c, "asleep") <=> mutex = c

Granted(key) == {g \in grants : g.key = key}

\* However checks overlap, sleep or are forgiven late, the limiter lets no more
\* than Count of an address pass in a period of a method until a captcha forgives
\* it, and no more than Count again after that.
LimitIsKept == \A g \in grants : Cardinality(Granted(g.key)) <= Count

\* Nor is it stricter: whoever is found over the limit had Count checks let pass,
\* in that period and since a captcha forgave the address.
RefusedWhenUsedUp == \A key \in overs : Cardinality(Granted(key)) >= Count

\* Periods are not aligned with requests, and still no span of time as long as a
\* period sees more than twice Count pass, without a captcha or a restart.
BurstIsBounded ==
  \A g \in grants :
    Cardinality({h \in grants : /\ h.at \in g.at .. g.at + Period
                                /\ [h.key EXCEPT !.window = 0] = [g.key EXCEPT !.window = 0]})
      <= 2 * Count

\* "Token IS provided - ALWAYS validate it regardless of policy" (server.go:200): a
\* request goes on with a token only if the user service has judged that token, it
\* goes on with an identity exactly if it was found valid, and whatever the limiter and
\* the captchas said it has one where one is required.
TokenIsJudged ==
  \A c \in Checks : check[c].code = "ok" =>
    /\ check[c].token <=> check[c].verdict # "none"
    /\ check[c].identity <=> check[c].verdict = "valid"
    /\ Auth(c).policy = "required" => check[c].identity
==============================================================================
