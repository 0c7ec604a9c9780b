-------------------------- MODULE AuthAdapterProofs --------------------------
(***************************************************************************)
(* Theorems about the rate limiter of the auth adapter, for every set of   *)
(* checks, addresses and methods, every limit and period, with and without *)
(* a captcha service.                                                      *)
(***************************************************************************)
EXTENDS AuthAdapter, FiniteSetTheorems, TLAPS

------------------------------------------------------------------------------
(***************************************************************************)
(* The type invariant.                                                     *)
(***************************************************************************)
MutexOK == \A c \in Checks : At(c, "asleep") <=> mutex = c

\* One check moves to a step or to a response, which is a check again.
LEMMA Going ==
  ASSUME TypeOK, NEW c \in Checks, NEW step \in Steps, Goto(c, step)
  PROVE  \E r \in Check : check' = [check EXCEPT ![c] = r] /\ r.at = step
<1> DEFINE r == [check[c] EXCEPT !.at = step]
<1>1. check[c] \in Check
  BY DEF TypeOK
<1>2. r \in Check /\ r.at = step
  BY <1>1 DEF Check
<1>3. check' = [check EXCEPT ![c] = r]
  BY DEF Goto
<1> QED
  BY <1>2, <1>3

LEMMA Responding ==
  ASSUME TypeOK, NEW c \in Checks, NEW code \in Codes, NEW verdict \in Verdicts,
         NEW identity \in BOOLEAN, NEW cleared \in BOOLEAN,
         Respond(c, code, verdict, identity, cleared)
  PROVE  \E r \in Check : check' = [check EXCEPT ![c] = r] /\ r.at = "done"
<1> DEFINE r == [check[c] EXCEPT !.at = "done", !.solved = FALSE, !.code = code,
                                 !.verdict = verdict,
                                 !.identity = identity, !.cleared = cleared]
<1>1. check[c] \in Check
  BY DEF TypeOK
<1>2. r \in Check /\ r.at = "done"
  BY <1>1 DEF Check, Steps
<1>3. check' = [check EXCEPT ![c] = r]
  BY DEF Respond
<1> QED
  BY <1>2, <1>3

\* A check that neither begins nor ends a sleep leaves the mutex as it should be.
LEMMA MovingAwake ==
  ASSUME TypeOK, NEW c \in Checks, NEW r \in Check, check' = [check EXCEPT ![c] = r],
         r.at # "asleep", ~At(c, "asleep"), mutex' = mutex
  PROVE  check' \in [Checks -> Check] /\ MutexOK'
<1>1. check \in [Checks -> Check] /\ MutexOK
  BY DEF TypeOK, MutexOK
<1>2. check' \in [Checks -> Check] /\ check'[c] = r
      /\ \A d \in Checks \ {c} : check'[d] = check[d]
  BY <1>1
<1> QED
  BY <1>1, <1>2 DEF MutexOK, At

\* Steps that leave the limiter alone.
LEMMA QuietMove ==
  ASSUME TypeOK, NEW c \in Checks, NEW r \in Check, check' = [check EXCEPT ![c] = r],
         r.at # "asleep", ~At(c, "asleep"),
         UNCHANGED <<limiter, clock, restarts, ghosts>>, checks' \in Nat
  PROVE  TypeOK'
<1>1. check' \in [Checks -> Check] /\ MutexOK'
  BY MovingAwake DEF limiter
<1> QED
  BY <1>1 DEF TypeOK, MutexOK, limiter, ghosts, At

\* The counts that a check finds and leaves.
LEMMA CountTypes ==
  ASSUME TypeOK, NEW c \in Checks, CountCheck(c), check[c].method \in Limited
  PROVE  /\ Used(c) \in Nat \ {0}
         /\ CurrentWindow(check[c].method) \in Nat
         /\ KeyOf(c) \in Key
         /\ window' \in [Limited -> Nat \cup {-1}]
         /\ rate' \in [Limited -> [Addresses -> Nat]]
<1> DEFINE m == check[c].method
           a == check[c].ip
           u == Used(c)
           w == CurrentWindow(m)
           row == IF Over(m) THEN NoRates[m] ELSE rate[m]
<1>1. check[c] \in Check /\ m \in Limited /\ a \in Addresses
  BY DEF TypeOK, Check
<1>2. /\ window \in [Limited -> Nat \cup {-1}] /\ rate \in [Limited -> [Addresses -> Nat]]
      /\ epoch \in [Limited -> [Addresses -> Nat]]
      /\ clock \in Nat /\ restarts \in Nat /\ Period \in Nat
  BY AdapterAssumption DEF TypeOK
<1>3. rate[m][a] \in Nat /\ epoch[m][a] \in Nat /\ window[m] \in Nat \cup {-1}
  BY <1>1, <1>2
<1>4. u \in Nat \ {0}
  BY <1>3 DEF Used
<1>5. w \in Nat
  BY <1>2, <1>3 DEF CurrentWindow, Over
<1>6. row \in [Addresses -> Nat]
  BY <1>1, <1>2 DEF NoRates
<1>7. KeyOf(c) \in Key
  BY <1>1, <1>2, <1>3, <1>5 DEF KeyOf, Key
<1>8. window' = [window EXCEPT ![m] = w] /\ rate' = [rate EXCEPT ![m] = [row EXCEPT ![a] = u]]
  BY DEF CountCheck
<1> HIDE DEF u, w, row, m, a
<1>9. window' \in [Limited -> Nat \cup {-1}] /\ rate' \in [Limited -> [Addresses -> Nat]]
  BY <1>1, <1>2, <1>4, <1>5, <1>6, <1>8
<1> QED
  BY <1>4, <1>5, <1>7, <1>9 DEF u, w, m

\* Whoever is at the limiter asks about a method that has a limit.
AtLimiter == {"limit", "asleep", "captcha2", "reset"}
LimitedOK == \A c \in Checks : check[c].at \in AtLimiter => check[c].method \in Limited

LEMMA InitTypes == Init => TypeOK /\ LimitedOK /\ IsFiniteSet(grants)
<1> SUFFICES ASSUME Init
             PROVE  TypeOK /\ LimitedOK /\ IsFiniteSet(grants)
  OBVIOUS
<1>1. Idle \in Check /\ Idle.at = "idle"
  BY AdapterAssumption DEF Idle, Check, Steps, Codes, Verdicts
<1>2. check \in [Checks -> Check] /\ \A c \in Checks : check[c].at = "idle"
  BY <1>1 DEF Init
<1>3. MutexOK /\ LimitedOK
  BY <1>2, AdapterAssumption DEF Init, MutexOK, At, LimitedOK, AtLimiter
<1>4. window \in [Limited -> Nat \cup {-1}] /\ rate \in [Limited -> [Addresses -> Nat]]
      /\ epoch \in [Limited -> [Addresses -> Nat]]
  BY DEF Init, NoWindows, NoRates
<1>5. grants = {} /\ IsFiniteSet(grants)
  BY FS_EmptySet DEF Init
<1> QED
  BY <1>2, <1>3, <1>4, <1>5 DEF Init, TypeOK, MutexOK

\* A check that moves keeps LimitedOK unless it enters the limiter unduly.
LEMMA MovingLimited ==
  ASSUME LimitedOK, check \in [Checks -> Check], NEW c \in Checks, NEW r \in Check,
         check' = [check EXCEPT ![c] = r], r.at \in AtLimiter => r.method \in Limited
  PROVE  LimitedOK'
BY DEF LimitedOK

\* Responses and steps after the limiter.
LEMMA AfterLimiter ==
  ASSUME TypeOK, LimitedOK, NEW c \in Checks, ~At(c, "asleep"),
         UNCHANGED <<limiter, clock, checks, restarts, ghosts>>,
         NEW r \in Check, check' = [check EXCEPT ![c] = r], r.at \notin AtLimiter
  PROVE  TypeOK' /\ LimitedOK'
<1>1. checks' \in Nat /\ check \in [Checks -> Check] /\ r.at # "asleep"
  BY DEF TypeOK, AtLimiter
<1> QED
  BY <1>1, QuietMove, MovingLimited

\* What the limiter's count leaves, apart from the check that counted.
LEMMA CountedTypes ==
  ASSUME TypeOK, LimitedOK, IsFiniteSet(grants), NEW c \in Checks,
         LimitPasses(c) \/ LimitReached(c)
  PROVE  TypeOK' /\ LimitedOK' /\ IsFiniteSet(grants')
<1>1. CountCheck(c) /\ At(c, "limit") /\ mutex = NoCheck
  BY DEF LimitPasses, LimitReached, CountCheck
<1>2. check \in [Checks -> Check] /\ check[c].method \in Limited /\ ~At(c, "asleep")
  BY <1>1 DEF TypeOK, LimitedOK, AtLimiter, At
<1>3. /\ KeyOf(c) \in Key
      /\ window' \in [Limited -> Nat \cup {-1}] /\ rate' \in [Limited -> [Addresses -> Nat]]
  BY <1>1, <1>2, CountTypes
<1>4. UNCHANGED <<clock, checks, restarts, epoch>>
  BY <1>1 DEF CountCheck
<1>5. CASE LimitPasses(c)
  <2> DEFINE n == Cardinality(grants)
             g == [n |-> n, at |-> clock, key |-> KeyOf(c)]
  <2>1. n \in Nat
    BY FS_CardinalityType
  <2>2. g \in [n : Nat, at : Nat, key : Key]
    BY <1>3, <2>1 DEF TypeOK
  <2>3. grants' = grants \cup {g} /\ overs' = overs /\ mutex' = mutex
    BY <1>5 DEF LimitPasses
  <2>4. IsFiniteSet(grants')
    BY <2>3, FS_AddElement
  <2>5. Goto(c, "permission") /\ "permission" \in Steps /\ "permission" \notin AtLimiter
    BY <1>5 DEF LimitPasses, Steps, AtLimiter
  <2>6. PICK r \in Check : check' = [check EXCEPT ![c] = r] /\ r.at = "permission"
    BY <2>5, Going
  <2>7. check' \in [Checks -> Check] /\ MutexOK' /\ LimitedOK'
    BY <1>2, <2>3, <2>5, <2>6, MovingAwake, MovingLimited
  <2> HIDE DEF n, g
  <2> QED
    BY <1>3, <1>4, <2>2, <2>3, <2>4, <2>7 DEF TypeOK, MutexOK
<1>6. CASE LimitReached(c)
  <2>1. grants' = grants /\ overs' = overs \cup {KeyOf(c)}
    BY <1>6 DEF LimitReached
  <2>2. /\ check' \in [Checks -> Check] /\ LimitedOK'
        /\ MutexOK'
    <3>1. CASE mutex' = c /\ Goto(c, "asleep")
      <4>1. PICK r \in Check : check' = [check EXCEPT ![c] = r] /\ r.at = "asleep"
        BY <3>1, Going DEF Steps
      <4>2. check[c].method \in Limited /\ r.method = check[c].method
        BY <1>2, <3>1, <4>1 DEF Goto, Check
      <4>3. /\ check' \in [Checks -> Check] /\ check'[c] = r
            /\ \A d \in Checks \ {c} : check'[d] = check[d]
        BY <1>2, <4>1
      <4>4. \A d \in Checks \ {c} : ~At(d, "asleep")
        BY <1>1, AdapterAssumption DEF TypeOK
      <4>5. MutexOK'
        BY <3>1, <4>1, <4>3, <4>4 DEF MutexOK, At
      <4> QED
        BY <1>2, <4>1, <4>2, <4>3, <4>5, MovingLimited
    <3>2. CASE mutex' = mutex /\ Goto(c, "captcha2")
      <4>1. PICK r \in Check : check' = [check EXCEPT ![c] = r] /\ r.at = "captcha2"
        BY <3>2, Going DEF Steps
      <4>2. r.method = check[c].method
        BY <1>2, <3>2, <4>1 DEF Goto, Check
      <4> QED
        BY <1>2, <3>2, <4>1, <4>2, MovingAwake, MovingLimited
    <3> QED
      BY <1>6, <3>1, <3>2 DEF LimitReached
  <2> QED
    BY <1>3, <1>4, <2>1, <2>2 DEF TypeOK, MutexOK
<1> QED
  BY <1>5, <1>6

LEMMA StepTypes ==
  ASSUME TypeOK, LimitedOK, IsFiniteSet(grants), [Next]_vars
  PROVE  TypeOK' /\ LimitedOK' /\ IsFiniteSet(grants')
<1>1. check \in [Checks -> Check]
  BY DEF TypeOK
<1>2. CASE Tick
  BY <1>2 DEF Tick, TypeOK, LimitedOK, limiter, ghosts, At
<1>3. CASE Restart
  <2>1. Idle \in Check /\ Idle.at = "idle"
    BY AdapterAssumption DEF Idle, Check, Steps, Codes, Verdicts
  <2>2. check' \in [Checks -> Check] /\ \A c \in Checks : check'[c].at = "idle"
    BY <1>3, <2>1 DEF Restart
  <2>3. MutexOK' /\ LimitedOK'
    BY <1>3, <2>2, AdapterAssumption DEF Restart, MutexOK, At, LimitedOK, AtLimiter
  <2>4. window' \in [Limited -> Nat \cup {-1}] /\ rate' \in [Limited -> [Addresses -> Nat]]
        /\ restarts' \in Nat
    BY <1>3 DEF Restart, NoWindows, NoRates, TypeOK
  <2> QED
    BY <1>3, <2>2, <2>3, <2>4 DEF Restart, TypeOK, MutexOK, ghosts
<1>4. ASSUME NEW c \in Checks, NEW ip \in Addresses, NEW m \in Methods,
             NEW token \in BOOLEAN, Arrive(c, ip, m, token)
      PROVE  TypeOK' /\ LimitedOK' /\ IsFiniteSet(grants')
  <2> DEFINE r == [Idle EXCEPT !.at = IF m \in Limited THEN "limit" ELSE "permission",
                               !.ip = ip, !.method = m, !.token = token]
  <2>1. Idle \in Check
    BY AdapterAssumption DEF Idle, Check, Steps, Codes, Verdicts
  <2>2. r \in Check /\ r.at # "asleep" /\ (r.at \in AtLimiter => r.method \in Limited)
    BY <2>1 DEF Check, Steps, AtLimiter
  <2>3. check' = [check EXCEPT ![c] = r] /\ checks' = checks + 1 /\ ~At(c, "asleep")
        /\ UNCHANGED <<limiter, clock, restarts, ghosts>>
    BY <1>4 DEF Arrive, At
  <2> HIDE DEF r
  <2>4. checks' \in Nat
    BY <2>3 DEF TypeOK
  <2> QED
    BY <1>1, <2>2, <2>3, <2>4, QuietMove, MovingLimited DEF ghosts
<1>5. ASSUME NEW c \in Checks, Wake(c)
      PROVE  TypeOK' /\ LimitedOK' /\ IsFiniteSet(grants')
  <2>1. PICK r \in Check : check' = [check EXCEPT ![c] = r] /\ r.at = "captcha2"
    BY <1>5, Going DEF Wake, Steps
  <2>2. r.method = check[c].method /\ check[c].method \in Limited
    BY <1>1, <1>5, <2>1 DEF Wake, Goto, Check, LimitedOK, AtLimiter, At
  <2>3. /\ check' \in [Checks -> Check] /\ check'[c] = r
        /\ \A d \in Checks \ {c} : check'[d] = check[d]
    BY <1>1, <2>1
  <2>4. mutex = c /\ \A d \in Checks \ {c} : ~At(d, "asleep")
    BY <1>5 DEF Wake, TypeOK
  <2>5. MutexOK' /\ LimitedOK'
    <3>1. mutex' = NoCheck
      BY <1>5 DEF Wake, Unlock
    <3>2. MutexOK'
      BY <2>1, <2>3, <2>4, <3>1, AdapterAssumption DEF MutexOK, At
    <3> QED
      BY <1>1, <2>1, <2>2, <3>2, MovingLimited
  <2> QED
    BY <1>5, <2>3, <2>5 DEF Wake, TypeOK, MutexOK, ghosts
<1>6. ASSUME NEW c \in Checks, Captcha2Passes(c)
      PROVE  TypeOK' /\ LimitedOK' /\ IsFiniteSet(grants')
  <2>1. PICK r \in Check : check' = [check EXCEPT ![c] = r] /\ r.at = "reset"
    BY <1>6, Going DEF Captcha2Passes, Steps
  <2>2. r.method = check[c].method /\ check[c].method \in Limited /\ ~At(c, "asleep")
    BY <1>1, <1>6, <2>1 DEF Captcha2Passes, Goto, Check, LimitedOK, AtLimiter, At
  <2>3. checks' \in Nat /\ UNCHANGED <<limiter, clock, restarts, ghosts>>
    BY <1>6 DEF Captcha2Passes, TypeOK
  <2> QED
    BY <1>1, <2>1, <2>2, <2>3, QuietMove, MovingLimited DEF ghosts
<1>7. ASSUME NEW c \in Checks, Reset(c)
      PROVE  TypeOK' /\ LimitedOK' /\ IsFiniteSet(grants')
  <2> DEFINE m == check[c].method
             a == check[c].ip
             r == [check[c] EXCEPT !.at = "permission", !.solved = TRUE]
  <2>1. check[c] \in Check /\ m \in Limited /\ a \in Addresses
    BY <1>1, <1>7 DEF Reset, LimitedOK, AtLimiter, At, Check
  <2>2. r \in Check /\ r.at = "permission"
    BY <2>1 DEF Check, Steps
  <2>3. check' = [check EXCEPT ![c] = r] /\ ~At(c, "asleep") /\ mutex' = mutex
    BY <1>7 DEF Reset, At
  <2>4. rate' \in [Limited -> [Addresses -> Nat]] /\ epoch' \in [Limited -> [Addresses -> Nat]]
    <3>1. rate' = [rate EXCEPT ![m][a] = 0] /\ epoch' = [epoch EXCEPT ![m][a] = @ + 1]
      BY <1>7 DEF Reset
    <3>2. rate \in [Limited -> [Addresses -> Nat]] /\ epoch \in [Limited -> [Addresses -> Nat]]
      BY DEF TypeOK
    <3> HIDE DEF m, a
    <3> QED
      BY <2>1, <3>1, <3>2
  <2> HIDE DEF m, a, r
  <2>5. check' \in [Checks -> Check] /\ MutexOK'
    BY <2>2, <2>3, MovingAwake
  <2>6. LimitedOK'
    BY <1>1, <2>2, <2>3, MovingLimited DEF AtLimiter
  <2> QED
    BY <1>7, <2>4, <2>5, <2>6 DEF Reset, TypeOK, MutexOK
<1>8. ASSUME NEW c \in Checks,
             \/ Captcha2Fails(c) \/ Permission(c) \/ Captcha3(c) \/ ReadToken(c) \/ Invalid(c)
             \/ \E roles \in SUBSET Permissions : Valid(c, roles)
      PROVE  TypeOK' /\ LimitedOK' /\ IsFiniteSet(grants')
  <2>1. /\ UNCHANGED <<limiter, clock, checks, restarts, ghosts>> /\ ~At(c, "asleep")
        /\ \/ \E step \in {"captcha3", "token", "validate"} : Goto(c, step)
           \/ \E code \in Codes, verdict \in Verdicts, identity \in BOOLEAN, cleared \in BOOLEAN :
                Respond(c, code, verdict, identity, cleared)
    <3>1. CASE Captcha2Fails(c)
      BY <3>1 DEF Captcha2Fails, At, Codes, Verdicts, WithoutIdentity
    <3>2. CASE Permission(c)
      BY <3>2 DEF Permission, At, Codes, Verdicts, WithoutIdentity
    <3>3. CASE Captcha3(c)
      BY <3>3 DEF Captcha3, At, Codes, Verdicts, WithoutIdentity
    <3>4. CASE ReadToken(c)
      BY <3>4 DEF ReadToken, At, Codes, Verdicts, WithoutIdentity
    <3>5. CASE Invalid(c)
      BY <3>5 DEF Invalid, At, Codes, Verdicts, WithoutIdentity
    <3>6. CASE \E roles \in SUBSET Permissions : Valid(c, roles)
      BY <3>6 DEF Valid, At, Codes, Verdicts, WithoutIdentity
    <3> QED
      BY <1>8, <3>1, <3>2, <3>3, <3>4, <3>5, <3>6
  <2>2. \E r \in Check : check' = [check EXCEPT ![c] = r] /\ r.at \notin AtLimiter
    <3>1. CASE \E step \in {"captcha3", "token", "validate"} : Goto(c, step)
      BY <3>1, Going DEF Steps, AtLimiter
    <3>2. CASE \E code \in Codes, verdict \in Verdicts, identity \in BOOLEAN, cleared \in BOOLEAN :
                 Respond(c, code, verdict, identity, cleared)
      BY <3>2, Responding DEF AtLimiter
    <3> QED
      BY <2>1, <3>1, <3>2
  <2> QED
    BY <2>1, <2>2, AfterLimiter DEF ghosts
<1>9. CASE UNCHANGED vars
  BY <1>9 DEF vars, limiter, ghosts, TypeOK, LimitedOK, At
<1>10. \A c \in Checks : BadPath(c) => UNCHANGED vars
  BY DEF BadPath
<1> QED
  BY <1>2, <1>3, <1>4, <1>5, <1>6, <1>7, <1>8, <1>9, <1>10, CountedTypes DEF Next

\* The adapter's state is always typed, and the mutex is held by the one check
\* that sleeps.
THEOREM AdapterTypes == Spec => []TypeOK
<1> DEFINE I == TypeOK /\ LimitedOK /\ IsFiniteSet(grants)
<1>1. Init => I
  BY InitTypes
<1>2. I /\ [Next]_vars => I'
  BY StepTypes
<1> QED
  BY <1>1, <1>2, PTL DEF Spec
------------------------------------------------------------------------------
(***************************************************************************)
(* What the limiter lets pass.  The counts of the limiter and the checks   *)
(* it let pass agree, because every check it let pass was in a window, in a*)
(* life of the adapter and since a reset that are not later than those of  *)
(* now: whatever begins anew begins at none.                               *)
(***************************************************************************)
KeyAt(m, a, l, w, e) == [method |-> m, ip |-> a, life |-> l, window |-> w, epoch |-> e]
Current(m, a) == KeyAt(m, a, restarts, window[m], epoch[m][a])

In(G, k) == {g \in G : g.key = k}
Capped(n) == IF n <= Count THEN n ELSE Count

\* k is not later than now.
Past(k) ==
  \/ k.life < restarts
  \/ /\ k.life = restarts
     /\ \/ k.window < window[k.method]
        \/ k.window = window[k.method] /\ k.epoch <= epoch[k.method][k.ip]

Numbered == \A g \in grants : g.n < Cardinality(grants)
AllPast == \A g \in grants : Past(g.key)
RatesCount ==
  \A m \in Limited, a \in Addresses : Cardinality(In(grants, Current(m, a))) = Capped(rate[m][a])
KeysKept == \A g \in grants : Cardinality(In(grants, g.key)) <= Count
OversUsed == \A k \in overs : Cardinality(In(grants, k)) >= Count

Typed == TypeOK /\ LimitedOK /\ IsFiniteSet(grants)
LimitInv == Numbered /\ AllPast /\ RatesCount /\ KeysKept /\ OversUsed

LEMMA InFinite ==
  ASSUME NEW G, IsFiniteSet(G), NEW k
  PROVE  IsFiniteSet(In(G, k)) /\ Cardinality(In(G, k)) \in Nat
<1>1. In(G, k) \subseteq G
  BY DEF In
<1>2. IsFiniteSet(In(G, k))
  BY <1>1, FS_Subset
<1> QED
  BY <1>2, FS_CardinalityType

\* One more element counts for its own key and for no other.
LEMMA InAdded ==
  ASSUME NEW G, IsFiniteSet(G), NEW g, g \notin G, NEW k
  PROVE  Cardinality(In(G \cup {g}, k)) = Cardinality(In(G, k)) + (IF g.key = k THEN 1 ELSE 0)
<1>1. IsFiniteSet(In(G, k)) /\ Cardinality(In(G, k)) \in Nat
  BY InFinite
<1>2. CASE g.key = k
  <2>1. In(G \cup {g}, k) = In(G, k) \cup {g} /\ g \notin In(G, k)
    BY <1>2 DEF In
  <2>2. Cardinality(In(G, k) \cup {g}) = Cardinality(In(G, k)) + 1
    BY <1>1, <2>1, FS_AddElement
  <2> QED
    BY <1>2, <2>1, <2>2
<1>3. CASE g.key # k
  <2>1. In(G \cup {g}, k) = In(G, k)
    BY <1>3 DEF In
  <2> QED
    BY <1>1, <1>3, <2>1
<1> QED
  BY <1>2, <1>3

LEMMA InNone ==
  ASSUME NEW G, NEW k, \A g \in G : g.key # k
  PROVE  Cardinality(In(G, k)) = 0
<1>1. In(G, k) = {}
  BY DEF In
<1> QED
  BY <1>1, FS_EmptySet

LEMMA InitLimit == Init => LimitInv
<1> SUFFICES ASSUME Init
             PROVE  LimitInv
  OBVIOUS
<1>1. grants = {} /\ overs = {}
  BY DEF Init
<1>2. \A m \in Limited, a \in Addresses : rate[m][a] = 0
  BY DEF Init, NoRates
<1>3. RatesCount
  BY <1>1, <1>2, InNone, AdapterAssumption DEF RatesCount, Capped
<1> QED
  BY <1>1, <1>3 DEF LimitInv, Numbered, AllPast, KeysKept, OversUsed

\* Steps that let no check pass and count none.
LEMMA QuietLimit ==
  ASSUME LimitInv, UNCHANGED <<window, rate, restarts, ghosts>>
  PROVE  LimitInv'
BY DEF LimitInv, Numbered, AllPast, RatesCount, KeysKept, OversUsed, Past, Current, KeyAt,
       In, Capped, ghosts

\* The life of the adapter in which nothing passed yet.
LEMMA RestartLimit ==
  ASSUME Typed, LimitInv, Restart
  PROVE  LimitInv'
<1>1. restarts' = restarts + 1 /\ grants' = grants /\ overs' = overs /\ epoch' = epoch
  BY DEF Restart, ghosts
<1>2. restarts \in Nat /\ grants \subseteq [n : Nat, at : Nat, key : Key]
  BY DEF Typed, TypeOK
<1>3. \A g \in grants : g.key.life \in Nat /\ g.key.life <= restarts
  BY <1>2 DEF LimitInv, AllPast, Past, Key
<1>4. AllPast'
  BY <1>1, <1>2, <1>3 DEF AllPast, Past
<1>5. \A m \in Limited, a \in Addresses : rate'[m][a] = 0
  BY DEF Restart, NoRates
<1>6. RatesCount'
  <2> SUFFICES ASSUME NEW m \in Limited, NEW a \in Addresses
               PROVE  Cardinality(In(grants', Current(m, a)')) = Capped(rate'[m][a])
    BY DEF RatesCount, Capped
  <2>1. Current(m, a)'.life = restarts + 1
    BY <1>1 DEF Current, KeyAt
  <2>2. \A g \in grants' : g.key # Current(m, a)'
    BY <1>1, <1>2, <1>3, <2>1
  <2> QED
    BY <2>2, InNone, <1>5, AdapterAssumption DEF Capped
<1> QED
  BY <1>1, <1>4, <1>6 DEF LimitInv, Numbered, KeysKept, OversUsed

\* The address that was forgiven begins anew.
LEMMA ResetLimit ==
  ASSUME Typed, LimitInv, NEW c \in Checks, Reset(c)
  PROVE  LimitInv'
<1> DEFINE m == check[c].method
           a == check[c].ip
<1>1. m \in Limited /\ a \in Addresses
  BY DEF Typed, TypeOK, LimitedOK, AtLimiter, Reset, At, Check
<1>2. rate' = [rate EXCEPT ![m][a] = 0] /\ epoch' = [epoch EXCEPT ![m][a] = @ + 1]
      /\ UNCHANGED <<window, restarts, grants, overs>>
  BY DEF Reset
<1>3. rate \in [Limited -> [Addresses -> Nat]] /\ epoch \in [Limited -> [Addresses -> Nat]]
      /\ window \in [Limited -> Nat \cup {-1}] /\ restarts \in Nat
      /\ grants \subseteq [n : Nat, at : Nat, key : Key]
  BY DEF Typed, TypeOK
<1> HIDE DEF m, a
<1>4. /\ epoch[m][a] \in Nat /\ epoch'[m][a] = epoch[m][a] + 1 /\ rate'[m][a] = 0
      /\ \A n \in Limited, b \in Addresses : n # m \/ b # a =>
           rate'[n][b] = rate[n][b] /\ epoch'[n][b] = epoch[n][b]
  BY <1>1, <1>2, <1>3
<1>5. AllPast'
  <2> SUFFICES ASSUME NEW g \in grants
               PROVE  Past(g.key)'
    BY <1>2 DEF AllPast
  <2>1. g.key.method \in Limited /\ g.key.ip \in Addresses /\ g.key.epoch \in Nat
        /\ Past(g.key)
    BY <1>3 DEF Key, LimitInv, AllPast
  <2>2. epoch[g.key.method][g.key.ip] \in Nat
        /\ epoch[g.key.method][g.key.ip] <= epoch'[g.key.method][g.key.ip]
    BY <1>3, <1>4, <2>1
  <2> QED
    BY <1>2, <1>3, <2>1, <2>2 DEF Past
<1>6. RatesCount'
  <2> SUFFICES ASSUME NEW n \in Limited, NEW b \in Addresses
               PROVE  Cardinality(In(grants', Current(n, b)')) = Capped(rate'[n][b])
    BY DEF RatesCount, Capped
  <2>1. CASE n = m /\ b = a
    <3>1. Current(n, b)' = KeyAt(m, a, restarts, window[m], epoch[m][a] + 1)
      BY <1>2, <1>4, <2>1 DEF Current, KeyAt
    <3>2. ASSUME NEW g \in grants, g.key = KeyAt(m, a, restarts, window[m], epoch[m][a] + 1)
          PROVE  FALSE
      <4>1. /\ g.key.method = m /\ g.key.ip = a /\ g.key.life = restarts
            /\ g.key.window = window[m] /\ g.key.epoch = epoch[m][a] + 1
        BY <3>2 DEF KeyAt
      <4>2. Past(g.key)
        BY DEF LimitInv, AllPast
      <4>3. window[m] \in Nat \cup {-1}
        BY <1>1, <1>3
      <4> QED
        BY <1>3, <1>4, <4>1, <4>2, <4>3 DEF Past
    <3> QED
      BY <1>2, <1>4, <2>1, <3>1, <3>2, InNone, AdapterAssumption DEF Capped
  <2>2. CASE n # m \/ b # a
    BY <1>2, <1>4, <2>2 DEF LimitInv, RatesCount, Current, KeyAt
  <2> QED
    BY <2>1, <2>2
<1> QED
  BY <1>2, <1>5, <1>6 DEF LimitInv, Numbered, KeysKept, OversUsed

\* Before a check is counted, and in the window it is counted in: what passed is
\* what the limiter will start from.
LEMMA BeforeCount ==
  ASSUME Typed, LimitInv, NEW m \in Limited, NEW a \in Addresses
  PROVE  Cardinality(In(grants, KeyAt(m, a, restarts, CurrentWindow(m), epoch[m][a])))
           = Capped(IF Over(m) THEN 0 ELSE rate[m][a])
<1>1. /\ window[m] \in Nat \cup {-1} /\ clock \in Nat /\ Period \in Nat /\ Count \in Nat
      /\ grants \subseteq [n : Nat, at : Nat, key : Key] /\ restarts \in Nat
  BY AdapterAssumption DEF Typed, TypeOK
<1>2. CASE Over(m)
  <2>1. CurrentWindow(m) > window[m] /\ CurrentWindow(m) \in Nat
    BY <1>1, <1>2 DEF CurrentWindow, Over
  <2>2. ASSUME NEW g \in grants,
               g.key = KeyAt(m, a, restarts, CurrentWindow(m), epoch[m][a])
        PROVE  FALSE
    BY <1>1, <2>1, <2>2 DEF KeyAt, LimitInv, AllPast, Past
  <2> QED
    BY <1>1, <1>2, <2>2, InNone DEF Capped
<1>3. CASE ~Over(m)
  BY <1>3 DEF CurrentWindow, LimitInv, RatesCount, Current
<1> QED
  BY <1>2, <1>3
\* Counting one check, let pass or not.
LEMMA CountLimit ==
  ASSUME Typed, LimitInv, NEW c \in Checks, LimitPasses(c) \/ LimitReached(c)
  PROVE  LimitInv'
<1> DEFINE m == check[c].method
           a == check[c].ip
           w == CurrentWindow(m)
           row == IF Over(m) THEN NoRates[m] ELSE rate[m]
           k == KeyOf(c)
           key(n, b) == IF n = m THEN KeyAt(m, b, restarts, w, epoch[m][b]) ELSE Current(n, b)
           old(n, b) == IF n = m THEN row[b] ELSE rate[n][b]
<1>1. CountCheck(c) /\ check[c].method \in Limited /\ check[c].ip \in Addresses
  BY DEF LimitPasses, LimitReached, CountCheck, Typed, TypeOK, LimitedOK, AtLimiter, At, Check
<1>2. /\ k \in Key /\ k = key(m, a)
      /\ \A b \in Addresses : row[b] = IF Over(m) THEN 0 ELSE rate[m][b]
      /\ Used(c) = 1 + row[a] /\ w \in Nat /\ row \in [Addresses -> Nat]
  <2>1. k \in Key /\ w \in Nat
    BY <1>1, CountTypes DEF Typed
  <2>2. \A b \in Addresses : row[b] = IF Over(m) THEN 0 ELSE rate[m][b]
    BY <1>1 DEF NoRates
  <2>3. row \in [Addresses -> Nat]
    BY <1>1 DEF NoRates, Typed, TypeOK
  <2>4. Used(c) = 1 + row[a]
    BY <1>1, <2>2 DEF Used
  <2>5. k = key(m, a)
    BY DEF KeyOf, KeyAt
  <2> QED
    BY <2>1, <2>2, <2>3, <2>4, <2>5
<1>3. /\ window' = [window EXCEPT ![m] = w]
      /\ rate' = [rate EXCEPT ![m] = [row EXCEPT ![a] = 1 + row[a]]]
      /\ epoch' = epoch /\ restarts' = restarts
  BY <1>1, <1>2 DEF CountCheck
<1>4. /\ window \in [Limited -> Nat \cup {-1}] /\ rate \in [Limited -> [Addresses -> Nat]]
      /\ restarts \in Nat /\ Count \in Nat /\ clock \in Nat /\ Period \in Nat
      /\ grants \subseteq [n : Nat, at : Nat, key : Key] /\ IsFiniteSet(grants)
      /\ overs \subseteq Key
  BY AdapterAssumption DEF Typed, TypeOK
<1>5. window[m] <= w
  BY <1>1, <1>4 DEF CurrentWindow, Over
\* What the counts are of, and what they were before this check.
<1>6. \A n \in Limited, b \in Addresses : Cardinality(In(grants, key(n, b))) = Capped(old(n, b))
  BY <1>1, <1>2, BeforeCount DEF LimitInv, RatesCount
<1>7. \A n \in Limited, b \in Addresses : Current(n, b)' = key(n, b)
  BY <1>1, <1>3, <1>4 DEF Current, KeyAt
<1>8. \A n \in Limited, b \in Addresses :
        rate'[n][b] = IF n = m /\ b = a THEN old(n, b) + 1 ELSE old(n, b)
  BY <1>1, <1>2, <1>3, <1>4
<1>9. \A n \in Limited, b \in Addresses : key(n, b) = k <=> n = m /\ b = a
  BY <1>1, <1>2 DEF KeyAt, Current
<1>10. \A n \in Limited, b \in Addresses : old(n, b) \in Nat
  BY <1>1, <1>2, <1>4
<1>11. \A g \in grants : Past(g.key)'
  <2> SUFFICES ASSUME NEW g \in grants
               PROVE  Past(g.key)'
    OBVIOUS
  <2>1. Past(g.key) /\ g.key.method \in Limited /\ g.key.window \in Nat
    BY <1>4 DEF LimitInv, AllPast, Key
  <2>2. window[g.key.method] \in Int /\ window'[g.key.method] \in Int
        /\ window[g.key.method] <= window'[g.key.method]
    <3> HIDE DEF m, w
    <3> QED
      BY <1>1, <1>2, <1>3, <1>4, <1>5, <2>1
  <2>3. epoch' = epoch /\ restarts' = restarts
    BY <1>3
  <2> HIDE DEF m, w, row
  <2> QED
    BY <2>1, <2>2, <2>3 DEF Past
<1>12. ASSUME NEW x, x = k
       PROVE  Past(x)'
  <2>1. x.method = m /\ x.ip = a /\ x.life = restarts /\ x.window = w /\ x.epoch = epoch[m][a]
    BY <1>12 DEF KeyOf
  <2>2. epoch[m][a] \in Nat /\ window'[m] = w
    BY <1>1, <1>3, <1>4 DEF Typed, TypeOK
  <2>3. epoch' = epoch /\ restarts' = restarts
    BY <1>3
  <2> HIDE DEF m, a, w
  <2> QED
    BY <2>1, <2>2, <2>3 DEF Past
<1>13. Within(Used(c)) <=> old(m, a) + 1 <= Count
  BY <1>1, <1>2, <1>10 DEF Within
<1>16. \A n \in Limited, b \in Addresses : Cardinality(In(grants, key(n, b))) \in Nat
  BY <1>4, InFinite
<1>17. m \in Limited /\ a \in Addresses
  BY <1>1
<1> HIDE DEF m, a, w, row, k, key, old
<1>14. CASE LimitPasses(c)
  <2> DEFINE n0 == Cardinality(grants)
             g0 == [n |-> n0, at |-> clock, key |-> k]
  <2>1. grants' = grants \cup {g0} /\ overs' = overs /\ old(m, a) + 1 <= Count
    BY <1>13, <1>14 DEF LimitPasses, k
  <2>2. n0 \in Nat
    BY <1>4, FS_CardinalityType
  <2>3. g0 \notin grants /\ g0.key = k /\ g0.n = n0
    BY <2>2 DEF LimitInv, Numbered
  <2> HIDE DEF g0
  <2>4. Cardinality(grants') = n0 + 1
    BY <1>4, <2>1, <2>3, FS_AddElement
  <2>5. \A x : Cardinality(In(grants', x)) = Cardinality(In(grants, x)) + (IF k = x THEN 1 ELSE 0)
    BY <1>4, <2>1, <2>3, InAdded
  <2>6. \A x : Cardinality(In(grants, x)) \in Nat
    BY <1>4, InFinite
  <2>7. Numbered'
    <3>1. \A g \in grants : g.n \in Nat /\ g.n < n0
      BY <1>4 DEF LimitInv, Numbered
    <3> HIDE DEF n0
    <3> QED
      BY <2>1, <2>2, <2>3, <2>4, <3>1 DEF Numbered
  <2>8. AllPast'
    <3> SUFFICES ASSUME NEW g \in grants'
                 PROVE  Past(g.key)'
      BY DEF AllPast
    <3>1. CASE g \in grants
      BY <1>11, <3>1
    <3>2. CASE g = g0
      BY <1>12, <2>3, <3>2
    <3> QED
      BY <2>1, <3>1, <3>2
  <2>9. RatesCount'
    <3> SUFFICES ASSUME NEW n \in Limited, NEW b \in Addresses
                 PROVE  Cardinality(In(grants', Current(n, b)')) = Capped(rate'[n][b])
      BY DEF RatesCount, Capped
    <3>1. Current(n, b)' = key(n, b) /\ (key(n, b) = k <=> n = m /\ b = a)
      BY <1>7, <1>9
    <3>2. Cardinality(In(grants, key(n, b))) = Capped(old(n, b)) /\ old(n, b) \in Nat
          /\ rate'[n][b] = IF n = m /\ b = a THEN old(n, b) + 1 ELSE old(n, b)
      BY <1>6, <1>8, <1>10
    <3>3. Cardinality(In(grants', key(n, b)))
            = Cardinality(In(grants, key(n, b))) + (IF k = key(n, b) THEN 1 ELSE 0)
      BY <2>5
    <3>4. n = m /\ b = a => old(n, b) + 1 <= Count
      BY <2>1
    <3> QED
      BY <1>4, <3>1, <3>2, <3>3, <3>4 DEF Capped
  <2>10. KeysKept'
    <3>1. Cardinality(In(grants, k)) + 1 <= Count
      BY <1>2, <1>4, <1>6, <1>10, <1>17, <2>1 DEF Capped
    <3> SUFFICES ASSUME NEW g \in grants'
                 PROVE  Cardinality(In(grants', g.key)) <= Count
      BY DEF KeysKept
    <3>2. Cardinality(In(grants', g.key))
            = Cardinality(In(grants, g.key)) + (IF k = g.key THEN 1 ELSE 0)
      BY <2>5
    <3>3. g.key # k => Cardinality(In(grants, g.key)) <= Count
      BY <2>1, <2>3 DEF KeysKept, LimitInv
    <3> QED
      BY <1>4, <2>6, <3>1, <3>2, <3>3
  <2>11. OversUsed'
    <3> SUFFICES ASSUME NEW x \in overs
                 PROVE  Cardinality(In(grants', x)) >= Count
      BY <2>1 DEF OversUsed
    <3>1. Cardinality(In(grants, x)) >= Count
      BY DEF OversUsed, LimitInv
    <3>2. Cardinality(In(grants', x)) = Cardinality(In(grants, x)) + (IF k = x THEN 1 ELSE 0)
      BY <2>5
    <3> QED
      BY <1>4, <2>6, <3>1, <3>2
  <2> QED
    BY <2>7, <2>8, <2>9, <2>10, <2>11 DEF LimitInv
<1>15. CASE LimitReached(c)
  <2>1. grants' = grants /\ overs' = overs \cup {k} /\ old(m, a) + 1 > Count
    BY <1>1, <1>4, <1>10, <1>13, <1>15 DEF LimitReached, k, m, a
  <2>2. RatesCount'
    <3> SUFFICES ASSUME NEW n \in Limited, NEW b \in Addresses
                 PROVE  Cardinality(In(grants', Current(n, b)')) = Capped(rate'[n][b])
      BY DEF RatesCount, Capped
    <3>1. Current(n, b)' = key(n, b)
      BY <1>7
    <3>2. Cardinality(In(grants, key(n, b))) = Capped(old(n, b)) /\ old(n, b) \in Nat
          /\ rate'[n][b] = IF n = m /\ b = a THEN old(n, b) + 1 ELSE old(n, b)
      BY <1>6, <1>8, <1>10
    <3> QED
      BY <1>4, <2>1, <3>1, <3>2 DEF Capped
  <2>3. Cardinality(In(grants, k)) = Count
    <3>1. Cardinality(In(grants, k)) = Capped(old(m, a)) /\ old(m, a) \in Nat
      BY <1>2, <1>6, <1>10, <1>17
    <3>2. Count \in Nat /\ old(m, a) >= Count
      BY <1>4, <2>1, <3>1
    <3> HIDE DEF LimitInv
    <3> QED
      BY <3>1, <3>2 DEF Capped
  <2>4. OversUsed'
    BY <1>4, <2>1, <2>3 DEF OversUsed, LimitInv
  <2> QED
    BY <1>11, <2>1, <2>2, <2>4 DEF LimitInv, Numbered, AllPast, KeysKept
<1> QED
  BY <1>14, <1>15

LEMMA StepLimit ==
  ASSUME Typed, LimitInv, [Next]_vars
  PROVE  LimitInv'
<1>1. CASE Restart
  BY <1>1, RestartLimit
<1>2. ASSUME NEW c \in Checks, Reset(c)
      PROVE  LimitInv'
  BY <1>2, ResetLimit
<1>3. ASSUME NEW c \in Checks, LimitPasses(c) \/ LimitReached(c)
      PROVE  LimitInv'
  BY <1>3, CountLimit
<1>4. CASE Tick \/ UNCHANGED vars
  <2>1. UNCHANGED <<window, rate, restarts, ghosts>>
    BY <1>4 DEF Tick, vars, limiter
  <2> QED
    BY <2>1, QuietLimit
<1>5. ASSUME NEW c \in Checks,
             \/ \E ip \in Addresses, m \in Methods, token \in BOOLEAN : Arrive(c, ip, m, token)
             \/ Wake(c) \/ Captcha2Passes(c) \/ Captcha2Fails(c)
             \/ Permission(c) \/ Captcha3(c) \/ ReadToken(c) \/ Invalid(c)
             \/ \E roles \in SUBSET Permissions : Valid(c, roles)
             \/ BadPath(c)
      PROVE  LimitInv'
  <2>1. UNCHANGED <<window, rate, restarts, ghosts>>
    <3>1. CASE \E roles \in SUBSET Permissions : Valid(c, roles)
      BY <3>1 DEF Valid, limiter
    <3>2. CASE ReadToken(c) \/ Invalid(c)
      BY <3>2 DEF ReadToken, Invalid, limiter
    <3>3. CASE \E ip \in Addresses, m \in Methods, token \in BOOLEAN : Arrive(c, ip, m, token)
      BY <3>3 DEF Arrive, limiter
    <3>4. CASE \/ Wake(c) \/ Captcha2Passes(c) \/ Captcha2Fails(c)
               \/ Permission(c) \/ Captcha3(c) \/ BadPath(c)
      BY <3>4 DEF Wake, Captcha2Passes, Captcha2Fails, Permission, Captcha3, BadPath, vars,
                  limiter
    <3> QED
      BY <1>5, <3>1, <3>2, <3>3, <3>4
  <2> QED
    BY <2>1, QuietLimit
<1> QED
  BY <1>1, <1>2, <1>3, <1>4, <1>5 DEF Next

LEMMA LimitInvariant == Spec => [](Typed /\ LimitInv)
<1>1. Init => Typed /\ LimitInv
  BY InitTypes, InitLimit DEF Typed
<1>2. Typed /\ LimitInv /\ [Next]_vars => (Typed /\ LimitInv)'
  BY StepTypes, StepLimit DEF Typed
<1> QED
  BY <1>1, <1>2, PTL DEF Spec

\* However checks overlap, sleep, or are forgiven after their period is over, and
\* whatever limits, periods and captchas there are, no more than Count of an
\* address pass between two resets in one period of a method.
THEOREM LimitKept == Spec => []LimitIsKept
<1>1. LimitInv => LimitIsKept
  BY DEF LimitInv, KeysKept, In, LimitIsKept, Granted
<1> QED
  BY <1>1, LimitInvariant, PTL

\* And no check is found over the limit before Count of them passed.
THEOREM RefusedLate == Spec => []RefusedWhenUsedUp
<1>1. LimitInv => RefusedWhenUsedUp
  BY DEF LimitInv, OversUsed, In, RefusedWhenUsedUp, Granted
<1> QED
  BY <1>1, LimitInvariant, PTL
------------------------------------------------------------------------------
(***************************************************************************)
(* Bursts.  A period that begins anew ends more than Period after the one  *)
(* before, so the windows of a method in one life are equal or more than   *)
(* Period apart, and a span of Period meets two of them at most.           *)
(***************************************************************************)
Apart(v, w) == v = w \/ v > w + Period \/ w > v + Period

Near == \A m \in Limited : window[m] <= clock + Period
InWindow == \A g \in grants : g.at <= g.key.window /\ g.key.window <= g.at + Period
Ahead ==
  \A g \in grants : g.key.life = restarts =>
    \/ window[g.key.method] = g.key.window
    \/ window[g.key.method] > g.key.window + Period
Spaced ==
  \A g \in grants, h \in grants :
    g.key.life = h.key.life /\ g.key.method = h.key.method => Apart(g.key.window, h.key.window)

SpacedInv == Near /\ InWindow /\ Ahead /\ Spaced

LEMMA InitSpaced == Init => SpacedInv
<1>1. Init => grants = {} /\ clock = 0 /\ \A m \in Limited : window[m] = -1
  BY DEF Init, NoWindows
<1> QED
  BY <1>1, AdapterAssumption DEF SpacedInv, Near, InWindow, Ahead, Spaced

\* Steps that begin no window and let no check pass; time may go on.
LEMMA QuietSpaced ==
  ASSUME Typed, SpacedInv, UNCHANGED <<window, restarts, grants>>, clock' \in Nat,
         clock <= clock'
  PROVE  SpacedInv'
<1>1. Near'
  <2> SUFFICES ASSUME NEW m \in Limited
               PROVE  window'[m] <= clock' + Period
    BY DEF Near
  <2>1. window[m] \in Int /\ clock \in Nat /\ Period \in Nat /\ window[m] <= clock + Period
    BY AdapterAssumption DEF Typed, TypeOK, SpacedInv, Near
  <2> QED
    BY <2>1
<1> QED
  BY <1>1 DEF SpacedInv, InWindow, Ahead, Spaced, Apart

\* In the next life there is no window and nothing has passed yet.
LEMMA RestartSpaced ==
  ASSUME Typed, LimitInv, SpacedInv, Restart
  PROVE  SpacedInv'
<1>1. /\ restarts' = restarts + 1 /\ grants' = grants /\ clock' = clock
      /\ \A m \in Limited : window'[m] = -1
  BY DEF Restart, ghosts, NoWindows
<1>2. restarts \in Nat /\ clock \in Nat /\ grants \subseteq [n : Nat, at : Nat, key : Key]
  BY DEF Typed, TypeOK
<1>3. \A g \in grants : g.key.life \in Nat /\ g.key.life <= restarts
  BY <1>2 DEF LimitInv, AllPast, Past, Key
<1>4. Ahead'
  BY <1>1, <1>2, <1>3 DEF Ahead
<1>5. Near'
  BY <1>1, <1>2, AdapterAssumption DEF Near
<1> QED
  BY <1>1, <1>4, <1>5 DEF SpacedInv, InWindow, Spaced, Apart

\* A check that is counted: in the window there is, or in one that begins now.
LEMMA CountSpaced ==
  ASSUME Typed, SpacedInv, NEW c \in Checks, LimitPasses(c) \/ LimitReached(c)
  PROVE  SpacedInv'
<1> DEFINE m == check[c].method
<1>1. CountCheck(c) /\ m \in Limited
  BY DEF LimitPasses, LimitReached, CountCheck, Typed, TypeOK, LimitedOK, AtLimiter, At
<1>2. /\ window \in [Limited -> Nat \cup {-1}] /\ clock \in Nat /\ Period \in Nat
      /\ restarts \in Nat /\ grants \subseteq [n : Nat, at : Nat, key : Key]
      /\ IsFiniteSet(grants)
  BY AdapterAssumption DEF Typed, TypeOK
<1>3. PICK w \in Int : w = CurrentWindow(m)
  BY <1>1, <1>2 DEF CurrentWindow
<1>4. window' = [window EXCEPT ![m] = w] /\ UNCHANGED <<clock, restarts>>
  BY <1>1, <1>3 DEF CountCheck
<1>5. KeyOf(c).method = m /\ KeyOf(c).life = restarts /\ KeyOf(c).window = w
  BY <1>3 DEF KeyOf
<1>6. PICK v \in Int : v = window[m]
  BY <1>1, <1>2
<1>7. /\ \/ w = v
         \/ w > v + Period
      /\ clock <= w /\ w <= clock + Period
  <2>1. v <= clock + Period
    BY <1>1, <1>6 DEF SpacedInv, Near
  <2> QED
    BY <1>2, <1>3, <1>6, <2>1 DEF CurrentWindow, Over
<1> HIDE DEF m
<1>8. window'[m] = w /\ \A n \in Limited : n # m => window'[n] = window[n]
  BY <1>1, <1>2, <1>4
<1>9. Near'
  BY <1>4, <1>7, <1>8 DEF SpacedInv, Near
<1>10. ASSUME NEW g \in grants, g.key.life = restarts
       PROVE  \/ window'[g.key.method] = g.key.window
              \/ window'[g.key.method] > g.key.window + Period
  <2>1. g.key.method \in Limited /\ g.key.window \in Nat
    BY <1>2 DEF Key
  <2>2. \/ window[g.key.method] = g.key.window
        \/ window[g.key.method] > g.key.window + Period
    BY <1>10 DEF SpacedInv, Ahead
  <2>3. CASE g.key.method = m
    BY <1>2, <1>6, <1>7, <1>8, <2>1, <2>2, <2>3
  <2>4. CASE g.key.method # m
    BY <1>8, <2>1, <2>2, <2>4
  <2> QED
    BY <2>3, <2>4
<1>11. CASE LimitReached(c)
  <2>1. grants' = grants
    BY <1>11 DEF LimitReached
  <2>2. Ahead'
    BY <1>4, <1>10, <2>1 DEF Ahead
  <2> QED
    BY <1>9, <2>1, <2>2 DEF SpacedInv, InWindow, Spaced, Apart
<1>12. CASE LimitPasses(c)
  <2> DEFINE g0 == [n |-> Cardinality(grants), at |-> clock, key |-> KeyOf(c)]
  <2>1. grants' = grants \cup {g0}
    BY <1>12 DEF LimitPasses
  <2>2. /\ g0.at = clock /\ g0.key.window = w /\ g0.key.method = m
        /\ g0.key.life = restarts
    BY <1>5
  <2> HIDE DEF g0
  <2>3. InWindow'
    BY <1>7, <2>1, <2>2 DEF SpacedInv, InWindow
  <2>4. Ahead'
    BY <1>4, <1>8, <1>10, <2>1, <2>2 DEF Ahead
  <2>5. \A g \in grants :
          g.key.life = g0.key.life /\ g.key.method = g0.key.method =>
            Apart(g.key.window, w) /\ Apart(w, g.key.window)
    <3> SUFFICES ASSUME NEW g \in grants, g.key.life = restarts, g.key.method = m
                 PROVE  Apart(g.key.window, w) /\ Apart(w, g.key.window)
      BY <2>2
    <3>1. w = g.key.window \/ w > g.key.window + Period
      BY <1>8, <1>10
    <3> QED
      BY <3>1 DEF Apart
  <2>6. \A g \in grants, h \in grants :
          g.key.life = h.key.life /\ g.key.method = h.key.method =>
            Apart(g.key.window, h.key.window)
    BY DEF SpacedInv, Spaced
  <2>7. \A g \in grants', h \in grants' :
          g.key.life = h.key.life /\ g.key.method = h.key.method =>
            Apart(g.key.window, h.key.window)
    <3> SUFFICES ASSUME NEW g \in grants \cup {g0}, NEW h \in grants \cup {g0},
                        g.key.life = h.key.life, g.key.method = h.key.method
                 PROVE  Apart(g.key.window, h.key.window)
      BY <2>1
    <3>1. CASE g \in grants /\ h \in grants
      BY <2>6, <3>1
    <3>2. CASE g \in grants /\ h = g0
      BY <2>2, <2>5, <3>2
    <3>3. CASE g = g0 /\ h \in grants
      BY <2>2, <2>5, <3>3
    <3>4. CASE g = g0 /\ h = g0
      BY <3>4 DEF Apart
    <3> QED
      BY <3>1, <3>2, <3>3, <3>4
  <2>8. Spaced'
    BY <2>7 DEF Spaced, Apart
  <2> QED
    BY <1>9, <2>3, <2>4, <2>8 DEF SpacedInv
<1> QED
  BY <1>11, <1>12

LEMMA StepSpaced ==
  ASSUME Typed, LimitInv, SpacedInv, [Next]_vars
  PROVE  SpacedInv'
<1>1. CASE Restart
  BY <1>1, RestartSpaced
<1>2. ASSUME NEW c \in Checks, LimitPasses(c) \/ LimitReached(c)
      PROVE  SpacedInv'
  BY <1>2, CountSpaced
<1>3. CASE Tick
  <2>1. UNCHANGED <<window, restarts, grants>> /\ clock' = clock + 1 /\ clock \in Nat
    BY <1>3 DEF Tick, limiter, ghosts, Typed, TypeOK
  <2> QED
    BY <2>1, QuietSpaced
<1>4. ASSUME \/ UNCHANGED vars
             \/ \E c \in Checks :
                  \/ \E ip \in Addresses, m \in Methods, token \in BOOLEAN :
                       Arrive(c, ip, m, token)
                  \/ Reset(c) \/ Wake(c) \/ Captcha2Passes(c) \/ Captcha2Fails(c)
                  \/ Permission(c) \/ Captcha3(c) \/ ReadToken(c) \/ Invalid(c)
                  \/ \E roles \in SUBSET Permissions : Valid(c, roles)
                  \/ BadPath(c)
      PROVE  SpacedInv'
  <2>1. UNCHANGED <<window, restarts, grants, clock>> /\ clock \in Nat
    <3>1. CASE \E c \in Checks, roles \in SUBSET Permissions : Valid(c, roles)
      BY <3>1 DEF Valid, limiter, ghosts, Typed, TypeOK
    <3>2. CASE \E c \in Checks : ReadToken(c) \/ Invalid(c)
      BY <3>2 DEF ReadToken, Invalid, limiter, ghosts, Typed, TypeOK
    <3>3. CASE \E c \in Checks, ip \in Addresses, m \in Methods, token \in BOOLEAN :
                 Arrive(c, ip, m, token)
      BY <3>3 DEF Arrive, limiter, ghosts, Typed, TypeOK
    <3>4. CASE \E c \in Checks : Reset(c) \/ Wake(c)
      BY <3>4 DEF Reset, Wake, limiter, ghosts, Typed, TypeOK
    <3>5. CASE \/ UNCHANGED vars
               \/ \E c \in Checks : \/ Captcha2Passes(c) \/ Captcha2Fails(c)
                                    \/ Permission(c) \/ Captcha3(c) \/ BadPath(c)
      BY <3>5 DEF Captcha2Passes, Captcha2Fails, Permission, Captcha3, BadPath, vars,
                  limiter, ghosts, Typed, TypeOK
    <3> QED
      BY <1>4, <3>1, <3>2, <3>3, <3>4, <3>5
  <2> QED
    BY <2>1, QuietSpaced
<1> QED
  BY <1>1, <1>2, <1>3, <1>4 DEF Next

LEMMA SpacedInvariant == Spec => [](Typed /\ LimitInv /\ SpacedInv)
<1>1. Init => Typed /\ LimitInv /\ SpacedInv
  BY InitTypes, InitLimit, InitSpaced DEF Typed
<1>2. Typed /\ LimitInv /\ SpacedInv /\ [Next]_vars => (Typed /\ LimitInv /\ SpacedInv)'
  BY StepTypes, StepLimit, StepSpaced DEF Typed
<1> QED
  BY <1>1, <1>2, PTL DEF Spec

\* Keys that differ in their window at most.
LEMMA SameButWindow ==
  ASSUME NEW k \in Key, NEW l \in Key, [k EXCEPT !.window = 0] = [l EXCEPT !.window = 0]
  PROVE  /\ k.method = l.method /\ k.life = l.life
         /\ k.window = l.window => k = l
<1>1. /\ k = KeyAt(k.method, k.ip, k.life, k.window, k.epoch)
      /\ l = KeyAt(l.method, l.ip, l.life, l.window, l.epoch)
  BY DEF Key, KeyAt
<1>2. /\ [k EXCEPT !.window = 0].method = k.method /\ [k EXCEPT !.window = 0].ip = k.ip
      /\ [k EXCEPT !.window = 0].life = k.life /\ [k EXCEPT !.window = 0].epoch = k.epoch
      /\ [l EXCEPT !.window = 0].method = l.method /\ [l EXCEPT !.window = 0].ip = l.ip
      /\ [l EXCEPT !.window = 0].life = l.life /\ [l EXCEPT !.window = 0].epoch = l.epoch
  BY DEF Key
<1>3. k.method = l.method /\ k.ip = l.ip /\ k.life = l.life /\ k.epoch = l.epoch
  BY <1>2
<1> QED
  BY <1>1, <1>3

\* What passes in a span of Period after a check passed: its own window and at
\* most one more.
LEMMA TwoWindows ==
  ASSUME Typed, LimitInv, SpacedInv, NEW g \in grants,
         NEW S, S = {h \in grants : /\ h.at \in g.at .. g.at + Period
                                    /\ [h.key EXCEPT !.window = 0] = [g.key EXCEPT !.window = 0]}
  PROVE  \E f \in grants : S \subseteq In(grants, g.key) \cup In(grants, f.key)
<1>1. grants \subseteq [n : Nat, at : Nat, key : Key] /\ Period \in Nat
  BY AdapterAssumption DEF Typed, TypeOK
<1>2. \A h \in grants : h.key \in Key /\ h.at \in Nat /\ h.key.window \in Nat
  BY <1>1 DEF Key
<1>3. \A h \in S :
        /\ h \in grants /\ g.at <= h.at /\ h.at <= g.at + Period
        /\ h.key.method = g.key.method /\ h.key.life = g.key.life
        /\ h.key.window = g.key.window => h.key = g.key
  BY <1>1, <1>2, SameButWindow
<1>4. \A h \in grants : h.at <= h.key.window /\ h.key.window <= h.at + Period
  BY DEF SpacedInv, InWindow
<1>5. \A h \in grants, f \in grants :
        h.key.life = f.key.life /\ h.key.method = f.key.method =>
          Apart(h.key.window, f.key.window)
  BY DEF SpacedInv, Spaced
<1>6. CASE \A h \in S : h.key.window = g.key.window
  BY <1>3, <1>6 DEF In
<1>7. CASE \E f \in S : f.key.window # g.key.window
  <2>1. PICK f \in S : f.key.window # g.key.window
    BY <1>7
  <2>2. \A h \in S : h.key.window # g.key.window =>
          h.key.window > g.at + Period /\ h.key.window <= g.at + Period + Period
    <3> SUFFICES ASSUME NEW h \in S, h.key.window # g.key.window
                 PROVE  h.key.window > g.at + Period /\ h.key.window <= g.at + Period + Period
      OBVIOUS
    <3>1. /\ h \in grants /\ g.at <= h.at /\ h.at <= g.at + Period
          /\ Apart(h.key.window, g.key.window)
      BY <1>3, <1>5
    <3>2. /\ h.at \in Nat /\ h.key.window \in Nat /\ g.at \in Nat /\ g.key.window \in Nat
          /\ h.at <= h.key.window /\ h.key.window <= h.at + Period
          /\ g.at <= g.key.window /\ g.key.window <= g.at + Period
      BY <1>2, <1>4, <3>1
    <3> QED
      BY <1>1, <3>1, <3>2 DEF Apart
  <2>3. ASSUME NEW h \in S, h.key.window # g.key.window
        PROVE  h.key = f.key
    <3>1. h \in grants /\ f \in grants /\ h.key \in Key /\ f.key \in Key
      BY <1>2, <1>3
    <3>2. h.key.life = f.key.life /\ h.key.method = f.key.method
      BY <1>3
    <3>3. Apart(h.key.window, f.key.window)
      BY <1>5, <3>1, <3>2
    <3>4. h.key.window \in Nat /\ f.key.window \in Nat /\ g.at \in Nat
      BY <1>2, <3>1
    <3>5. /\ h.key.window > g.at + Period /\ h.key.window <= g.at + Period + Period
          /\ f.key.window > g.at + Period /\ f.key.window <= g.at + Period + Period
      BY <2>1, <2>2, <2>3
    <3>6. h.key.window = f.key.window
      BY <1>1, <3>3, <3>4, <3>5 DEF Apart
    <3>7. [h.key EXCEPT !.window = 0] = [f.key EXCEPT !.window = 0]
      OBVIOUS
    <3> QED
      BY <3>1, <3>6, <3>7, SameButWindow
  <2> QED
    BY <1>3, <2>1, <2>3 DEF In
<1> QED
  BY <1>6, <1>7

\* Whatever the limit and the period, and wherever its windows fall, no span as
\* long as a period sees more than twice Count of an address pass, without a
\* captcha or a restart.
THEOREM BurstsBounded == Spec => []BurstIsBounded
<1>1. ASSUME Typed, LimitInv, SpacedInv
      PROVE  BurstIsBounded
  <2> SUFFICES ASSUME NEW g \in grants,
                      NEW S, S = {h \in grants :
                                    /\ h.at \in g.at .. g.at + Period
                                    /\ [h.key EXCEPT !.window = 0]
                                         = [g.key EXCEPT !.window = 0]}
               PROVE  Cardinality(S) <= 2 * Count
    BY DEF BurstIsBounded
  <2>1. PICK f \in grants : S \subseteq In(grants, g.key) \cup In(grants, f.key)
    BY <1>1, TwoWindows
  <2> DEFINE G == In(grants, g.key)
             F == In(grants, f.key)
  <2>2. /\ IsFiniteSet(G) /\ Cardinality(G) \in Nat /\ IsFiniteSet(F) /\ Cardinality(F) \in Nat
    BY <1>1, InFinite DEF Typed
  <2>3. Cardinality(G) <= Count /\ Cardinality(F) <= Count /\ Count \in Nat
    BY <1>1, AdapterAssumption DEF LimitInv, KeysKept
  <2>4. IsFiniteSet(G \cap F) /\ Cardinality(G \cap F) \in Nat
    <3>1. G \cap F \in SUBSET G
      OBVIOUS
    <3>2. IsFiniteSet(G \cap F)
      BY <2>2, <3>1, FS_Subset
    <3> QED
      BY <3>2, FS_CardinalityType
  <2> HIDE DEF G, F
  <2>5. IsFiniteSet(G \cup F)
        /\ Cardinality(G \cup F) = Cardinality(G) + Cardinality(F) - Cardinality(G \cap F)
    BY <2>2, FS_Union
  <2>6. S \in SUBSET (G \cup F)
    BY <2>1 DEF G, F
  <2>7. IsFiniteSet(S) /\ Cardinality(S) <= Cardinality(G \cup F)
    BY <2>5, <2>6, FS_Subset
  <2>8. Cardinality(S) \in Nat
    BY <2>7, FS_CardinalityType
  <2> QED
    BY <2>2, <2>3, <2>4, <2>5, <2>7, <2>8
<1> QED
  BY <1>1, SpacedInvariant, PTL
------------------------------------------------------------------------------
(***************************************************************************)
(* What a check answers.  Only a response says "ok", and it is made where  *)
(* the token, if there is one, has been validated.                         *)
(***************************************************************************)
Judged(r) ==
  /\ r.at # "done" => r.code # "ok"
  /\ r.at = "validate" => r.token
  /\ r.code = "ok" =>
       /\ r.token <=> r.verdict # "none"
       /\ r.identity <=> r.verdict = "valid"
       /\ RequestedPermissions(r.method).policy = "required" => r.identity

AllJudged == \A c \in Checks : Judged(check[c])

LEMMA MovingJudged ==
  ASSUME check \in [Checks -> Check], AllJudged, NEW c \in Checks, NEW r,
         check' = [check EXCEPT ![c] = r], Judged(r)
  PROVE  AllJudged'
<1>1. \A d \in Checks : check'[d] = IF d = c THEN r ELSE check[d]
  OBVIOUS
<1> QED
  BY <1>1 DEF AllJudged, Judged

\* A step that is no response, and needs a token if it is to validate one.
LEMMA GoingJudged ==
  ASSUME TypeOK, AllJudged, NEW c \in Checks, NEW step \in Steps, Goto(c, step),
         ~At(c, "done"), step # "done", step = "validate" => check[c].token
  PROVE  AllJudged'
<1> DEFINE r == [check[c] EXCEPT !.at = step]
<1>1. check \in [Checks -> Check] /\ check[c] \in Check
  BY DEF TypeOK
<1>2. r.at = step /\ r.code = check[c].code /\ r.token = check[c].token
  BY <1>1 DEF Check
<1>3. check[c].code # "ok"
  BY DEF AllJudged, Judged, At
<1>4. Judged(r)
  BY <1>2, <1>3 DEF Judged
<1>5. check' = [check EXCEPT ![c] = r]
  BY DEF Goto
<1> HIDE DEF r
<1> QED
  BY <1>1, <1>4, <1>5, MovingJudged

LEMMA RespondingJudged ==
  ASSUME TypeOK, AllJudged, NEW c \in Checks, NEW code \in Codes, NEW verdict \in Verdicts,
         NEW identity \in BOOLEAN, NEW cleared \in BOOLEAN,
         Respond(c, code, verdict, identity, cleared),
         code = "ok" =>
           /\ check[c].token <=> verdict # "none"
           /\ identity <=> verdict = "valid"
           /\ Auth(c).policy = "required" => identity
  PROVE  AllJudged'
<1> DEFINE r == [check[c] EXCEPT !.at = "done", !.solved = FALSE, !.code = code,
                                 !.verdict = verdict,
                                 !.identity = identity, !.cleared = cleared]
<1>1. check \in [Checks -> Check] /\ check[c] \in Check
  BY DEF TypeOK
<1>2. /\ r.at = "done" /\ r.code = code /\ r.identity = identity /\ r.verdict = verdict
      /\ r.token = check[c].token /\ r.method = check[c].method
  BY <1>1 DEF Check
<1>3. check' = [check EXCEPT ![c] = r]
  BY DEF Respond
<1> HIDE DEF r
<1>4. Judged(r)
  BY <1>2 DEF Judged, Auth
<1> QED
  BY <1>1, <1>3, <1>4, MovingJudged

LEMMA StepJudged ==
  ASSUME TypeOK, AllJudged, [Next]_vars
  PROVE  AllJudged'
<1>1. check \in [Checks -> Check]
  BY DEF TypeOK
<1>2. CASE UNCHANGED check
  BY <1>2 DEF AllJudged, Judged
<1>3. CASE Restart
  <2>1. \A c \in Checks : check'[c] = Idle
    BY <1>3 DEF Restart
  <2>2. Judged(Idle)
    BY DEF Judged, Idle
  <2> QED
    BY <2>1, <2>2 DEF AllJudged, Judged
<1>4. ASSUME NEW c \in Checks, NEW ip \in Addresses, NEW m \in Methods,
             NEW token \in BOOLEAN, Arrive(c, ip, m, token)
      PROVE  AllJudged'
  <2> DEFINE r == [Idle EXCEPT !.at = IF m \in Limited THEN "limit" ELSE "permission",
                               !.ip = ip, !.method = m, !.token = token]
  <2>1. Judged(r)
    BY DEF Judged, Idle
  <2>2. check' = [check EXCEPT ![c] = r]
    BY <1>4 DEF Arrive
  <2> HIDE DEF r
  <2> QED
    BY <1>1, <2>1, <2>2, MovingJudged
<1>5. ASSUME NEW c \in Checks, LimitPasses(c) \/ LimitReached(c) \/ Wake(c) \/ Captcha2Passes(c)
      PROVE  AllJudged'
  <2>1. ~At(c, "done")
    BY <1>5 DEF LimitPasses, LimitReached, CountCheck, Wake, Captcha2Passes, At
  <2>2. \E step \in {"permission", "asleep", "captcha2", "reset"} : Goto(c, step)
    BY <1>5 DEF LimitPasses, LimitReached, Wake, Captcha2Passes
  <2> QED
    BY <2>1, <2>2, GoingJudged DEF Steps
<1>6. ASSUME NEW c \in Checks, Reset(c)
      PROVE  AllJudged'
  <2> DEFINE r == [check[c] EXCEPT !.at = "permission", !.solved = TRUE]
  <2>1. check[c] \in Check /\ check[c].at = "reset" /\ check[c].code # "ok"
    BY <1>1, <1>6 DEF Reset, At, AllJudged, Judged
  <2>2. r.at = "permission" /\ r.code = check[c].code
    BY <2>1 DEF Check
  <2>3. Judged(r)
    BY <2>1, <2>2 DEF Judged
  <2>4. check' = [check EXCEPT ![c] = r]
    BY <1>6 DEF Reset
  <2> HIDE DEF r
  <2> QED
    BY <1>1, <2>3, <2>4, MovingJudged
<1>7. ASSUME NEW c \in Checks, Captcha2Fails(c)
      PROVE  AllJudged'
  BY <1>7, RespondingJudged DEF Captcha2Fails, Codes, Verdicts
<1>8. ASSUME NEW c \in Checks, Permission(c)
      PROVE  AllJudged'
  <2>1. ~At(c, "done")
    BY <1>8 DEF Permission, At
  <2>2. CASE Respond(c, "bad_request", "none", FALSE, FALSE)
    BY <2>2, RespondingJudged DEF Codes, Verdicts
  <2>3. CASE \E step \in {"captcha3", "token"} : Goto(c, step)
    BY <2>1, <2>3, GoingJudged DEF Steps
  <2> QED
    BY <1>8, <2>2, <2>3 DEF Permission
<1>9. ASSUME NEW c \in Checks, Captcha3(c)
      PROVE  AllJudged'
  <2>1. ~At(c, "done")
    BY <1>9 DEF Captcha3, At
  <2>2. CASE Respond(c, "precondition", "none", FALSE, FALSE)
    BY <2>2, RespondingJudged DEF Codes, Verdicts
  <2>3. CASE Goto(c, "token")
    BY <2>1, <2>3, GoingJudged DEF Steps
  <2> QED
    BY <1>9, <2>2, <2>3 DEF Captcha3
<1>10. ASSUME NEW c \in Checks, ReadToken(c)
       PROVE  AllJudged'
  <2>1. ~At(c, "done")
    BY <1>10 DEF ReadToken, At
  <2>2. CASE check[c].token
    <3>1. Goto(c, "validate")
      BY <1>10, <2>2 DEF ReadToken
    <3> QED
      BY <2>1, <2>2, <3>1, GoingJudged DEF Steps
  <2>3. CASE ~check[c].token
    <3>1. CASE Auth(c).policy = "required"
      <4>1. Respond(c, "unauthorized", "none", FALSE, FALSE)
        BY <1>10, <2>3, <3>1 DEF ReadToken, WithoutIdentity
      <4> QED
        BY <4>1, RespondingJudged DEF Codes, Verdicts
    <3>2. CASE Auth(c).policy # "required"
      <4>1. Respond(c, "ok", "none", FALSE, FALSE)
        BY <1>10, <2>3, <3>2 DEF ReadToken, WithoutIdentity
      <4> QED
        BY <2>3, <3>2, <4>1, RespondingJudged DEF Codes, Verdicts
    <3> QED
      BY <3>1, <3>2
  <2> QED
    BY <2>2, <2>3
\* Validation is reached with a token only.
<1>11. ASSUME NEW c \in Checks, Invalid(c) \/ \E roles \in SUBSET Permissions : Valid(c, roles)
       PROVE  AllJudged'
  <2>1. check[c].token
    BY <1>11 DEF Invalid, Valid, At, AllJudged, Judged
  <2>2. CASE Invalid(c)
    <3>1. CASE Auth(c).policy = "required"
      <4>1. Respond(c, "unauthorized", "invalid", FALSE, TRUE)
        BY <2>2, <3>1 DEF Invalid, WithoutIdentity
      <4> QED
        BY <4>1, RespondingJudged DEF Codes, Verdicts
    <3>2. CASE Auth(c).policy # "required"
      <4>1. Respond(c, "ok", "invalid", FALSE, FALSE)
        BY <2>2, <3>2 DEF Invalid, WithoutIdentity
      <4> QED
        BY <2>1, <3>2, <4>1, RespondingJudged DEF Codes, Verdicts
    <3> QED
      BY <3>1, <3>2
  <2>3. CASE \E roles \in SUBSET Permissions : Valid(c, roles)
    <3>1. Respond(c, "forbidden", "valid", FALSE, FALSE) \/ Respond(c, "ok", "valid", TRUE, FALSE)
      BY <2>3 DEF Valid
    <3> QED
      BY <2>1, <3>1, RespondingJudged DEF Codes, Verdicts
  <2> QED
    BY <1>11, <2>2, <2>3
<1> QED
  BY <1>2, <1>3, <1>4, <1>5, <1>6, <1>7, <1>8, <1>9, <1>10, <1>11
     DEF Next, Tick, BadPath, vars

\* Whatever the policies, a request goes on with a token only once the user service
\* has judged it, and with an identity exactly if the token was found valid, as it
\* must be where the policy requires one.
THEOREM TokenJudged == Spec => []TokenIsJudged
<1> DEFINE I == TypeOK /\ LimitedOK /\ IsFiniteSet(grants) /\ AllJudged
<1>1. Init => I
  <2>1. ASSUME Init
        PROVE  AllJudged
    BY <2>1 DEF Init, AllJudged, Judged, Idle
  <2> QED
    BY <2>1, InitTypes
<1>2. I /\ [Next]_vars => I'
  BY StepTypes, StepJudged
<1>3. I => TokenIsJudged
  BY DEF AllJudged, Judged, TokenIsJudged, Auth
<1> QED
  BY <1>1, <1>2, <1>3, PTL DEF Spec
==============================================================================
