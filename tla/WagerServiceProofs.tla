-------------------------- MODULE WagerServiceProofs --------------------------
(***************************************************************************)
(* Theorems about the wager service, for every set of workers, bets and    *)
(* payouts, with and without failures, and for every bound.                *)
(***************************************************************************)
EXTENDS WagerService, FiniteSetTheorems, TLAPS

------------------------------------------------------------------------------
(***************************************************************************)
(* What the document operators of UserBonus return, preserve and bound.    *)
(***************************************************************************)

\* The wagering requirement of a bonus is a positive number.
LEMMA RequiredPositive == Required \in Nat /\ Required > 0
  BY AmountsAssumption DEF Required

\* new ActiveBonus and its absence are bonuses.
LEMMA BonusTypes ==
  ASSUME NEW moment \in Nat
  PROVE  NoBonus \in Bonus /\ NewBonus(moment) \in Bonus
  BY DEF NoBonus, NewBonus, Bonus

\* addWageringProgress yields a bonus of the same kind and id, and adds exactly
\* the amount.
LEMMA ProgressType ==
  ASSUME NEW b \in Bonus, NEW amount \in Nat
  PROVE  /\ AddWageringProgress(b, amount) \in Bonus
         /\ AddWageringProgress(b, amount).kind = b.kind
         /\ AddWageringProgress(b, amount).id = b.id
         /\ AddWageringProgress(b, amount).wagered = b.wagered + amount
<1> DEFINE x == b.wagered + amount
           s == IF x >= Required THEN "completed" ELSE b.status
<1>1. x \in Nat /\ s \in {"active", "completed"}
  BY DEF Bonus
<1>2. AddWageringProgress(b, amount) = [b EXCEPT !.wagered = x, !.status = s]
  BY DEF AddWageringProgress
<1>3. x = b.wagered + amount
  OBVIOUS
<1> HIDE DEF x, s
<1> QED
  BY <1>1, <1>2, <1>3 DEF Bonus

\* The balance setters yield documents, and touch nothing but balances.
LEMMA SettersType ==
  ASSUME NEW d \in Doc, NEW x \in Int
  PROVE  /\ SetRealBalance(d, x) \in Doc
         /\ SetBonusBalance(d, x) \in Doc
         /\ SetRealBalance(d, x).active = d.active
         /\ SetBonusBalance(d, x).active = d.active
         /\ SetRealBalance(d, x).lifetime = d.lifetime
         /\ SetBonusBalance(d, x).lifetime = d.lifetime
         /\ SetRealBalance(d, x).version = d.version
         /\ SetBonusBalance(d, x).version = d.version
<1> DEFINE y == x + d.bonus
           z == d.real + x
<1>1. y \in Int /\ z \in Int
  BY DEF Doc
<1>2. SetRealBalance(d, x) = [d EXCEPT !.real = x, !.total = y]
  BY DEF SetRealBalance
<1>3. SetBonusBalance(d, x) = [d EXCEPT !.bonus = x, !.total = z]
  BY DEF SetBonusBalance
<1> HIDE DEF y, z
<1> QED
  BY <1>1, <1>2, <1>3 DEF Doc

\* setActiveBonus yields a document that holds that bonus.
LEMMA SetActiveType ==
  ASSUME NEW d \in Doc, NEW b \in Bonus
  PROVE  /\ SetActiveBonus(d, b) \in Doc
         /\ SetActiveBonus(d, b).active = b
         /\ SetActiveBonus(d, b).lifetime = d.lifetime
         /\ SetActiveBonus(d, b).version = d.version
<1> DEFINE e == SetBonusBalance(d, WelcomeBonus)
<1>1. e \in Doc /\ e.lifetime = d.lifetime /\ e.version = d.version
  BY AmountsAssumption, SettersType
<1>2. SetActiveBonus(d, b) = [e EXCEPT !.active = b]
  BY DEF SetActiveBonus
<1> HIDE DEF e
<1> QED
  BY <1>1, <1>2 DEF Doc

\* The constructor of UserBonus.
LEMMA NewUserType == NewUser \in Doc /\ NewUser.lifetime = 0
  BY BonusTypes DEF NewUser, Doc

\* An auto-created user holds a bonus without progress.
LEMMA AutoCreatedType ==
  ASSUME NEW moment \in Nat
  PROVE  /\ AutoCreated(moment) \in Doc
         /\ AutoCreated(moment).active = NewBonus(moment)
         /\ AutoCreated(moment).lifetime = 0
<1>1. StartBalance \in Int /\ WelcomeBonus \in Int
  BY AmountsAssumption
<1>2. NewBonus(moment) \in Bonus
  BY BonusTypes
<1> DEFINE d1 == SetRealBalance(NewUser, StartBalance)
           d2 == SetActiveBonus(d1, NewBonus(moment))
           d3 == SetBonusBalance(d2, WelcomeBonus)
<1>3. d1 \in Doc /\ d1.lifetime = 0
  BY <1>1, NewUserType, SettersType
<1>4. d2 \in Doc /\ d2.lifetime = 0 /\ d2.active = NewBonus(moment)
  BY <1>2, <1>3, SetActiveType
<1>5. d3 \in Doc /\ d3.lifetime = 0 /\ d3.active = NewBonus(moment)
  BY <1>1, <1>4, SettersType
<1>6. AutoCreated(moment) = [d3 EXCEPT !.claimed = @ + 1]
  BY DEF AutoCreated
<1> HIDE DEF d3
<1> QED
  BY <1>5, <1>6 DEF Doc

\* A claim puts a bonus without progress in the document, and leaves the
\* lifetime total and the version alone.
LEMMA ClaimedType ==
  ASSUME NEW d \in Doc, NEW moment \in Nat
  PROVE  /\ Claimed(d, moment) \in Doc
         /\ Claimed(d, moment).active = NewBonus(moment)
         /\ Claimed(d, moment).lifetime = d.lifetime
         /\ Claimed(d, moment).version = d.version
<1> DEFINE e == SetActiveBonus(d, NewBonus(moment))
           x == e.bonus + WelcomeBonus
           f == SetBonusBalance(e, x)
<1>1. /\ e \in Doc /\ e.active = NewBonus(moment)
      /\ e.lifetime = d.lifetime /\ e.version = d.version
  BY BonusTypes, SetActiveType
<1>2. Claimed(d, moment) = [f EXCEPT !.claimed = @ + 1]
  BY DEF Claimed
<1> HIDE DEF e
<1>3. x \in Int
  BY <1>1, AmountsAssumption DEF Doc
<1> HIDE DEF x
<1>4. /\ f \in Doc /\ f.active = NewBonus(moment)
      /\ f.lifetime = d.lifetime /\ f.version = d.version
  BY <1>1, <1>3, SettersType
<1> HIDE DEF f
<1> QED
  BY <1>2, <1>4 DEF Doc

\* calculateBalanceDeduction splits the amount, and takes from the bonus balance
\* no more than there is; with canWager the same holds of the real balance.
LEMMA DeductionSplits ==
  ASSUME NEW d \in Doc, NEW amount \in Nat
  PROVE  /\ BonusUsed(d, amount) \in Int
         /\ RealUsed(d, amount) \in Int
         /\ BonusUsed(d, amount) + RealUsed(d, amount) = amount
         /\ BonusUsed(d, amount) <= d.bonus
         /\ CanWager(d, amount) => RealUsed(d, amount) <= d.real
  BY DEF BonusUsed, RealUsed, CanWager, Doc

\* A placed wager adds its amount to the lifetime total and to the progress of
\* a bonus, if there is one; the bonus stays the same bonus.
LEMMA PlacedType ==
  ASSUME NEW d \in Doc, NEW t, t.bonusUsed \in Int, t.realUsed \in Int,
         t.amount \in Nat, NEW payout \in Nat
  PROVE  /\ Placed(d, t, payout) \in Doc
         /\ Placed(d, t, payout).lifetime = d.lifetime + t.amount
         /\ Placed(d, t, payout).version = d.version
         /\ Placed(d, t, payout).active.kind = d.active.kind
         /\ Placed(d, t, payout).active.id = d.active.id
         /\ Placed(d, t, payout).active =
              IF d.active.kind = "none" THEN d.active
              ELSE AddWageringProgress(d.active, t.amount)
         /\ Placed(d, t, payout).active.wagered <= d.active.wagered + t.amount
<1> DEFINE e == SetBonusBalance(d, d.bonus - t.bonusUsed)
           f == SetRealBalance(e, e.real - t.realUsed + payout)
           b == IF f.active.kind = "none" THEN f.active
                ELSE AddWageringProgress(f.active, t.amount)
<1>1. d.bonus - t.bonusUsed \in Int
  BY DEF Doc
<1>2. e \in Doc /\ e.lifetime = d.lifetime /\ e.version = d.version /\ e.active = d.active
  BY <1>1, SettersType
<1>3. e.real - t.realUsed + payout \in Int
  BY <1>2 DEF Doc
<1>4. f \in Doc /\ f.lifetime = d.lifetime /\ f.version = d.version /\ f.active = d.active
  BY <1>2, <1>3, SettersType
<1> DEFINE l == f.lifetime + t.amount
<1>5. Placed(d, t, payout) = [f EXCEPT !.lifetime = l, !.active = b]
  BY DEF Placed
<1>8. l \in Nat /\ l = d.lifetime + t.amount
  BY <1>4 DEF Doc
<1> HIDE DEF f, l
<1>6. d.active \in Bonus
  BY DEF Doc
<1>7. /\ b \in Bonus /\ b.kind = d.active.kind /\ b.id = d.active.id
      /\ b = IF d.active.kind = "none" THEN d.active
            ELSE AddWageringProgress(d.active, t.amount)
      /\ b.wagered <= d.active.wagered + t.amount
  <2>1. CASE d.active.kind = "none"
    BY <1>4, <1>6, <2>1 DEF Bonus
  <2>2. CASE d.active.kind # "none"
    <3> DEFINE c == AddWageringProgress(d.active, t.amount)
    <3>1. b = c
      BY <1>4, <2>2
    <3>2. /\ c \in Bonus /\ c.kind = d.active.kind /\ c.id = d.active.id
          /\ c.wagered = d.active.wagered + t.amount
      BY <1>6, ProgressType
    <3>3. c.wagered <= d.active.wagered + t.amount
      BY <1>6, <3>2 DEF Bonus
    <3>4. b = IF d.active.kind = "none" THEN d.active
              ELSE AddWageringProgress(d.active, t.amount)
      BY <2>2, <3>1
    <3> HIDE DEF b, c
    <3> QED
      BY <3>1, <3>2, <3>3, <3>4
  <2> QED
    BY <2>1, <2>2
<1> HIDE DEF b
<1> QED
  BY <1>4, <1>5, <1>7, <1>8 DEF Doc

\* A conversion empties the bonus, and leaves the lifetime total and the version.
LEMMA ConvertedType ==
  ASSUME NEW d \in Doc
  PROVE  /\ Converted(d) \in Doc
         /\ Converted(d).active = NoBonus
         /\ Converted(d).lifetime = d.lifetime
         /\ Converted(d).version = d.version
<1> DEFINE e == SetRealBalance(d, d.real + WelcomeBonus)
           f == SetBonusBalance(e, 0)
<1>1. d.real + WelcomeBonus \in Int
  BY AmountsAssumption DEF Doc
<1>2. e \in Doc /\ e.lifetime = d.lifetime /\ e.version = d.version
  BY <1>1, SettersType
<1>3. f \in Doc /\ f.lifetime = d.lifetime /\ f.version = d.version
  BY <1>2, SettersType
<1> DEFINE c == f.completed + 1
<1>4. Converted(d) = [f EXCEPT !.active = NoBonus, !.completed = c]
  BY DEF Converted
<1>5. c \in Nat
  BY <1>3 DEF Doc
<1> HIDE DEF f, c
<1> QED
  BY <1>3, <1>4, <1>5, BonusTypes DEF Doc

\* What a flush leaves in a bonus is a bonus, with progress that the database
\* or the flushed document had; only a flush without a bonus removes one.
LEMMA FlushedBonusType ==
  ASSUME NEW now \in Bonus, NEW old \in Bonus, NEW new \in Bonus
  PROVE  /\ FlushedBonus(now, old, new) \in Bonus
         /\ FlushedBonus(now, old, new).wagered \in {now.wagered, new.wagered}
         /\ FlushedBonus(now, old, new).id \in {now.id, new.id}
         /\ new.kind # "none" /\ now.kind # "none"
              => FlushedBonus(now, old, new).kind # "none"
         /\ new = old => FlushedBonus(now, old, new) = now
  BY DEF FlushedBonus, Changed, Bonus

\* What a flush leaves of a document, field by field.
LEMMA FlushedType ==
  ASSUME NEW now \in Doc, NEW old \in Doc, NEW new \in Doc
  PROVE  /\ Flushed(now, old, new) \in Doc
         /\ Flushed(now, old, new).lifetime \in {now.lifetime, new.lifetime}
         /\ Flushed(now, old, new).active = FlushedBonus(now.active, old.active, new.active)
         /\ new.version = old.version => Flushed(now, old, new).version = now.version
<1>1. FlushedBonus(now.active, old.active, new.active) \in Bonus
  BY FlushedBonusType DEF Doc
<1> QED
  BY <1>1 DEF Flushed, Changed, Doc

------------------------------------------------------------------------------
(***************************************************************************)
(* The type invariant, strengthened by what a request holds at each step.  *)
(***************************************************************************)
Creating == {"validate.create", "claim.create", "progress.create"}
NeedsUser == Steps \ (Creating \cup {"idle"})

\* A good request, when the document is d and i was issued.
RequestOK(r, d, i) ==
  /\ r.at # "idle" => r.doc \in Doc
  /\ r.at \in NeedsUser => d # NoDoc
  /\ r.at \in {"place.insert", "place.update"} => r.ticket \in i

TypeInv ==
  /\ TypeOK
  /\ IsFiniteSet(issued) /\ IsFiniteSet(conversions)
  /\ issued # {} => db # NoDoc
  /\ \A w \in Workers : RequestOK(req[w], db, issued)

\* Whoever sets one worker's request to a good one keeps all of them good.
LEMMA OneRequest ==
  ASSUME TypeInv, NEW w \in Workers, NEW r \in Request,
         req' = [req EXCEPT ![w] = r],
         db' = db \/ db' # NoDoc, issued \subseteq issued', RequestOK(r, db', issued')
  PROVE  /\ req' \in [Workers -> Request]
         /\ \A v \in Workers : RequestOK(req'[v], db', issued')
<1>1. req \in [Workers -> Request]
  BY DEF TypeInv, TypeOK
<1>2. req' \in [Workers -> Request]
  BY <1>1
<1>3. ASSUME NEW v \in Workers PROVE RequestOK(req'[v], db', issued')
  <2>1. CASE v = w
    BY <1>1, <2>1 DEF RequestOK
  <2>2. CASE v # w
    <3>1. req'[v] = req[v] /\ RequestOK(req[v], db, issued)
      BY <1>1, <2>2 DEF TypeInv
    <3> QED
      BY <3>1 DEF RequestOK
  <2> QED
    BY <2>1, <2>2
<1> QED
  BY <1>2, <1>3

\* An idle worker's request is a good one.
LEMMA IdleType == Idle \in Request /\ Idle.at = "idle"
  BY DEF Idle, Request, Steps

\* Finishing a request keeps the requests good.
LEMMA FinishKeeps ==
  ASSUME TypeInv, NEW w \in Workers, Finish(w),
         db' = db \/ db' # NoDoc, issued \subseteq issued'
  PROVE  /\ req' \in [Workers -> Request]
         /\ \A v \in Workers : RequestOK(req'[v], db', issued')
<1>1. RequestOK(Idle, db', issued')
  BY IdleType DEF RequestOK, NeedsUser, Idle
<1> QED
  BY <1>1, IdleType, OneRequest DEF Finish

\* Going from a step that found the user to another such step does, too.
LEMMA GotoKeeps ==
  ASSUME TypeInv, NEW w \in Workers, NEW step \in NeedsUser, Goto(w, step),
         db' = db \/ db' # NoDoc, issued \subseteq issued', db' # NoDoc,
         ~At(w, "idle"),
         step \in {"place.insert", "place.update"} =>
           req[w].at \in {"place.insert", "place.update"}
  PROVE  /\ req' \in [Workers -> Request]
         /\ \A v \in Workers : RequestOK(req'[v], db', issued')
<1> DEFINE r == [req[w] EXCEPT !.at = step]
<1>1. req[w] \in Request /\ RequestOK(req[w], db, issued)
  BY DEF TypeInv, TypeOK
<1>2. r \in Request /\ r.at = step /\ r.doc = req[w].doc /\ r.ticket = req[w].ticket
  BY <1>1 DEF Request, NeedsUser
<1>3. req' = [req EXCEPT ![w] = r]
  BY DEF Goto
<1>4. RequestOK(r, db', issued')
  BY <1>1, <1>2 DEF RequestOK, At
<1> HIDE DEF r
<1> QED
  BY <1>2, <1>3, <1>4, OneRequest

\* The initial state satisfies the type invariant.
LEMMA TypeInit == Init => TypeInv
<1> SUFFICES ASSUME Init PROVE TypeInv
  OBVIOUS
<1>1. TypeOK
  BY IdleType DEF Init, TypeOK
<1>2. IsFiniteSet(issued) /\ IsFiniteSet(conversions)
  BY FS_EmptySet DEF Init
<1>3. \A w \in Workers : RequestOK(req[w], db, issued)
  BY IdleType DEF Init, RequestOK, NeedsUser
<1> QED
  BY <1>1, <1>2, <1>3 DEF Init, TypeInv

\* A request that starts holds the user document, known or about to be created.
LEMMA StartKeeps ==
  ASSUME TypeInv, NEW w \in Workers, NEW r, req' = [req EXCEPT ![w] = r],
         r.at \in Steps \ {"idle", "place.insert", "place.update"}, r.doc \in Doc,
         r \in Request, db' = db, issued' = issued, r.at \in NeedsUser => db # NoDoc
  PROVE  /\ req' \in [Workers -> Request]
         /\ \A v \in Workers : RequestOK(req'[v], db', issued')
<1>1. RequestOK(r, db', issued')
  BY DEF RequestOK
<1> QED
  BY <1>1, OneRequest

\* The validation data of a granted wager is well-typed.
LEMMA TicketType ==
  ASSUME NEW d \in Doc, NEW amount \in Nat, NEW n \in Nat, NEW g \in Nat
  PROVE  [n |-> n, gen |-> g, version |-> d.version, amount |-> amount,
          bonusUsed |-> BonusUsed(d, amount), realUsed |-> RealUsed(d, amount),
          realBefore |-> d.real, bonusBefore |-> d.bonus] \in Ticket
<1>1. BonusUsed(d, amount) \in Int /\ RealUsed(d, amount) \in Int
  BY DeductionSplits
<1>2. d.version \in Nat /\ d.real \in Int /\ d.bonus \in Int
  BY DEF Doc
<1> QED
  BY <1>1, <1>2 DEF Ticket

\* Every step keeps the type invariant.
LEMMA TypeNext == TypeInv /\ [Next]_vars => TypeInv'
<1> SUFFICES ASSUME TypeInv, [Next]_vars PROVE TypeInv'
  OBVIOUS
<1> USE DEF ghosts
<1>t. TypeOK
  BY DEF TypeInv
<1>r. \A w \in Workers : req[w] \in Request /\ RequestOK(req[w], db, issued)
  BY DEF TypeInv, TypeOK
<1>d. db # NoDoc => db \in Doc
  BY <1>t DEF TypeOK
<1>n. NoDoc \notin Doc
  BY WagerAssumption
<1>1. ASSUME NEW w \in Workers, NEW amount \in Bets, ValidateFind(w, amount)
      PROVE  TypeInv'
  <2>1. amount \in Nat /\ second \in Nat /\ 0 \in Nat
    BY <1>t, WagerAssumption DEF TypeOK
  <2>2. /\ req' \in [Workers -> Request]
        /\ \A v \in Workers : RequestOK(req'[v], db', issued')
    <3>1. CASE db = NoDoc
      <4> DEFINE d == AutoCreated(second)
                 r == [Idle EXCEPT !.at = "validate.create", !.doc = d, !.amount = amount]
      <4>1. d \in Doc
        BY <2>1, AutoCreatedType
      <4>2. req' = [req EXCEPT ![w] = r]
        BY <1>1, <3>1 DEF ValidateFind
      <4> HIDE DEF d
      <4>3. r \in Request /\ r.at = "validate.create" /\ r.doc = d
        BY <2>1, <4>1 DEF Idle, Request, Steps
      <4> HIDE DEF r
      <4> QED
        BY <1>1, <4>1, <4>2, <4>3, StartKeeps
           DEF ValidateFind, NeedsUser, Creating, Steps
    <3>2. CASE db # NoDoc
      <4> DEFINE r == [Idle EXCEPT !.at = "validate.lock", !.doc = db, !.amount = amount]
      <4>1. req' = [req EXCEPT ![w] = r]
        BY <1>1, <3>2 DEF ValidateFind
      <4>2. r \in Request /\ r.at = "validate.lock" /\ r.doc = db
        BY <1>d, <2>1, <3>2 DEF Idle, Request, Steps
      <4> HIDE DEF r
      <4> QED
        BY <1>1, <1>d, <3>2, <4>1, <4>2, StartKeeps
           DEF ValidateFind, NeedsUser, Creating, Steps
    <3> QED
      BY <3>1, <3>2
  <2> QED
    BY <1>1, <2>2 DEF ValidateFind, TypeInv, TypeOK
<1>2. ASSUME NEW w \in Workers, ValidateCreate(w) PROVE TypeInv'
  <2>1. /\ req[w].doc \in Doc /\ db' = req[w].doc /\ db' # NoDoc
        /\ gen' = gen + 1 /\ credited' = credited + req[w].doc.total
    BY <1>2, <1>r, <1>n DEF ValidateCreate, Upsert, At, RequestOK
  <2>2. req[w].doc.total \in Int
    BY <2>1 DEF Doc
  <2>3. /\ req' \in [Workers -> Request]
        /\ \A v \in Workers : RequestOK(req'[v], db', issued')
    <3>1. CASE Finish(w)
      BY <1>2, <2>1, <3>1, FinishKeeps DEF ValidateCreate
    <3>2. CASE Goto(w, "validate.lock")
      BY <1>2, <2>1, <3>2, GotoKeeps
         DEF ValidateCreate, At, NeedsUser, Creating, Steps
    <3> QED
      BY <1>2, <3>1, <3>2 DEF ValidateCreate
  <2> QED
    BY <1>2, <1>t, <2>1, <2>2, <2>3 DEF ValidateCreate, TypeInv, TypeOK
<1>3. ASSUME NEW w \in Workers, ValidateLock(w) PROVE TypeInv'
  <2> DEFINE d == req[w].doc
             t == [n |-> Cardinality(issued) + 1, gen |-> gen, version |-> d.version,
                   amount |-> req[w].amount, bonusUsed |-> BonusUsed(d, req[w].amount),
                   realUsed |-> RealUsed(d, req[w].amount),
                   realBefore |-> d.real, bonusBefore |-> d.bonus]
  <2>1. /\ req[w].at = "validate.lock" /\ db' = [db EXCEPT !.version = @ + 1]
        /\ tickets' = tickets \cup {t} /\ issued' = issued \cup {t} /\ Finish(w)
        /\ UNCHANGED <<history, conversions, second, gen, staked, paid, credited>>
    BY <1>3 DEF ValidateLock, At
  <2>2. d \in Doc /\ db # NoDoc /\ db \in Doc
    BY <1>r, <1>d, <2>1 DEF RequestOK, NeedsUser, Creating, Steps
  <2>3. Cardinality(issued) + 1 \in Nat
    BY FS_CardinalityType DEF TypeInv
  <2>4. req[w].amount \in Nat /\ gen \in Nat
    BY <1>r, <1>t DEF Request, TypeOK
  <2>5. t \in Ticket
    BY <2>2, <2>3, <2>4, TicketType
  <2>6. db' \in Doc
    <3>1. db.version + 1 \in Nat
      BY <2>2 DEF Doc
    <3> QED
      BY <2>1, <2>2, <3>1 DEF Doc
  <2>7. IsFiniteSet(issued')
    BY <2>1, FS_AddElement DEF TypeInv
  <2> HIDE DEF t
  <2>8. /\ req' \in [Workers -> Request]
        /\ \A v \in Workers : RequestOK(req'[v], db', issued')
    BY <1>n, <2>1, <2>6, FinishKeeps
  <2> QED
    BY <1>n, <1>t, <2>1, <2>5, <2>6, <2>7, <2>8 DEF TypeInv, TypeOK
<1>4. ASSUME NEW w \in Workers, ValidateLockLost(w) PROVE TypeInv'
  BY <1>4, FinishKeeps DEF ValidateLockLost, TypeInv, TypeOK
<1>5. ASSUME NEW w \in Workers, NEW t \in tickets, NEW payout \in Payouts,
             PlaceFind(w, t, payout)
      PROVE  TypeInv'
  <2> DEFINE r == [Idle EXCEPT !.at = "place.insert", !.doc = db,
                               !.ticket = t, !.payout = payout]
  <2>1. t \in issued /\ t \in Ticket /\ payout \in Nat /\ db \in Doc /\ db # NoDoc
    BY <1>t, <1>d, WagerAssumption DEF TypeInv, TypeOK
  <2>2. r \in Request /\ RequestOK(r, db', issued')
    BY <1>5, <2>1 DEF PlaceFind, RequestOK, Idle, Request, Steps
  <2>3. req' = [req EXCEPT ![w] = r]
    BY <1>5 DEF PlaceFind
  <2> HIDE DEF r
  <2>4. /\ req' \in [Workers -> Request]
        /\ \A v \in Workers : RequestOK(req'[v], db', issued')
    BY <1>5, <2>2, <2>3, OneRequest DEF PlaceFind
  <2> QED
    BY <1>5, <2>4 DEF PlaceFind, TypeInv, TypeOK
<1>6. ASSUME NEW w \in Workers, PlaceInsert(w) PROVE TypeInv'
  <2> DEFINE t == req[w].ticket
             d == req[w].doc
             e == Placed(d, t, req[w].payout)
             h == [n |-> t.n, amount |-> t.amount, payout |-> req[w].payout,
                   bonusId |-> d.active.id, bonusUsed |-> t.bonusUsed,
                   realUsed |-> t.realUsed, realBefore |-> t.realBefore,
                   realAfter |-> e.real, bonusBefore |-> t.bonusBefore,
                   bonusAfter |-> e.bonus]
  <2>1. /\ req[w].at = "place.insert" /\ history' = history \cup {h}
        /\ staked' = staked + t.amount /\ paid' = paid + req[w].payout
        /\ Goto(w, "place.update")
        /\ UNCHANGED <<db, conversions, tickets, second, issued, gen, credited>>
    BY <1>6 DEF PlaceInsert, At
  <2>2. d \in Doc /\ t \in Ticket /\ db # NoDoc /\ req[w].payout \in Nat
    BY <1>r, <1>t, <2>1 DEF RequestOK, NeedsUser, Creating, Steps, TypeOK, Request
  <2>3. t.amount \in Nat /\ t.bonusUsed \in Int /\ t.realUsed \in Int
    BY <2>2 DEF Ticket
  <2>4. e \in Doc
    BY <2>2, <2>3, PlacedType
  <2>5. e.real \in Int /\ e.bonus \in Int /\ d.active.id \in Nat
    BY <2>2, <2>4 DEF Doc, Bonus
  <2> HIDE DEF e
  <2>6. h \in Wager
    BY <2>2, <2>3, <2>5 DEF Wager, Ticket
  <2> HIDE DEF h
  <2>7. /\ req' \in [Workers -> Request]
        /\ \A v \in Workers : RequestOK(req'[v], db', issued')
    BY <2>1, <2>2, GotoKeeps DEF At, NeedsUser, Creating, Steps
  <2> QED
    BY <1>t, <2>1, <2>2, <2>3, <2>6, <2>7 DEF TypeInv, TypeOK
<1>7. ASSUME NEW w \in Workers, PlaceUpdate(w) PROVE TypeInv'
  <2> DEFINE t == req[w].ticket
             d == req[w].doc
  <2>1. d \in Doc /\ t \in Ticket /\ db # NoDoc /\ db \in Doc /\ req[w].payout \in Nat
    BY <1>7, <1>r, <1>t, <1>d
       DEF PlaceUpdate, At, RequestOK, NeedsUser, Creating, Steps, TypeOK, Request
  <2>2. Placed(d, t, req[w].payout) \in Doc
    BY <2>1, PlacedType DEF Ticket
  <2>3. db' \in Doc
    BY <1>7, <2>1, <2>2, FlushedType DEF PlaceUpdate, Flush
  <2> QED
    BY <1>7, <1>n, <2>3, FinishKeeps DEF PlaceUpdate, TypeInv, TypeOK
<1>8. ASSUME NEW w \in Workers, ClaimFind(w) PROVE TypeInv'
  <2>1. second \in Nat /\ 0 \in Nat
    BY <1>t DEF TypeOK
  <2>2. /\ req' \in [Workers -> Request]
        /\ \A v \in Workers : RequestOK(req'[v], db', issued')
    <3>1. CASE db = NoDoc
      <4> DEFINE d == Claimed(NewUser, second)
                 r == [Idle EXCEPT !.at = "claim.create", !.doc = d]
      <4>1. d \in Doc
        BY <2>1, NewUserType, ClaimedType
      <4>2. req' = [req EXCEPT ![w] = r]
        BY <1>8, <3>1 DEF ClaimFind
      <4> HIDE DEF d
      <4>3. r \in Request /\ r.at = "claim.create" /\ r.doc = d
        BY <4>1 DEF Idle, Request, Steps
      <4> HIDE DEF r
      <4> QED
        BY <1>8, <4>1, <4>2, <4>3, StartKeeps
           DEF ClaimFind, NeedsUser, Creating, Steps
    <3>2. CASE db # NoDoc
      <4> DEFINE r == [Idle EXCEPT !.at = "claim.update", !.doc = db, !.id = second]
      <4>1. req' = [req EXCEPT ![w] = r]
        BY <1>8, <3>2 DEF ClaimFind
      <4>2. r \in Request /\ r.at = "claim.update" /\ r.doc = db
        BY <1>d, <2>1, <3>2 DEF Idle, Request, Steps
      <4> HIDE DEF r
      <4> QED
        BY <1>8, <1>d, <3>2, <4>1, <4>2, StartKeeps
           DEF ClaimFind, NeedsUser, Creating, Steps
    <3> QED
      BY <3>1, <3>2
  <2> QED
    BY <1>8, <2>2 DEF ClaimFind, TypeInv, TypeOK
<1>9. ASSUME NEW w \in Workers, ClaimCreate(w) \/ ProgressCreate(w) PROVE TypeInv'
  <2>1. /\ req[w].doc \in Doc /\ db' = req[w].doc /\ db' # NoDoc /\ Finish(w)
        /\ gen' = gen + 1 /\ credited' = credited + req[w].doc.total
        /\ UNCHANGED <<history, conversions, tickets, second, issued, staked, paid>>
    BY <1>9, <1>r, <1>n DEF ClaimCreate, ProgressCreate, Upsert, At, RequestOK
  <2>2. req[w].doc.total \in Int
    BY <2>1 DEF Doc
  <2> QED
    BY <1>t, <2>1, <2>2, FinishKeeps DEF TypeInv, TypeOK
<1>10. ASSUME NEW w \in Workers, ClaimUpdate(w) PROVE TypeInv'
  <2> DEFINE d == Claimed(req[w].doc, req[w].id)
  <2>1. req[w].doc \in Doc /\ db \in Doc /\ req[w].id \in Nat
    BY <1>10, <1>r, <1>d
       DEF ClaimUpdate, At, RequestOK, NeedsUser, Creating, Steps, Request
  <2>2. d \in Doc
    BY <2>1, ClaimedType
  <2>3. db' \in Doc
    BY <1>10, <2>1, <2>2, FlushedType DEF ClaimUpdate, Flush
  <2>4. credited' \in Int
    <3>1. d.total \in Int /\ req[w].doc.total \in Int /\ credited \in Int
      BY <1>t, <2>1, <2>2 DEF Doc, TypeOK
    <3>2. credited' = credited + (d.total - req[w].doc.total)
      BY <1>10 DEF ClaimUpdate
    <3> HIDE DEF d
    <3> QED
      BY <3>1, <3>2
  <2> QED
    BY <1>10, <1>n, <2>3, <2>4, FinishKeeps DEF ClaimUpdate, TypeInv, TypeOK
<1>11. ASSUME NEW w \in Workers, ProgressFind(w) PROVE TypeInv'
  <2>1. second \in Nat /\ 0 \in Nat
    BY <1>t DEF TypeOK
  <2> DEFINE d == AutoCreated(second)
             r == [Idle EXCEPT !.at = "progress.create", !.doc = d]
  <2>2. d \in Doc /\ req' = [req EXCEPT ![w] = r]
    BY <1>11, <2>1, AutoCreatedType DEF ProgressFind
  <2> HIDE DEF d
  <2>3. r \in Request /\ r.at = "progress.create" /\ r.doc = d
    BY <2>2 DEF Idle, Request, Steps
  <2> HIDE DEF r
  <2>4. /\ req' \in [Workers -> Request]
        /\ \A v \in Workers : RequestOK(req'[v], db', issued')
    BY <1>11, <2>2, <2>3, StartKeeps DEF ProgressFind, NeedsUser, Creating, Steps
  <2> QED
    BY <1>11, <2>4 DEF ProgressFind, TypeInv, TypeOK
<1>12. ASSUME NEW w \in Workers, ConvertFind(w) PROVE TypeInv'
  <2> DEFINE r == [Idle EXCEPT !.at = "convert.stats", !.doc = db]
  <2>1. req' = [req EXCEPT ![w] = r] /\ db \in Doc
    BY <1>12, <1>d DEF ConvertFind
  <2>2. r \in Request /\ r.at = "convert.stats" /\ r.doc = db
    BY <2>1 DEF Idle, Request, Steps
  <2> HIDE DEF r
  <2>3. /\ req' \in [Workers -> Request]
        /\ \A v \in Workers : RequestOK(req'[v], db', issued')
    BY <1>12, <2>1, <2>2, StartKeeps DEF ConvertFind, NeedsUser, Creating, Steps
  <2> QED
    BY <1>12, <2>3 DEF ConvertFind, TypeInv, TypeOK
<1>13. ASSUME NEW w \in Workers, ConvertStats(w) PROVE TypeInv'
  <2>1. db # NoDoc
    BY <1>13, <1>r DEF ConvertStats, At, RequestOK, NeedsUser, Creating, Steps
  <2>2. /\ req' \in [Workers -> Request]
        /\ \A v \in Workers : RequestOK(req'[v], db', issued')
    <3>1. CASE Finish(w)
      BY <1>13, <3>1, FinishKeeps DEF ConvertStats
    <3>2. CASE Goto(w, "convert.insert")
      BY <1>13, <2>1, <3>2, GotoKeeps
         DEF ConvertStats, At, NeedsUser, Creating, Steps
    <3> QED
      BY <1>13, <3>1, <3>2 DEF ConvertStats
  <2> QED
    BY <1>13, <2>2 DEF ConvertStats, TypeInv, TypeOK
<1>14. ASSUME NEW w \in Workers, ConvertInsert(w) PROVE TypeInv'
  <2> DEFINE c == [n |-> Cardinality(conversions) + 1, bonusId |-> req[w].doc.active.id,
                   wagered |-> req[w].doc.active.wagered]
  <2>1. /\ req[w].at = "convert.insert" /\ conversions' = conversions \cup {c}
        /\ Goto(w, "convert.update")
        /\ UNCHANGED <<db, history, tickets, second, ghosts>>
    BY <1>14 DEF ConvertInsert, At
  <2>2. db # NoDoc /\ req[w].doc \in Doc
    BY <1>r, <2>1 DEF RequestOK, NeedsUser, Creating, Steps
  <2>3. c \in Conversion
    <3>1. Cardinality(conversions) + 1 \in Nat
      BY FS_CardinalityType DEF TypeInv
    <3> QED
      BY <2>2, <3>1 DEF Conversion, Doc, Bonus
  <2>4. IsFiniteSet(conversions')
    BY <2>1, FS_AddElement DEF TypeInv
  <2> HIDE DEF c
  <2>5. /\ req' \in [Workers -> Request]
        /\ \A v \in Workers : RequestOK(req'[v], db', issued')
    BY <2>1, <2>2, GotoKeeps DEF At, NeedsUser, Creating, Steps
  <2> QED
    BY <2>1, <2>3, <2>4, <2>5 DEF TypeInv, TypeOK
<1>15. ASSUME NEW w \in Workers, ConvertUpdate(w) PROVE TypeInv'
  <2> DEFINE d == Converted(req[w].doc)
  <2>1. req[w].doc \in Doc /\ db \in Doc
    BY <1>15, <1>r, <1>d
       DEF ConvertUpdate, At, RequestOK, NeedsUser, Creating, Steps
  <2>2. d \in Doc
    BY <2>1, ConvertedType
  <2>3. db' \in Doc
    BY <1>15, <2>1, <2>2, FlushedType DEF ConvertUpdate, Flush
  <2>4. credited' \in Int
    <3>1. d.total \in Int /\ req[w].doc.total \in Int /\ credited \in Int
      BY <1>t, <2>1, <2>2 DEF Doc, TypeOK
    <3>2. credited' = credited + (d.total - req[w].doc.total)
      BY <1>15 DEF ConvertUpdate
    <3> HIDE DEF d
    <3> QED
      BY <3>1, <3>2
  <2> QED
    BY <1>15, <1>n, <2>3, <2>4, FinishKeeps DEF ConvertUpdate, TypeInv, TypeOK
<1>16. ASSUME NEW w \in Workers, RequestFails(w) PROVE TypeInv'
  BY <1>16, FinishKeeps DEF RequestFails, TypeInv, TypeOK
<1>17. CASE Tick
  BY <1>17 DEF Tick, TypeInv, TypeOK
<1>18. CASE UNCHANGED vars
  BY <1>18 DEF vars, TypeInv, TypeOK
<1> QED
  BY <1>1, <1>2, <1>3, <1>4, <1>5, <1>6, <1>7, <1>8, <1>9, <1>10, <1>11, <1>12,
     <1>13, <1>14, <1>15, <1>16, <1>17, <1>18 DEF Next, Serve, ReadOnly

\* Type correctness, with what a request holds at each of its steps.
THEOREM TypeInvariant == Spec => []TypeInv
  BY TypeInit, TypeNext, PTL DEF Spec

\* Every variable keeps its type.
THEOREM TypeCorrect == Spec => []TypeOK
<1>1. TypeInv => TypeOK
  BY DEF TypeInv
<1> QED
  BY <1>1, TypeInvariant, PTL

------------------------------------------------------------------------------
(***************************************************************************)
(* The version check.  A grant carries a version the document has left.    *)
(***************************************************************************)
VersionInv ==
  /\ \A t \in issued : t.gen <= gen /\ (t.gen = gen => t.version < db.version)
  /\ OneGrantPerVersion

\* What a request that places a wager holds, and what placing does to its document.
LEMMA PlacingRequest ==
  ASSUME TypeInv, NEW w \in Workers, req[w].at \in {"place.insert", "place.update"},
         NEW e, e = Placed(req[w].doc, req[w].ticket, req[w].payout)
  PROVE  /\ req[w].doc \in Doc /\ db \in Doc /\ req[w].payout \in Nat
         /\ req[w].ticket \in Ticket /\ req[w].ticket \in issued
         /\ e \in Doc /\ e.version = req[w].doc.version
         /\ e.lifetime = req[w].doc.lifetime + req[w].ticket.amount
         /\ e.active.kind = req[w].doc.active.kind
         /\ e.active.id = req[w].doc.active.id
         /\ e.active.wagered <= req[w].doc.active.wagered + req[w].ticket.amount
         /\ req[w].doc.active.kind = "none" => e.active = req[w].doc.active
         /\ req[w].doc.active.kind # "none" =>
              e.active = AddWageringProgress(req[w].doc.active, req[w].ticket.amount)
<1> DEFINE d == req[w].doc
           t == req[w].ticket
           payout == req[w].payout
<1>1. req[w] \in Request /\ RequestOK(req[w], db, issued)
  BY DEF TypeInv, TypeOK
<1>2. d \in Doc /\ db # NoDoc /\ t \in issued /\ payout \in Nat
  BY <1>1 DEF RequestOK, NeedsUser, Creating, Steps, Request
<1>3. db \in Doc /\ t \in Ticket
  BY <1>2 DEF TypeInv, TypeOK
<1>4. t.amount \in Nat /\ t.bonusUsed \in Int /\ t.realUsed \in Int
  BY <1>3 DEF Ticket
<1>5. e = Placed(d, t, payout)
  OBVIOUS
<1> HIDE DEF d, t, payout
<1>6. /\ e \in Doc /\ e.version = d.version
      /\ e.lifetime = d.lifetime + t.amount
      /\ e.active.kind = d.active.kind
      /\ e.active.id = d.active.id
      /\ e.active.wagered <= d.active.wagered + t.amount
      /\ d.active.kind = "none" => e.active = d.active
      /\ d.active.kind # "none" => e.active = AddWageringProgress(d.active, t.amount)
  BY <1>2, <1>4, <1>5, PlacedType
<1> QED
  BY <1>2, <1>3, <1>6 DEF d, t, payout

\* A flush leaves the version alone: no service changes it on a loaded document.
LEMMA FlushKeepsVersion ==
  ASSUME TypeInv, NEW w \in Workers,
         PlaceUpdate(w) \/ ClaimUpdate(w) \/ ConvertUpdate(w)
  PROVE  db'.version = db.version
<1>1. req[w].doc \in Doc /\ db \in Doc /\ req[w].id \in Nat
  BY DEF PlaceUpdate, ClaimUpdate, ConvertUpdate, At, TypeInv, TypeOK, RequestOK,
         NeedsUser, Creating, Steps, Request
<1>2. CASE PlaceUpdate(w)
  <2> DEFINE new == Placed(req[w].doc, req[w].ticket, req[w].payout)
  <2>1. new \in Doc /\ new.version = req[w].doc.version
    BY <1>2, PlacingRequest DEF PlaceUpdate, At
  <2>2. db' = Flushed(db, req[w].doc, new)
    BY <1>2 DEF PlaceUpdate, Flush
  <2> HIDE DEF new
  <2> QED
    BY <1>1, <2>1, <2>2, FlushedType
<1>3. CASE ClaimUpdate(w)
  <2> DEFINE new == Claimed(req[w].doc, req[w].id)
  <2>1. new \in Doc /\ new.version = req[w].doc.version
    BY <1>1, ClaimedType
  <2>2. db' = Flushed(db, req[w].doc, new)
    BY <1>3 DEF ClaimUpdate, Flush
  <2> HIDE DEF new
  <2> QED
    BY <1>1, <2>1, <2>2, FlushedType
<1>4. CASE ConvertUpdate(w)
  <2> DEFINE new == Converted(req[w].doc)
  <2>1. new \in Doc /\ new.version = req[w].doc.version
    BY <1>1, ConvertedType
  <2>2. db' = Flushed(db, req[w].doc, new)
    BY <1>4 DEF ConvertUpdate, Flush
  <2> HIDE DEF new
  <2> QED
    BY <1>1, <2>1, <2>2, FlushedType
<1> QED
  BY <1>2, <1>3, <1>4

\* Every step keeps the version invariant.
LEMMA VersionNext == TypeInv /\ VersionInv /\ [Next]_vars => VersionInv'
<1> SUFFICES ASSUME TypeInv, VersionInv, [Next]_vars PROVE VersionInv'
  OBVIOUS
<1> USE DEF ghosts
<1>t. \A t \in issued : t.gen \in Nat /\ t.version \in Nat
  BY DEF TypeInv, TypeOK, Ticket
<1>g. gen \in Nat
  BY DEF TypeInv, TypeOK
<1>1. ASSUME issued' = issued, gen' = gen, db' = db \/ db'.version = db.version
      PROVE  VersionInv'
  BY <1>1 DEF VersionInv, OneGrantPerVersion
<1>2. ASSUME issued' = issued, gen' = gen + 1 PROVE VersionInv'
  <2>1. \A t \in issued : t.gen <= gen' /\ t.gen # gen'
    BY <1>2, <1>t, <1>g DEF VersionInv
  <2> QED
    BY <1>2, <2>1 DEF VersionInv, OneGrantPerVersion
<1>3. ASSUME NEW w \in Workers, ValidateLock(w) PROVE VersionInv'
  <2> DEFINE t == [n |-> Cardinality(issued) + 1, gen |-> gen,
                   version |-> req[w].doc.version,
                   amount |-> req[w].amount,
                   bonusUsed |-> BonusUsed(req[w].doc, req[w].amount),
                   realUsed |-> RealUsed(req[w].doc, req[w].amount),
                   realBefore |-> req[w].doc.real, bonusBefore |-> req[w].doc.bonus]
  <2>1. /\ db' = [db EXCEPT !.version = @ + 1] /\ db.version = req[w].doc.version
        /\ issued' = issued \cup {t} /\ gen' = gen
    BY <1>3 DEF ValidateLock, VersionMatches
  <2>2. t.gen = gen /\ t.version = db.version
    BY <2>1
  <2> HIDE DEF t
  <2>3. db \in Doc
    <3>1. req[w].at = "validate.lock" /\ RequestOK(req[w], db, issued)
      BY <1>3 DEF ValidateLock, At, TypeInv
    <3>2. db # NoDoc
      BY <3>1 DEF RequestOK, NeedsUser, Creating, Steps
    <3> QED
      BY <3>2 DEF TypeInv, TypeOK
  <2>4. db'.version = db.version + 1 /\ db.version \in Nat
    BY <2>1, <2>3 DEF Doc
  <2>5. ASSUME NEW s \in issued' PROVE s.gen <= gen' /\ (s.gen = gen' => s.version < db'.version)
    <3>1. CASE s \in issued
      BY <1>t, <2>1, <2>4, <3>1 DEF VersionInv
    <3>2. CASE s = t
      BY <1>g, <2>1, <2>2, <2>4, <3>2
    <3> QED
      BY <2>1, <3>1, <3>2
  <2>6. \A s \in issued : s.gen # t.gen \/ s.version # t.version
    BY <1>t, <2>2, <2>4 DEF VersionInv
  <2>7. OneGrantPerVersion'
    BY <2>1, <2>6 DEF VersionInv, OneGrantPerVersion
  <2> QED
    BY <2>5, <2>7 DEF VersionInv
<1>4. ASSUME NEW w \in Workers,
             ValidateCreate(w) \/ ClaimCreate(w) \/ ProgressCreate(w)
      PROVE  VersionInv'
  BY <1>2, <1>4 DEF ValidateCreate, ClaimCreate, ProgressCreate, Upsert
<1>5. ASSUME NEW w \in Workers, PlaceUpdate(w) \/ ClaimUpdate(w) \/ ConvertUpdate(w)
      PROVE  VersionInv'
  BY <1>1, <1>5, FlushKeepsVersion DEF PlaceUpdate, ClaimUpdate, ConvertUpdate
<1>6. ASSUME NEW w \in Workers,
             \/ \E amount \in Bets : ValidateFind(w, amount)
             \/ ValidateLockLost(w)
             \/ \E t \in tickets, payout \in Payouts : PlaceFind(w, t, payout)
             \/ PlaceInsert(w) \/ ClaimFind(w) \/ ProgressFind(w) \/ ConvertFind(w)
             \/ ConvertStats(w) \/ ConvertInsert(w) \/ RequestFails(w)
      PROVE  VersionInv'
  BY <1>1, <1>6 DEF ValidateFind, ValidateLockLost, PlaceFind, PlaceInsert, ClaimFind,
     ProgressFind, ConvertFind, ConvertStats, ConvertInsert, RequestFails
<1>7. CASE Tick \/ UNCHANGED vars
  BY <1>1, <1>7 DEF Tick, vars
<1> QED
  BY <1>3, <1>4, <1>5, <1>6, <1>7 DEF Next, Serve, ReadOnly

\* Two validations of the same version of the user are never both granted,
\* however many workers race for them and whatever is flushed in between.
THEOREM OneGrant == Spec => []OneGrantPerVersion
<1>1. Init => VersionInv
  BY DEF Init, VersionInv, OneGrantPerVersion
<1>2. VersionInv => OneGrantPerVersion
  BY DEF VersionInv
<1> QED
  BY <1>1, <1>2, TypeInvariant, VersionNext, PTL DEF Spec

------------------------------------------------------------------------------
(***************************************************************************)
(* Progress is backed by the history.  What matters is the order of the    *)
(* two writes of a flush: the record first, then the user, so that all a   *)
(* request will ever write to the user is on record by then.               *)
(***************************************************************************)
Within(d, total) == d.lifetime <= total /\ d.active.wagered <= total

BackedRequest(r, total) ==
  /\ r.at # "idle" => Within(r.doc, total)
  /\ r.at = "place.update" => /\ r.doc.lifetime + r.ticket.amount <= total
                              /\ r.doc.active.wagered + r.ticket.amount <= total
  /\ r.at \in {"convert.stats", "convert.insert", "convert.update"} =>
       IsComplete(r.doc.active)

BackedInv == /\ ProgressIsBacked
             /\ \A w \in Workers : BackedRequest(req[w], staked)
             /\ ConversionsAreEarned

\* An idle request is backed, and so is one that just starts on a backed document.
LEMMA StartBacked ==
  ASSUME NEW total \in Nat, NEW r,
         \/ r.at = "idle"
         \/ /\ r.at \notin {"idle", "place.update", "convert.stats", "convert.insert",
                            "convert.update"}
            /\ Within(r.doc, total)
  PROVE  BackedRequest(r, total)
  BY DEF BackedRequest

\* A step that sets one request to a backed one, and does not lower the total
\* that is staked, keeps every request backed.
LEMMA OneBacked ==
  ASSUME TypeInv, NEW w \in Workers, NEW r, req' = [req EXCEPT ![w] = r],
         staked' \in Nat, staked <= staked', BackedRequest(r, staked'),
         \A v \in Workers : BackedRequest(req[v], staked)
  PROVE  \A v \in Workers : BackedRequest(req'[v], staked')
<1> SUFFICES ASSUME NEW v \in Workers PROVE BackedRequest(req'[v], staked')
  OBVIOUS
<1>1. req \in [Workers -> Request] /\ staked \in Nat
  BY DEF TypeInv, TypeOK
<1>2. CASE v = w
  BY <1>1, <1>2
<1>3. CASE v # w
  <2> DEFINE q == req[v]
  <2>1. req'[v] = q /\ q \in Request /\ BackedRequest(q, staked)
    BY <1>1, <1>3
  <2>2. q.at # "idle" => q.doc \in Doc
    BY DEF TypeInv, RequestOK
  <2>3. q.at = "place.update" => q.ticket \in Ticket
    BY PlacingRequest
  <2> HIDE DEF q
  <2>4. q.at # "idle" => q.doc.lifetime \in Nat /\ q.doc.active.wagered \in Nat
    BY <2>2 DEF Doc, Bonus
  <2>5. q.at = "place.update" => q.ticket.amount \in Nat
    BY <2>3 DEF Ticket
  <2>6. BackedRequest(q, staked')
    BY <1>1, <2>1, <2>4, <2>5 DEF BackedRequest, Within
  <2> QED
    BY <2>1, <2>6
<1> QED
  BY <1>2, <1>3

\* A flush of a document within a total, over one within it, stays within it.
LEMMA FlushWithin ==
  ASSUME NEW now \in Doc, NEW old \in Doc, NEW new \in Doc, NEW total \in Nat,
         Within(now, total), Within(new, total)
  PROVE  Within(Flushed(now, old, new), total)
<1> DEFINE f == Flushed(now, old, new)
           b == FlushedBonus(now.active, old.active, new.active)
<1>1. f.lifetime \in {now.lifetime, new.lifetime} /\ f.active = b
  BY FlushedType
<1>2. now.active \in Bonus /\ old.active \in Bonus /\ new.active \in Bonus
  BY DEF Doc
<1>3. b.wagered \in {now.active.wagered, new.active.wagered}
  BY <1>2, FlushedBonusType
<1>4. Within(f, total)
  <2> HIDE DEF f, b
  <2> QED
    BY <1>1, <1>3 DEF Within
<1> QED
  BY <1>4

\* The documents the services build are within every total.
LEMMA BuiltWithin ==
  ASSUME NEW total \in Nat, NEW at \in Nat
  PROVE  Within(AutoCreated(at), total) /\ Within(Claimed(NewUser, at), total)
<1> DEFINE a == AutoCreated(at)
           c == Claimed(NewUser, at)
<1>1. NewBonus(at).wagered = 0
  BY DEF NewBonus
<1>2. a.lifetime = 0 /\ a.active = NewBonus(at)
  BY AutoCreatedType
<1>3. c.lifetime = 0 /\ c.active = NewBonus(at)
  BY NewUserType, ClaimedType
<1>4. Within(a, total) /\ Within(c, total)
  <2> HIDE DEF a, c
  <2> QED
    BY <1>1, <1>2, <1>3 DEF Within
<1> QED
  BY <1>4

\* Every step keeps progress backed, and conversions earned.
LEMMA BackedNext == TypeInv /\ TypeInv' /\ BackedInv /\ [Next]_vars => BackedInv'
<1> SUFFICES ASSUME TypeInv, TypeInv', BackedInv, [Next]_vars PROVE BackedInv'
  OBVIOUS
<1> USE DEF ghosts
<1>t. /\ staked \in Nat /\ staked' \in Nat /\ second \in Nat
      /\ req \in [Workers -> Request]
      /\ db # NoDoc => db \in Doc
  BY DEF TypeInv, TypeOK
<1>b. /\ \A v \in Workers : BackedRequest(req[v], staked)
      /\ db # NoDoc => Within(db, staked)
      /\ ConversionsAreEarned
  BY DEF BackedInv, ProgressIsBacked, Within
<1>c. NoDoc \notin Doc
  BY WagerAssumption
<1>d. \A v \in Workers : req[v].at # "idle" => req[v].doc \in Doc
  BY DEF TypeInv, RequestOK
<1>f. ASSUME staked' = staked, conversions' = conversions,
             db' # NoDoc => Within(db', staked),
             \A v \in Workers : BackedRequest(req'[v], staked)
      PROVE  BackedInv'
  BY <1>b, <1>f DEF BackedInv, ProgressIsBacked, ConversionsAreEarned, Within
<1>i. ASSUME NEW w \in Workers, Finish(w), staked' = staked
      PROVE  \A v \in Workers : BackedRequest(req'[v], staked)
  <2>1. BackedRequest(Idle, staked')
    BY <1>t, IdleType, StartBacked
  <2> QED
    BY <1>b, <1>i, <1>t, <2>1, OneBacked DEF Finish
<1>g. ASSUME NEW w \in Workers, NEW step, Goto(w, step), staked' = staked,
             ~At(w, "idle"), step \in {"validate.lock", "convert.insert", "convert.update"},
             step # "validate.lock" => req[w].at \in {"convert.stats", "convert.insert"}
      PROVE  \A v \in Workers : BackedRequest(req'[v], staked)
  <2> DEFINE r == [req[w] EXCEPT !.at = step]
  <2>1. req' = [req EXCEPT ![w] = r]
    BY <1>g DEF Goto
  <2>2. r.at = step /\ r.doc = req[w].doc
    BY <1>t DEF Request
  <2> HIDE DEF r
  <2>3. BackedRequest(r, staked')
    BY <1>b, <1>g, <2>2 DEF BackedRequest, At
  <2> QED
    BY <1>b, <1>g, <1>t, <2>1, <2>3, OneBacked
<1>s. ASSUME NEW w \in Workers, NEW r, req' = [req EXCEPT ![w] = r], staked' = staked,
             Within(r.doc, staked),
             r.at \notin {"idle", "place.update", "convert.stats", "convert.insert",
                          "convert.update"}
      PROVE  \A v \in Workers : BackedRequest(req'[v], staked)
  <2>1. BackedRequest(r, staked')
    BY <1>s, <1>t, StartBacked
  <2> QED
    BY <1>b, <1>s, <1>t, <2>1, OneBacked
<1>1. ASSUME NEW w \in Workers, NEW amount \in Bets, ValidateFind(w, amount)
      PROVE  BackedInv'
  <2>1. CASE db = NoDoc
    <3> DEFINE r == [Idle EXCEPT !.at = "validate.create", !.doc = AutoCreated(second),
                                 !.amount = amount]
    <3>1. req' = [req EXCEPT ![w] = r] /\ staked' = staked /\ db' = db
          /\ conversions' = conversions
      BY <1>1, <2>1 DEF ValidateFind
    <3>2. r.at = "validate.create" /\ r.doc = AutoCreated(second)
      BY DEF Idle
    <3> HIDE DEF r
    <3> QED
      BY <1>f, <1>s, <1>t, <2>1, <3>1, <3>2, BuiltWithin
  <2>2. CASE db # NoDoc
    <3> DEFINE r == [Idle EXCEPT !.at = "validate.lock", !.doc = db, !.amount = amount]
    <3>1. req' = [req EXCEPT ![w] = r] /\ staked' = staked /\ db' = db
          /\ conversions' = conversions
      BY <1>1, <2>2 DEF ValidateFind
    <3>2. r.at = "validate.lock" /\ r.doc = db
      BY DEF Idle
    <3> HIDE DEF r
    <3> QED
      BY <1>b, <1>f, <1>s, <2>2, <3>1, <3>2
  <2> QED
    BY <2>1, <2>2
<1>2. ASSUME NEW w \in Workers,
             ValidateCreate(w) \/ ClaimCreate(w) \/ ProgressCreate(w)
      PROVE  BackedInv'
  <2>1. /\ db' = req[w].doc /\ staked' = staked /\ conversions' = conversions
        /\ ~At(w, "idle") /\ (Finish(w) \/ Goto(w, "validate.lock"))
    BY <1>2 DEF ValidateCreate, ClaimCreate, ProgressCreate, Upsert, At
  <2>2. Within(db', staked)
    BY <1>b, <2>1 DEF BackedRequest, At
  <2> QED
    BY <1>f, <1>g, <1>i, <2>1, <2>2
<1>3. ASSUME NEW w \in Workers, ValidateLock(w) PROVE BackedInv'
  <2>1. db \in Doc /\ db' = [db EXCEPT !.version = @ + 1]
    BY <1>3, <1>t DEF ValidateLock, At, TypeInv, RequestOK, NeedsUser, Creating, Steps
  <2>2. db'.lifetime = db.lifetime /\ db'.active = db.active
    BY <2>1 DEF Doc
  <2>3. Within(db', staked)
    BY <1>b, <1>c, <2>1, <2>2 DEF Within
  <2> QED
    BY <1>3, <1>f, <1>i, <2>3 DEF ValidateLock
<1>4. ASSUME NEW w \in Workers, ValidateLockLost(w) \/ RequestFails(w) PROVE BackedInv'
  BY <1>4, <1>b, <1>f, <1>i DEF ValidateLockLost, RequestFails
<1>5. ASSUME NEW w \in Workers, NEW t \in tickets, NEW payout \in Payouts,
             PlaceFind(w, t, payout)
      PROVE  BackedInv'
  <2> DEFINE r == [Idle EXCEPT !.at = "place.insert", !.doc = db,
                               !.ticket = t, !.payout = payout]
  <2>1. req' = [req EXCEPT ![w] = r] /\ staked' = staked /\ db' = db
        /\ conversions' = conversions
    BY <1>5 DEF PlaceFind
  <2>2. r.at = "place.insert" /\ r.doc = db
    BY DEF Idle
  <2>3. db # NoDoc
    BY DEF TypeInv, TypeOK
  <2> HIDE DEF r
  <2> QED
    BY <1>b, <1>f, <1>s, <2>1, <2>2, <2>3
<1>6. ASSUME NEW w \in Workers, PlaceInsert(w) PROVE BackedInv'
  <2> DEFINE t == req[w].ticket
             d == req[w].doc
             r == [req[w] EXCEPT !.at = "place.update"]
  <2>1. /\ req[w].at = "place.insert" /\ staked' = staked + t.amount
        /\ req' = [req EXCEPT ![w] = r] /\ UNCHANGED <<db, conversions>>
    BY <1>6 DEF PlaceInsert, At, Goto
  <2>2. d \in Doc /\ t \in Ticket
    BY <2>1, PlacingRequest
  <2>3. d.lifetime \in Nat /\ d.active.wagered \in Nat /\ t.amount \in Nat
    BY <2>2 DEF Doc, Bonus, Ticket
  <2>4. r.at = "place.update" /\ r.doc = d /\ r.ticket = t
    BY <1>t DEF Request
  <2>5. Within(d, staked)
    BY <1>b, <2>1 DEF BackedRequest
  <2> HIDE DEF r, t, d
  <2>6. BackedRequest(r, staked') /\ staked <= staked'
    BY <1>t, <2>1, <2>3, <2>4, <2>5 DEF BackedRequest, Within
  <2>7. \A v \in Workers : BackedRequest(req'[v], staked')
    BY <1>b, <1>t, <2>1, <2>6, OneBacked
  <2>8. db' # NoDoc => Within(db', staked')
    <3>1. db # NoDoc => db.lifetime \in Nat /\ db.active.wagered \in Nat
      BY <1>t DEF Doc, Bonus
    <3> QED
      BY <1>b, <1>t, <2>1, <2>6, <3>1 DEF Within
  <2>9. ConversionsAreEarned'
    <3>1. \A c \in conversions : c.wagered \in Nat
      BY DEF TypeInv, TypeOK, Conversion
    <3> QED
      BY <1>b, <1>t, <2>1, <2>6, <3>1 DEF ConversionsAreEarned
  <2> QED
    BY <2>7, <2>8, <2>9 DEF BackedInv, ProgressIsBacked, Within
<1>7. ASSUME NEW w \in Workers, PlaceUpdate(w) PROVE BackedInv'
  <2> DEFINE d == req[w].doc
             t == req[w].ticket
             e == Placed(d, t, req[w].payout)
  <2>1. /\ req[w].at = "place.update" /\ db' = Flushed(db, d, e) /\ Finish(w)
        /\ staked' = staked /\ conversions' = conversions
    BY <1>7 DEF PlaceUpdate, At, Flush
  <2>2. /\ d \in Doc /\ e \in Doc /\ db \in Doc /\ t \in Ticket
        /\ e.lifetime = d.lifetime + t.amount
        /\ e.active.wagered <= d.active.wagered + t.amount
    BY <2>1, PlacingRequest
  <2>3. /\ d.active.wagered \in Nat /\ e.active.wagered \in Nat /\ t.amount \in Nat
    BY <2>2 DEF Doc, Bonus, Ticket
  <2>4. /\ d.lifetime + t.amount <= staked
        /\ d.active.wagered + t.amount <= staked
    BY <1>b, <2>1 DEF BackedRequest
  <2> HIDE DEF d, t, e
  <2>5. Within(e, staked)
    BY <1>t, <2>2, <2>3, <2>4 DEF Within
  <2>6. Within(db', staked)
    BY <1>b, <1>c, <1>t, <2>1, <2>2, <2>5, FlushWithin
  <2> QED
    BY <1>f, <1>i, <2>1, <2>6
<1>8. ASSUME NEW w \in Workers, ClaimFind(w) PROVE BackedInv'
  <2>1. CASE db = NoDoc
    <3> DEFINE r == [Idle EXCEPT !.at = "claim.create", !.doc = Claimed(NewUser, second)]
    <3>1. req' = [req EXCEPT ![w] = r] /\ staked' = staked /\ db' = db
          /\ conversions' = conversions
      BY <1>8, <2>1 DEF ClaimFind
    <3>2. r.at = "claim.create" /\ r.doc = Claimed(NewUser, second)
      BY DEF Idle
    <3> HIDE DEF r
    <3> QED
      BY <1>f, <1>s, <1>t, <2>1, <3>1, <3>2, BuiltWithin
  <2>2. CASE db # NoDoc
    <3> DEFINE r == [Idle EXCEPT !.at = "claim.update", !.doc = db, !.id = second]
    <3>1. req' = [req EXCEPT ![w] = r] /\ staked' = staked /\ db' = db
          /\ conversions' = conversions
      BY <1>8, <2>2 DEF ClaimFind
    <3>2. r.at = "claim.update" /\ r.doc = db
      BY DEF Idle
    <3> HIDE DEF r
    <3> QED
      BY <1>b, <1>f, <1>s, <2>2, <3>1, <3>2
  <2> QED
    BY <2>1, <2>2
<1>9. ASSUME NEW w \in Workers, ClaimUpdate(w) PROVE BackedInv'
  <2> DEFINE d == req[w].doc
             e == Claimed(d, req[w].id)
  <2>1. /\ req[w].at = "claim.update" /\ db' = Flushed(db, d, e) /\ Finish(w)
        /\ staked' = staked /\ conversions' = conversions
    BY <1>9 DEF ClaimUpdate, At, Flush
  <2>2. d \in Doc /\ db \in Doc /\ req[w].id \in Nat
    BY <1>d, <1>t, <2>1 DEF TypeInv, RequestOK, NeedsUser, Creating, Steps, Request
  <2>3. /\ e \in Doc /\ e.lifetime = d.lifetime /\ e.active = NewBonus(req[w].id)
    BY <2>2, ClaimedType
  <2>4. Within(d, staked)
    BY <1>b, <2>1 DEF BackedRequest
  <2>5. Within(e, staked)
    BY <1>t, <2>3, <2>4 DEF Within, NewBonus
  <2> HIDE DEF d, e
  <2>6. Within(db', staked)
    BY <1>b, <1>c, <1>t, <2>1, <2>2, <2>3, <2>5, FlushWithin
  <2> QED
    BY <1>f, <1>i, <2>1, <2>6
<1>10. ASSUME NEW w \in Workers, ProgressFind(w) PROVE BackedInv'
  <2> DEFINE r == [Idle EXCEPT !.at = "progress.create", !.doc = AutoCreated(second)]
  <2>1. req' = [req EXCEPT ![w] = r] /\ staked' = staked /\ db' = db
        /\ conversions' = conversions /\ db = NoDoc
    BY <1>10 DEF ProgressFind
  <2>2. r.at = "progress.create" /\ r.doc = AutoCreated(second)
    BY DEF Idle
  <2> HIDE DEF r
  <2> QED
    BY <1>f, <1>s, <1>t, <2>1, <2>2, BuiltWithin
<1>11. ASSUME NEW w \in Workers, ConvertFind(w) PROVE BackedInv'
  <2> DEFINE r == [Idle EXCEPT !.at = "convert.stats", !.doc = db]
  <2>1. /\ req' = [req EXCEPT ![w] = r] /\ staked' = staked /\ db' = db
        /\ conversions' = conversions /\ db # NoDoc /\ IsComplete(db.active)
    BY <1>11 DEF ConvertFind, Convertible
  <2>2. r.at = "convert.stats" /\ r.doc = db
    BY DEF Idle
  <2> HIDE DEF r
  <2>3. BackedRequest(r, staked')
    BY <1>b, <2>1, <2>2 DEF BackedRequest
  <2>4. \A v \in Workers : BackedRequest(req'[v], staked)
    BY <1>b, <1>t, <2>1, <2>3, OneBacked
  <2> QED
    BY <1>b, <1>f, <2>1, <2>4
<1>12. ASSUME NEW w \in Workers, ConvertStats(w) PROVE BackedInv'
  BY <1>12, <1>b, <1>f, <1>g, <1>i DEF ConvertStats, At
<1>13. ASSUME NEW w \in Workers, ConvertInsert(w) PROVE BackedInv'
  <2> DEFINE c == [n |-> Cardinality(conversions) + 1, bonusId |-> req[w].doc.active.id,
                   wagered |-> req[w].doc.active.wagered]
  <2>1. /\ req[w].at = "convert.insert" /\ conversions' = conversions \cup {c}
        /\ Goto(w, "convert.update") /\ staked' = staked /\ db' = db
    BY <1>13 DEF ConvertInsert, At
  <2>2. \A v \in Workers : BackedRequest(req'[v], staked)
    BY <1>g, <2>1 DEF At
  <2>3. c.wagered = req[w].doc.active.wagered /\ req[w].doc \in Doc
    BY <1>d, <2>1
  <2>4. IsComplete(req[w].doc.active) /\ Within(req[w].doc, staked)
    BY <1>b, <2>1 DEF BackedRequest
  <2> HIDE DEF c
  <2>5. Required <= c.wagered /\ c.wagered <= staked
    <3>1. req[w].doc.active.wagered \in Nat
      BY <2>3 DEF Doc, Bonus
    <3> QED
      BY <2>3, <2>4, <3>1, RequiredPositive DEF IsComplete, Within
  <2>6. ConversionsAreEarned'
    BY <1>b, <2>1, <2>5 DEF ConversionsAreEarned
  <2> QED
    BY <1>b, <2>1, <2>2, <2>6 DEF BackedInv, ProgressIsBacked, Within
<1>14. ASSUME NEW w \in Workers, ConvertUpdate(w) PROVE BackedInv'
  <2> DEFINE d == req[w].doc
             e == Converted(d)
  <2>1. /\ req[w].at = "convert.update" /\ db' = Flushed(db, d, e) /\ Finish(w)
        /\ staked' = staked /\ conversions' = conversions
    BY <1>14 DEF ConvertUpdate, At, Flush
  <2>2. d \in Doc /\ db \in Doc
    BY <1>d, <1>t, <2>1 DEF TypeInv, RequestOK, NeedsUser, Creating, Steps
  <2>3. e \in Doc /\ e.lifetime = d.lifetime /\ e.active = NoBonus
    BY <2>2, ConvertedType
  <2>4. Within(d, staked)
    BY <1>b, <2>1 DEF BackedRequest
  <2>5. Within(e, staked)
    BY <1>t, <2>3, <2>4 DEF Within, NoBonus
  <2> HIDE DEF d, e
  <2>6. Within(db', staked)
    BY <1>b, <1>c, <1>t, <2>1, <2>2, <2>3, <2>5, FlushWithin
  <2> QED
    BY <1>f, <1>i, <2>1, <2>6
<1>15. CASE Tick \/ UNCHANGED vars
  BY <1>15, <1>b, <1>f DEF Tick, vars
<1> QED
  BY <1>1, <1>2, <1>3, <1>4, <1>5, <1>6, <1>7, <1>8, <1>9, <1>10, <1>11, <1>12,
     <1>13, <1>14, <1>15 DEF Next, Serve, ReadOnly

\* The initial state has nothing to back.
LEMMA BackedInit == Init => BackedInv
<1> SUFFICES ASSUME Init PROVE BackedInv
  OBVIOUS
<1>1. \A w \in Workers : BackedRequest(req[w], staked)
  BY IdleType DEF Init, BackedRequest
<1> QED
  BY <1>1 DEF Init, BackedInv, ProgressIsBacked, ConversionsAreEarned

\* Invariance of all of it.
LEMMA BackedInvariant == Spec => []BackedInv
  BY BackedInit, TypeInvariant, BackedNext, PTL DEF Spec

\* However requests overlap and fail, no user has lifetime total or progress that
\* the history does not show as staked.
THEOREM ProgressBacked == Spec => []ProgressIsBacked
<1>1. BackedInv => ProgressIsBacked
  BY DEF BackedInv
<1> QED
  BY <1>1, BackedInvariant, PTL

\* However requests overlap and fail, a conversion on record is of a complete bonus.
THEOREM ConversionsEarned == Spec => []ConversionsAreEarned
<1>1. BackedInv => ConversionsAreEarned
  BY DEF BackedInv
<1> QED
  BY <1>1, BackedInvariant, PTL

------------------------------------------------------------------------------
(***************************************************************************)
(* The deduction.  It is computed once, by the validation, from what the   *)
(* validation read, and reaches the record unchanged.                      *)
(***************************************************************************)
Split(x) == /\ x.bonusUsed + x.realUsed = x.amount
            /\ x.bonusUsed <= x.bonusBefore
            /\ x.realUsed <= x.realBefore

CoverInv ==
  /\ \A w \in Workers : At(w, "validate.lock") => CanWager(req[w].doc, req[w].amount)
  /\ \A t \in issued : Split(t)
  /\ \A h \in history : Split(h)

\* What a validation deducts is split and covered.
LEMMA DeductionCovered ==
  ASSUME NEW d \in Doc, NEW amount \in Nat, CanWager(d, amount), NEW n, NEW g
  PROVE  Split([n |-> n, gen |-> g, version |-> d.version, amount |-> amount,
                bonusUsed |-> BonusUsed(d, amount), realUsed |-> RealUsed(d, amount),
                realBefore |-> d.real, bonusBefore |-> d.bonus])
  BY DeductionSplits DEF Split

\* Every step keeps the deductions covered.
LEMMA CoverNext == TypeInv /\ CoverInv /\ [Next]_vars => CoverInv'
<1> SUFFICES ASSUME TypeInv, CoverInv, [Next]_vars PROVE CoverInv'
  OBVIOUS
<1> USE DEF ghosts
<1>t. req \in [Workers -> Request]
  BY DEF TypeInv, TypeOK
<1>1. ASSUME NEW w \in Workers, UNCHANGED <<issued, history>>,
             \A v \in Workers : v # w => req'[v] = req[v],
             At(w, "validate.lock")' => CanWager(req'[w].doc, req'[w].amount)
      PROVE  CoverInv'
  BY <1>1 DEF CoverInv, At
<1>2. ASSUME NEW w \in Workers, NEW amount \in Bets, ValidateFind(w, amount)
      PROVE  CoverInv'
  <2>1. CASE db = NoDoc
    BY <1>1, <1>2, <1>t, <2>1 DEF ValidateFind, At, Idle
  <2>2. CASE db # NoDoc
    BY <1>1, <1>2, <1>t, <2>2 DEF ValidateFind, At, Idle
  <2> QED
    BY <2>1, <2>2
<1>3. ASSUME NEW w \in Workers, ValidateCreate(w) PROVE CoverInv'
  <2>1. CASE CanWager(req[w].doc, req[w].amount)
    <3>1. /\ req'[w].doc = req[w].doc /\ req'[w].amount = req[w].amount
          /\ \A v \in Workers : v # w => req'[v] = req[v]
      BY <1>3, <1>t, <2>1 DEF ValidateCreate, Goto, Request
    <3> QED
      BY <1>1, <1>3, <2>1, <3>1 DEF ValidateCreate, Upsert
  <2>2. CASE ~CanWager(req[w].doc, req[w].amount)
    BY <1>1, <1>3, <1>t, <2>2, IdleType DEF ValidateCreate, Finish, At, Upsert
  <2> QED
    BY <2>1, <2>2
<1>4. ASSUME NEW w \in Workers, ValidateLock(w) PROVE CoverInv'
  <2> DEFINE t == [n |-> Cardinality(issued) + 1, gen |-> gen,
                   version |-> req[w].doc.version,
                   amount |-> req[w].amount,
                   bonusUsed |-> BonusUsed(req[w].doc, req[w].amount),
                   realUsed |-> RealUsed(req[w].doc, req[w].amount),
                   realBefore |-> req[w].doc.real, bonusBefore |-> req[w].doc.bonus]
  <2>1. req[w].doc \in Doc /\ req[w].amount \in Nat
    <3>1. req[w] \in Request /\ RequestOK(req[w], db, issued) /\ At(w, "validate.lock")
      BY <1>4 DEF ValidateLock, TypeInv, TypeOK
    <3> QED
      BY <3>1 DEF RequestOK, NeedsUser, Creating, Steps, Request, At
  <2>2. CanWager(req[w].doc, req[w].amount)
    BY <1>4 DEF ValidateLock, CoverInv
  <2>3. Split(t)
    BY <2>1, <2>2, DeductionCovered
  <2>4. issued' = issued \cup {t} /\ history' = history
    BY <1>4 DEF ValidateLock
  <2>5. \A v \in Workers : At(v, "validate.lock")' => v # w /\ req'[v] = req[v]
    BY <1>4, <1>t, IdleType DEF ValidateLock, Finish, At
  <2> HIDE DEF t
  <2> QED
    BY <2>3, <2>4, <2>5 DEF CoverInv, At
<1>5. ASSUME NEW w \in Workers, PlaceInsert(w) PROVE CoverInv'
  <2> DEFINE t == req[w].ticket
             e == Placed(req[w].doc, t, req[w].payout)
             r == [n |-> t.n, amount |-> t.amount, payout |-> req[w].payout,
                   bonusId |-> req[w].doc.active.id, bonusUsed |-> t.bonusUsed,
                   realUsed |-> t.realUsed, realBefore |-> t.realBefore,
                   realAfter |-> e.real, bonusBefore |-> t.bonusBefore,
                   bonusAfter |-> e.bonus]
  <2>1. t \in issued
    BY <1>5, PlacingRequest DEF PlaceInsert, At
  <2>2. Split(r)
    BY <2>1 DEF Split, CoverInv
  <2>3. history' = history \cup {r} /\ issued' = issued
    BY <1>5 DEF PlaceInsert
  <2>4. \A v \in Workers : At(v, "validate.lock")' => req'[v] = req[v]
    BY <1>5, <1>t DEF PlaceInsert, Goto, At, Request
  <2> HIDE DEF t, e, r
  <2> QED
    BY <2>2, <2>3, <2>4 DEF CoverInv, At
<1>6. ASSUME NEW w \in Workers,
             \/ ValidateLockLost(w) \/ PlaceUpdate(w) \/ ClaimCreate(w) \/ ClaimUpdate(w)
             \/ ProgressCreate(w) \/ ConvertUpdate(w) \/ RequestFails(w)
      PROVE  CoverInv'
  <2>1. Finish(w) /\ UNCHANGED <<issued, history>>
    BY <1>6 DEF ValidateLockLost, PlaceUpdate, ClaimCreate, ClaimUpdate, ProgressCreate,
       ConvertUpdate, RequestFails, Upsert
  <2> QED
    BY <1>1, <1>t, <2>1, IdleType DEF Finish, At
<1>7. ASSUME NEW w \in Workers,
             \/ \E t \in tickets, payout \in Payouts : PlaceFind(w, t, payout)
             \/ ClaimFind(w) \/ ProgressFind(w) \/ ConvertFind(w)
      PROVE  CoverInv'
  BY <1>1, <1>7, <1>t DEF PlaceFind, ClaimFind, ProgressFind, ConvertFind, At, Idle
<1>8. ASSUME NEW w \in Workers, ConvertStats(w) \/ ConvertInsert(w) PROVE CoverInv'
  <2>1. /\ UNCHANGED <<issued, history>>
        /\ \A v \in Workers : v # w => req'[v] = req[v]
        /\ ~At(w, "validate.lock")'
    <3>1. UNCHANGED <<issued, history>>
      BY <1>8 DEF ConvertStats, ConvertInsert
    <3>2. req[w] \in Request
      BY <1>t
    <3>3. \/ req' = [req EXCEPT ![w] = Idle]
          \/ \E step \in {"convert.insert", "convert.update"} :
               req' = [req EXCEPT ![w] = [req[w] EXCEPT !.at = step]]
      BY <1>8, <1>t DEF ConvertStats, ConvertInsert, Goto, Finish
    <3>4. CASE req' = [req EXCEPT ![w] = Idle]
      BY <1>t, <3>1, <3>4, IdleType DEF At
    <3>5. CASE \E step \in {"convert.insert", "convert.update"} :
                 req' = [req EXCEPT ![w] = [req[w] EXCEPT !.at = step]]
      <4>1. PICK step \in {"convert.insert", "convert.update"} :
                   req' = [req EXCEPT ![w] = [req[w] EXCEPT !.at = step]]
        BY <3>5
      <4>2. req'[w].at = step
        BY <1>t, <3>2, <4>1 DEF Request
      <4> QED
        BY <1>t, <3>1, <4>1, <4>2 DEF At
    <3> QED
      BY <3>3, <3>4, <3>5
  <2> QED
    BY <1>1, <2>1
<1>9. CASE Tick \/ UNCHANGED vars
  BY <1>9 DEF Tick, vars, CoverInv, At
<1> QED
  BY <1>2, <1>3, <1>4, <1>5, <1>6, <1>7, <1>8, <1>9 DEF Next, Serve, ReadOnly

\* Every record of the history splits its stake over the two balances and takes
\* from neither more than its validation had read there, although others may have
\* spent the balances since.
THEOREM HistoryCovered == Spec => []HistoryIsCovered
<1>1. Init => CoverInv
  BY IdleType DEF Init, CoverInv, At
<1>2. CoverInv => HistoryIsCovered
  BY DEF CoverInv, Split, HistoryIsCovered
<1> QED
  BY <1>1, <1>2, TypeInvariant, CoverNext, PTL DEF Spec

------------------------------------------------------------------------------
(***************************************************************************)
(* The first bonus.  While the user was created once, every document that  *)
(* was read since holds one and the same bonus: nobody can claim another,  *)
(* because nobody can convert it, because a complete one has a record.     *)
(* Its status only moves to "completed", whoever flushes it.               *)
(***************************************************************************)
FirstBonus(b, now, h) ==
  /\ b.kind = "whole" /\ b.id = now.id
  /\ b.wagered > 0 => \E x \in h : x.bonusId = now.id
  /\ IsComplete(b) => b.status = "completed"
  /\ b.status = "completed" => now.status = "completed"

FirstRequest(r, now, h) ==
  /\ r.at \notin {"claim.update", "convert.insert", "convert.update"}
  /\ r.at \in NeedsUser => FirstBonus(r.doc.active, now, h)
  /\ r.at = "place.update" => \E x \in h : x.bonusId = now.id
  /\ r.at = "convert.stats" => IsComplete(r.doc.active)

FirstBonusInv ==
  /\ gen = 0 => db = NoDoc
  /\ \A w \in Workers : req[w].at \in Creating =>
       \E s \in Nat : req[w].doc.active = NewBonus(s)
  /\ gen <= 1 => conversions = {}
  /\ gen <= 1 /\ db # NoDoc =>
       /\ FirstBonus(db.active, db.active, history)
       /\ \A w \in Workers : FirstRequest(req[w], db.active, history)

\* A bonus that was just built has no progress to account for.
LEMMA NewIsFirst ==
  ASSUME NEW s \in Nat, NEW h
  PROVE  FirstBonus(NewBonus(s), NewBonus(s), h)
  BY RequiredPositive DEF FirstBonus, NewBonus, IsComplete

\* A flush of progress leaves the bonus the same one, completed if it is complete,
\* and completed if it was.
LEMMA FlushIsFirst ==
  ASSUME NEW now \in Bonus, NEW old \in Bonus, NEW amount \in Nat, NEW h,
         FirstBonus(now, now, h), FirstBonus(old, now, h), \E x \in h : x.bonusId = now.id,
         NEW f, f = FlushedBonus(now, old, AddWageringProgress(old, amount))
  PROVE  /\ FirstBonus(f, f, h) /\ f.id = now.id
         /\ \A b : FirstBonus(b, now, h) => FirstBonus(b, f, h)
<1> DEFINE new == AddWageringProgress(old, amount)
<1>1. /\ new \in Bonus /\ new.kind = "whole" /\ new.id = old.id
      /\ new.wagered = old.wagered + amount
  BY ProgressType DEF FirstBonus
<1>2. new.status = IF old.wagered + amount >= Required THEN "completed" ELSE old.status
  BY DEF AddWageringProgress, Bonus
<1>3. Required \in Nat /\ now.wagered \in Nat /\ old.wagered \in Nat
  BY RequiredPositive DEF Bonus
<1> HIDE DEF new
<1>4. f = FlushedBonus(now, old, new)
  BY DEF new
<1>5. CASE new = old
  <2>1. f = now
    BY <1>4, <1>5, FlushedBonusType
  <2> QED
    BY <2>1
<1>6. CASE new # old
  <2>1. f = [kind |-> now.kind, id |-> now.id,
             wagered |-> Changed(now.wagered, old.wagered, new.wagered),
             status |-> Changed(now.status, old.status, new.status)]
    BY <1>1, <1>4, <1>6 DEF FlushedBonus, FirstBonus
  <2>2. /\ f.kind = "whole" /\ f.id = now.id
        /\ f.wagered = IF new.wagered = old.wagered THEN now.wagered ELSE new.wagered
        /\ f.status = IF new.status = old.status THEN now.status ELSE new.status
    BY <2>1 DEF Changed, FirstBonus
  <2>3. now.status = "completed" => f.status = "completed"
    BY <1>2, <2>2
  <2>4. f.wagered >= Required => f.status = "completed"
    <3>1. CASE new.wagered = old.wagered
      BY <2>2, <2>3, <3>1 DEF FirstBonus, IsComplete
    <3>2. CASE new.wagered # old.wagered
      BY <1>1, <1>2, <1>3, <2>2, <2>3, <3>2 DEF FirstBonus
    <3> QED
      BY <3>1, <3>2
  <2> QED
    BY <2>2, <2>3, <2>4 DEF FirstBonus, IsComplete
<1> QED
  BY <1>5, <1>6

\* A record that is added takes nothing away.
LEMMA MoreHistory ==
  ASSUME NEW b, NEW now, NEW h, NEW k, h \subseteq k, FirstBonus(b, now, h)
  PROVE  FirstBonus(b, now, k)
  BY DEF FirstBonus

\* Every step keeps the first bonus.
LEMMA FirstBonusNext == TypeInv /\ FirstBonusInv /\ [Next]_vars => FirstBonusInv'
<1> SUFFICES ASSUME TypeInv, FirstBonusInv, [Next]_vars PROVE FirstBonusInv'
  OBVIOUS
<1> USE DEF ghosts
<1>t. /\ req \in [Workers -> Request] /\ gen \in Nat /\ second \in Nat
      /\ db # NoDoc => db \in Doc /\ db.active \in Bonus
      /\ \A w \in Workers : req[w].at # "idle" => req[w].doc \in Doc
      /\ \A w \in Workers : req[w].at \in NeedsUser => db # NoDoc
  BY DEF TypeInv, TypeOK, RequestOK, Doc
<1>n. NoDoc \notin Doc
  BY WagerAssumption
<1>a. ASSUME NEW w \in Workers, NEW r, req' = [req EXCEPT ![w] = r],
             UNCHANGED <<db, history, conversions, gen>>,
             r.at \in Creating => \E s \in Nat : r.doc.active = NewBonus(s),
             gen <= 1 /\ db # NoDoc => FirstRequest(r, db.active, history)
      PROVE  FirstBonusInv'
  <2>1. \A v \in Workers : req'[v] = IF v = w THEN r ELSE req[v]
    BY <1>a, <1>t
  <2> QED
    BY <1>a, <2>1 DEF FirstBonusInv
<1>i. ASSUME NEW w \in Workers, Finish(w), UNCHANGED <<db, history, conversions, gen>>
      PROVE  FirstBonusInv'
  <2>1. FirstRequest(Idle, db.active, history) /\ Idle.at \notin Creating
    BY IdleType DEF FirstRequest, NeedsUser, Creating
  <2> QED
    BY <1>a, <1>i, <2>1 DEF Finish
<1>g. ASSUME NEW w \in Workers, NEW step \in Steps, Goto(w, step), ~At(w, "idle")
      PROVE  \E r : /\ req' = [req EXCEPT ![w] = r]
                    /\ r.at = step /\ r.doc = req[w].doc /\ r.ticket = req[w].ticket
  <2>1. req[w] \in Request
    BY <1>t
  <2> WITNESS [req[w] EXCEPT !.at = step]
  <2> QED
    BY <1>g, <2>1 DEF Goto, Request
\* An upsert creates the user, or creates it again.
<1>u. ASSUME NEW w \in Workers, NEW r, req' = [req EXCEPT ![w] = r],
             req[w].at \in Creating, Upsert(req[w].doc),
             UNCHANGED <<history, conversions>>,
             r.at = "idle" \/ (r.at = "validate.lock" /\ r.doc = req[w].doc)
      PROVE  FirstBonusInv'
  <2>1. \A v \in Workers : req'[v] = IF v = w THEN r ELSE req[v]
    BY <1>t, <1>u
  <2>2. db' = req[w].doc /\ db' # NoDoc /\ gen' = gen + 1
    BY <1>n, <1>t, <1>u DEF Upsert, Creating
  <2>3. PICK s \in Nat : db'.active = NewBonus(s)
    BY <1>u, <2>2 DEF FirstBonusInv
  <2>4. FirstBonus(db'.active, db'.active, history)
    BY <2>3, NewIsFirst
  <2>5. gen' <= 1 => db = NoDoc /\ conversions = {}
    BY <1>t, <2>2 DEF FirstBonusInv
  <2>6. FirstRequest(r, db'.active, history)
    BY <1>u, <2>2, <2>4 DEF FirstRequest, NeedsUser
  <2>7. gen' <= 1 => \A v \in Workers : v # w => FirstRequest(req[v], db'.active, history)
    <3> SUFFICES ASSUME gen' <= 1, NEW v \in Workers, v # w
                 PROVE  FirstRequest(req[v], db'.active, history)
      OBVIOUS
    <3>1. req[v].at \notin NeedsUser /\ req[v].at \in Steps
      BY <1>t, <2>5 DEF Request
    <3> QED
      BY <3>1 DEF FirstRequest, NeedsUser, Creating, Steps
  <2>8. r.at \notin Creating
    BY <1>u DEF Creating
  <2>9. gen' # 0
    BY <1>t, <2>2
  <2> QED
    BY <1>u, <2>1, <2>2, <2>4, <2>5, <2>6, <2>7, <2>8, <2>9 DEF FirstBonusInv
<1>1. ASSUME NEW w \in Workers, NEW amount \in Bets, ValidateFind(w, amount)
      PROVE  FirstBonusInv'
  <2>1. CASE db = NoDoc
    <3> DEFINE r == [Idle EXCEPT !.at = "validate.create", !.doc = AutoCreated(second),
                                 !.amount = amount]
    <3>1. r.at = "validate.create" /\ r.doc.active = NewBonus(second)
      BY <1>t, AutoCreatedType DEF Idle
    <3>2. req' = [req EXCEPT ![w] = r] /\ UNCHANGED <<db, history, conversions, gen>>
      BY <1>1, <2>1 DEF ValidateFind
    <3> HIDE DEF r
    <3> QED
      BY <1>a, <1>t, <2>1, <3>1, <3>2
  <2>2. CASE db # NoDoc
    <3> DEFINE r == [Idle EXCEPT !.at = "validate.lock", !.doc = db, !.amount = amount]
    <3>1. r.at = "validate.lock" /\ r.doc = db
      BY DEF Idle
    <3>2. req' = [req EXCEPT ![w] = r] /\ UNCHANGED <<db, history, conversions, gen>>
      BY <1>1, <2>2 DEF ValidateFind
    <3> HIDE DEF r
    <3>3. gen <= 1 => FirstRequest(r, db.active, history)
      BY <2>2, <3>1 DEF FirstBonusInv, FirstRequest
    <3> QED
      BY <1>a, <3>1, <3>2, <3>3 DEF Creating
  <2> QED
    BY <2>1, <2>2
<1>2. ASSUME NEW w \in Workers, ValidateCreate(w) PROVE FirstBonusInv'
  <2>1. req[w].at \in Creating /\ Upsert(req[w].doc) /\ UNCHANGED <<history, conversions>>
    BY <1>2 DEF ValidateCreate, At, Creating
  <2>2. CASE Finish(w)
    BY <1>u, <2>1, <2>2, IdleType DEF Finish
  <2>3. CASE Goto(w, "validate.lock")
    <3>1. PICK r : /\ req' = [req EXCEPT ![w] = r]
                   /\ r.at = "validate.lock" /\ r.doc = req[w].doc
      BY <1>2, <1>g, <2>3 DEF ValidateCreate, At, Steps
    <3> QED
      BY <1>u, <2>1, <3>1
  <2> QED
    BY <1>2, <2>2, <2>3 DEF ValidateCreate
<1>3. ASSUME NEW w \in Workers, ClaimCreate(w) \/ ProgressCreate(w) PROVE FirstBonusInv'
  BY <1>3, <1>u, IdleType DEF ClaimCreate, ProgressCreate, At, Creating, Finish
<1>4. ASSUME NEW w \in Workers, ValidateLock(w) PROVE FirstBonusInv'
  <2>1. db \in Doc /\ db' = [db EXCEPT !.version = @ + 1]
    BY <1>4, <1>t DEF ValidateLock, At, NeedsUser, Steps, Creating
  <2>2. db'.active = db.active /\ db # NoDoc
    BY <1>n, <2>1 DEF Doc
  <2>3. /\ \A v \in Workers : req'[v] = IF v = w THEN Idle ELSE req[v]
        /\ UNCHANGED <<history, conversions, gen>>
    BY <1>4, <1>t DEF ValidateLock, Finish
  <2>4. FirstRequest(Idle, db.active, history) /\ Idle.at \notin Creating
    BY IdleType DEF FirstRequest, NeedsUser, Creating
  <2> QED
    BY <2>2, <2>3, <2>4 DEF FirstBonusInv
<1>5. ASSUME NEW w \in Workers, NEW t \in tickets, NEW payout \in Payouts,
             PlaceFind(w, t, payout)
      PROVE  FirstBonusInv'
  <2> DEFINE r == [Idle EXCEPT !.at = "place.insert", !.doc = db,
                               !.ticket = t, !.payout = payout]
  <2>1. r.at = "place.insert" /\ r.doc = db
    BY DEF Idle
  <2>2. req' = [req EXCEPT ![w] = r] /\ UNCHANGED <<db, history, conversions, gen>>
    BY <1>5 DEF PlaceFind
  <2> HIDE DEF r
  <2>3. gen <= 1 /\ db # NoDoc => FirstRequest(r, db.active, history)
    BY <2>1 DEF FirstBonusInv, FirstRequest
  <2> QED
    BY <1>a, <2>1, <2>2, <2>3 DEF Creating
<1>6. ASSUME NEW w \in Workers, PlaceInsert(w) PROVE FirstBonusInv'
  <2>1. PICK r : /\ req' = [req EXCEPT ![w] = r]
                 /\ r.at = "place.update" /\ r.doc = req[w].doc
    BY <1>6, <1>g DEF PlaceInsert, At, Steps
  <2>2. PICK x : history' = history \cup {x} /\ x.bonusId = req[w].doc.active.id
    <3> DEFINE t == req[w].ticket
               e == Placed(req[w].doc, t, req[w].payout)
               y == [n |-> t.n, amount |-> t.amount, payout |-> req[w].payout,
                     bonusId |-> req[w].doc.active.id, bonusUsed |-> t.bonusUsed,
                     realUsed |-> t.realUsed, realBefore |-> t.realBefore,
                     realAfter |-> e.real, bonusBefore |-> t.bonusBefore,
                     bonusAfter |-> e.bonus]
    <3>1. history' = history \cup {y}
      BY <1>6 DEF PlaceInsert
    <3>2. y.bonusId = req[w].doc.active.id
      OBVIOUS
    <3> HIDE DEF y
    <3> QED
      BY <3>1, <3>2
  <2>3. UNCHANGED <<db, conversions, gen>> /\ At(w, "place.insert")
    BY <1>6 DEF PlaceInsert
  <2>4. \A v \in Workers : req'[v] = IF v = w THEN r ELSE req[v]
    BY <1>t, <2>1
  <2>5. ASSUME gen <= 1, db # NoDoc
        PROVE  /\ FirstBonus(db.active, db.active, history')
               /\ \A v \in Workers : FirstRequest(req'[v], db.active, history')
    <3>1. /\ FirstBonus(db.active, db.active, history)
          /\ \A v \in Workers : FirstRequest(req[v], db.active, history)
      BY <2>5 DEF FirstBonusInv
    <3>2. \A b : FirstBonus(b, db.active, history) => FirstBonus(b, db.active, history')
      BY <2>2, MoreHistory
    <3>3. \A v \in Workers : FirstRequest(req[v], db.active, history')
      BY <2>2, <3>1, <3>2 DEF FirstRequest
    <3>4. FirstBonus(req[w].doc.active, db.active, history')
      BY <2>3, <3>3 DEF FirstRequest, At, NeedsUser, Steps, Creating
    <3>5. FirstRequest(r, db.active, history')
      BY <2>1, <2>2, <3>4 DEF FirstRequest, FirstBonus
    <3> QED
      BY <2>4, <3>1, <3>2, <3>3, <3>5
  <2> QED
    BY <2>1, <2>3, <2>4, <2>5 DEF FirstBonusInv, Creating
<1>7. ASSUME NEW w \in Workers, PlaceUpdate(w) PROVE FirstBonusInv'
  <2> DEFINE t == req[w].ticket
             d == req[w].doc
             e == Placed(d, t, req[w].payout)
  <2>1. /\ d \in Doc /\ db \in Doc /\ t \in Ticket /\ e \in Doc
        /\ d.active.kind # "none" => e.active = AddWageringProgress(d.active, t.amount)
    BY <1>7, PlacingRequest DEF PlaceUpdate, At
  <2>2. /\ db' = Flushed(db, d, e) /\ UNCHANGED <<history, conversions, gen>>
        /\ \A v \in Workers : req'[v] = IF v = w THEN Idle ELSE req[v]
    BY <1>7, <1>t DEF PlaceUpdate, Flush, Finish
  <2>3. At(w, "place.update")
    BY <1>7 DEF PlaceUpdate
  <2>4. t.amount \in Nat /\ d.active \in Bonus /\ db.active \in Bonus
    BY <2>1 DEF Ticket, Doc
  <2>5. /\ db' \in Doc /\ db' # NoDoc
        /\ db'.active = FlushedBonus(db.active, d.active, e.active)
    <3> HIDE DEF d, e
    <3> QED
      BY <1>n, <2>1, <2>2, FlushedType
  <2> HIDE DEF t, d, e
  <2>6. ASSUME gen <= 1
        PROVE  /\ FirstBonus(db'.active, db'.active, history)
               /\ \A v \in Workers : FirstRequest(req'[v], db'.active, history)
    <3>1. /\ FirstBonus(db.active, db.active, history)
          /\ \A v \in Workers : FirstRequest(req[v], db.active, history)
      BY <1>n, <2>1, <2>6 DEF FirstBonusInv
    <3>2. /\ FirstBonus(d.active, db.active, history)
          /\ \E x \in history : x.bonusId = db.active.id
      BY <2>3, <3>1 DEF FirstRequest, At, NeedsUser, Steps, Creating, d
    <3>3. db'.active = FlushedBonus(db.active, d.active,
                                    AddWageringProgress(d.active, t.amount))
      BY <2>1, <2>5, <3>2 DEF FirstBonus
    <3>4. /\ FirstBonus(db'.active, db'.active, history) /\ db'.active.id = db.active.id
          /\ \A b : FirstBonus(b, db.active, history) => FirstBonus(b, db'.active, history)
      BY <2>4, <3>1, <3>2, <3>3, FlushIsFirst
    <3>5. \A v \in Workers : FirstRequest(req[v], db'.active, history)
      BY <3>1, <3>4 DEF FirstRequest
    <3>6. FirstRequest(Idle, db'.active, history)
      BY IdleType DEF FirstRequest, NeedsUser
    <3> QED
      BY <2>2, <3>4, <3>5, <3>6
  <2>7. Idle.at \notin Creating /\ gen # 0
    BY <1>n, <2>1, IdleType DEF Creating, FirstBonusInv
  <2> QED
    BY <2>2, <2>5, <2>6, <2>7 DEF FirstBonusInv
<1>8. ASSUME NEW w \in Workers, ClaimFind(w) PROVE FirstBonusInv'
  <2>1. CASE db = NoDoc
    <3> DEFINE r == [Idle EXCEPT !.at = "claim.create", !.doc = Claimed(NewUser, second)]
    <3>1. r.at = "claim.create" /\ r.doc.active = NewBonus(second)
      BY <1>t, NewUserType, ClaimedType DEF Idle
    <3>2. req' = [req EXCEPT ![w] = r] /\ UNCHANGED <<db, history, conversions, gen>>
      BY <1>8, <2>1 DEF ClaimFind
    <3> HIDE DEF r
    <3> QED
      BY <1>a, <1>t, <2>1, <3>1, <3>2
  <2>2. CASE db # NoDoc
    <3> DEFINE r == [Idle EXCEPT !.at = "claim.update", !.doc = db, !.id = second]
    <3>1. r.at = "claim.update"
      BY DEF Idle
    <3>2. /\ req' = [req EXCEPT ![w] = r] /\ UNCHANGED <<db, history, conversions, gen>>
          /\ db.active.kind = "none"
      BY <1>8, <2>2 DEF ClaimFind
    <3> HIDE DEF r
    <3>3. ~(gen <= 1)
      BY <2>2, <3>2 DEF FirstBonusInv, FirstBonus
    <3> QED
      BY <1>a, <3>1, <3>2, <3>3 DEF Creating
  <2> QED
    BY <2>1, <2>2
<1>9. ASSUME NEW w \in Workers, ProgressFind(w) PROVE FirstBonusInv'
  <2> DEFINE r == [Idle EXCEPT !.at = "progress.create", !.doc = AutoCreated(second)]
  <2>1. r.at = "progress.create" /\ r.doc.active = NewBonus(second)
    BY <1>t, AutoCreatedType DEF Idle
  <2>2. /\ req' = [req EXCEPT ![w] = r] /\ UNCHANGED <<db, history, conversions, gen>>
        /\ db = NoDoc
    BY <1>9 DEF ProgressFind
  <2> HIDE DEF r
  <2> QED
    BY <1>a, <1>t, <2>1, <2>2
<1>10. ASSUME NEW w \in Workers, ConvertFind(w) PROVE FirstBonusInv'
  <2> DEFINE r == [Idle EXCEPT !.at = "convert.stats", !.doc = db]
  <2>1. r.at = "convert.stats" /\ r.doc = db
    BY DEF Idle
  <2>2. /\ req' = [req EXCEPT ![w] = r] /\ UNCHANGED <<db, history, conversions, gen>>
        /\ IsComplete(db.active)
    BY <1>10 DEF ConvertFind, Convertible
  <2> HIDE DEF r
  <2>3. gen <= 1 /\ db # NoDoc => FirstRequest(r, db.active, history)
    BY <2>1, <2>2 DEF FirstBonusInv, FirstRequest
  <2> QED
    BY <1>a, <2>1, <2>2, <2>3 DEF Creating
\* A complete first bonus has a record, so its conversion ends here.
<1>11. ASSUME NEW w \in Workers, ConvertStats(w) PROVE FirstBonusInv'
  <2>1. CASE WagersOf(req[w].doc.active.id) = {}
    <3>1. db # NoDoc /\ req[w].doc.active \in Bonus /\ At(w, "convert.stats")
      BY <1>11, <1>t DEF ConvertStats, At, NeedsUser, Steps, Creating, Doc
    <3>2. ~(gen <= 1)
      <4> SUFFICES ASSUME gen <= 1 PROVE FALSE
        OBVIOUS
      <4>1. FirstRequest(req[w], db.active, history)
        BY <3>1 DEF FirstBonusInv
      <4>2. IsComplete(req[w].doc.active) /\ FirstBonus(req[w].doc.active, db.active, history)
        BY <3>1, <4>1 DEF FirstRequest, At, NeedsUser, Steps, Creating
      <4>3. req[w].doc.active.wagered > 0
        BY <3>1, <4>2, RequiredPositive DEF IsComplete, Bonus
      <4> QED
        BY <2>1, <4>2, <4>3 DEF FirstBonus, WagersOf
    <3>3. PICK r : req' = [req EXCEPT ![w] = r] /\ r.at = "convert.insert"
      BY <1>11, <1>g, <2>1 DEF ConvertStats, At, Steps
    <3> QED
      BY <1>11, <1>a, <3>2, <3>3 DEF ConvertStats, Creating
  <2>2. CASE WagersOf(req[w].doc.active.id) # {}
    BY <1>11, <1>i, <2>2 DEF ConvertStats
  <2> QED
    BY <2>1, <2>2
<1>12. ASSUME NEW w \in Workers, ConvertInsert(w) \/ ClaimUpdate(w) \/ ConvertUpdate(w)
       PROVE  FirstBonusInv'
  <2>1. db # NoDoc /\ ~(gen <= 1) /\ gen' = gen
    <3>1. req[w].at \in {"convert.insert", "claim.update", "convert.update"} /\ gen' = gen
      BY <1>12 DEF ConvertInsert, ClaimUpdate, ConvertUpdate, At
    <3>2. db # NoDoc
      BY <1>t, <3>1 DEF NeedsUser, Steps, Creating
    <3> QED
      BY <3>1, <3>2 DEF FirstBonusInv, FirstRequest
  <2>2. \A v \in Workers : req'[v].at \in Creating => req'[v] = req[v]
    <3>1. CASE ConvertInsert(w)
      <4>1. PICK r : req' = [req EXCEPT ![w] = r] /\ r.at = "convert.update"
        BY <1>g, <3>1 DEF ConvertInsert, At, Steps
      <4> QED
        BY <1>t, <4>1 DEF Creating
    <3>2. CASE ClaimUpdate(w) \/ ConvertUpdate(w)
      BY <1>t, <3>2, IdleType DEF ClaimUpdate, ConvertUpdate, Finish, Creating
    <3> QED
      BY <1>12, <3>1, <3>2
  <2> QED
    BY <1>t, <2>1, <2>2 DEF FirstBonusInv
<1>13. ASSUME NEW w \in Workers, ValidateLockLost(w) \/ RequestFails(w)
       PROVE  FirstBonusInv'
  BY <1>13, <1>i DEF ValidateLockLost, RequestFails
<1>14. CASE Tick \/ UNCHANGED vars
  BY <1>14 DEF Tick, vars, FirstBonusInv
<1> QED
  BY <1>1, <1>2, <1>3, <1>4, <1>5, <1>6, <1>7, <1>8, <1>9, <1>10, <1>11, <1>12, <1>13,
     <1>14 DEF Next, Serve, ReadOnly

\* While the user was created once, its first bonus is the only one.
LEMMA FirstBonusHolds == Spec => []FirstBonusInv
<1>1. Init => FirstBonusInv
  BY IdleType DEF Init, FirstBonusInv, Creating
<1> QED
  BY <1>1, TypeInvariant, FirstBonusNext, PTL DEF Spec

\* A bonus that reached its requirement is marked completed, whatever flushes
\* overlap, unless two first requests overwrote each other's user document.
THEOREM StatusFollows == Spec => []StatusFollowsProgress
<1>1. FirstBonusInv => StatusFollowsProgress
  BY DEF FirstBonusInv, FirstBonus, StatusFollowsProgress
<1> QED
  BY <1>1, FirstBonusHolds, PTL

\* A user who was created once never has a bonus converted: the wagers that
\* complete it are what the conversion throws on.
THEOREM NeverConverted == Spec => []NoConversionAfterWagers
<1>1. FirstBonusInv => NoConversionAfterWagers
  BY DEF FirstBonusInv, NoConversionAfterWagers
<1> QED
  BY <1>1, FirstBonusHolds, PTL

------------------------------------------------------------------------------
(***************************************************************************)
(* The retirement of a bonus.  Only the flush of a conversion takes a      *)
(* bonus out of the document: every other one writes a bonus, or writes    *)
(* nothing of it; and that flush comes after the record.                   *)
(***************************************************************************)
RetireRequest(r) ==
  /\ r.at \in Creating => r.doc.active.kind = "whole"
  /\ r.at = "convert.update" => conversions # {}

RetireInv == \A w \in Workers : RetireRequest(req[w])

\* Every step keeps a conversion about to be flushed on record.
LEMMA RetireNext == TypeInv /\ RetireInv /\ [Next]_vars => RetireInv'
<1> SUFFICES ASSUME TypeInv, RetireInv, [Next]_vars PROVE RetireInv'
  OBVIOUS
<1> USE DEF ghosts
<1>t. req \in [Workers -> Request] /\ second \in Nat
  BY DEF TypeInv, TypeOK
<1>c. conversions \subseteq conversions'
  BY DEF Next, Serve, vars, Tick, ReadOnly, ValidateFind, ValidateCreate, ValidateLock,
     ValidateLockLost, PlaceFind, PlaceInsert, PlaceUpdate, ClaimFind, ClaimCreate,
     ClaimUpdate, ProgressFind, ProgressCreate, ConvertFind, ConvertStats, ConvertInsert,
     ConvertUpdate, RequestFails
<1>1. ASSUME NEW w \in Workers, NEW r, req' = [req EXCEPT ![w] = r],
             r.at \in Creating => r.doc.active.kind = "whole",
             r.at = "convert.update" => conversions' # {}
      PROVE  RetireInv'
  <2>1. \A v \in Workers : req'[v] = IF v = w THEN r ELSE req[v]
    BY <1>1, <1>t
  <2> QED
    BY <1>1, <1>c, <2>1 DEF RetireInv, RetireRequest
<1>i. ASSUME NEW w \in Workers, Finish(w) PROVE RetireInv'
  BY <1>1, <1>i, IdleType DEF Finish, Creating
<1>g. ASSUME NEW w \in Workers, NEW step \in NeedsUser, Goto(w, step),
             step = "convert.update" => conversions' # {}
      PROVE  RetireInv'
  <2> DEFINE r == [req[w] EXCEPT !.at = step]
  <2>1. r.at = step /\ req' = [req EXCEPT ![w] = r]
    BY <1>g, <1>t DEF Goto, Request
  <2> HIDE DEF r
  <2> QED
    BY <1>1, <1>g, <2>1 DEF NeedsUser, Creating
<1>b. /\ AutoCreated(second).active.kind = "whole"
      /\ Claimed(NewUser, second).active.kind = "whole"
  <2>1. /\ AutoCreated(second).active = NewBonus(second)
        /\ Claimed(NewUser, second).active = NewBonus(second)
    BY <1>t, AutoCreatedType, NewUserType, ClaimedType
  <2>2. NewBonus(second).kind = "whole"
    BY DEF NewBonus
  <2> QED
    BY <2>1, <2>2
<1>2. ASSUME NEW w \in Workers, NEW amount \in Bets, ValidateFind(w, amount)
      PROVE  RetireInv'
  <2>1. CASE db = NoDoc
    BY <1>1, <1>2, <1>b, <2>1 DEF ValidateFind, Idle, Creating
  <2>2. CASE db # NoDoc
    BY <1>1, <1>2, <2>2 DEF ValidateFind, Idle, Creating
  <2> QED
    BY <2>1, <2>2
<1>3. ASSUME NEW w \in Workers, ValidateCreate(w) \/ ConvertStats(w) PROVE RetireInv'
  <2>1. Finish(w) \/ Goto(w, "validate.lock") \/ Goto(w, "convert.insert")
    BY <1>3 DEF ValidateCreate, ConvertStats
  <2> QED
    BY <1>g, <1>i, <2>1 DEF NeedsUser, Creating, Steps
<1>4. ASSUME NEW w \in Workers, PlaceInsert(w) PROVE RetireInv'
  BY <1>4, <1>g DEF PlaceInsert, NeedsUser, Creating, Steps
<1>5. ASSUME NEW w \in Workers, ConvertInsert(w) PROVE RetireInv'
  BY <1>5, <1>g DEF ConvertInsert, NeedsUser, Creating, Steps
<1>6. ASSUME NEW w \in Workers, ClaimFind(w) PROVE RetireInv'
  <2>1. CASE db = NoDoc
    BY <1>1, <1>6, <1>b, <2>1 DEF ClaimFind, Idle, Creating
  <2>2. CASE db # NoDoc
    BY <1>1, <1>6, <2>2 DEF ClaimFind, Idle, Creating
  <2> QED
    BY <2>1, <2>2
<1>7. ASSUME NEW w \in Workers, NEW t \in tickets, NEW payout \in Payouts,
             PlaceFind(w, t, payout)
      PROVE  RetireInv'
  BY <1>1, <1>7 DEF PlaceFind, Idle, Creating
<1>8. ASSUME NEW w \in Workers, ProgressFind(w) \/ ConvertFind(w) PROVE RetireInv'
  BY <1>1, <1>8, <1>b DEF ProgressFind, ConvertFind, Idle, Creating
<1>9. ASSUME NEW w \in Workers,
             \/ ValidateLock(w) \/ ValidateLockLost(w) \/ PlaceUpdate(w) \/ ClaimCreate(w)
             \/ ClaimUpdate(w) \/ ProgressCreate(w) \/ ConvertUpdate(w) \/ RequestFails(w)
      PROVE  RetireInv'
  BY <1>9, <1>i DEF ValidateLock, ValidateLockLost, PlaceUpdate, ClaimCreate, ClaimUpdate,
     ProgressCreate, ConvertUpdate, RequestFails
<1>10. CASE Tick \/ UNCHANGED vars
  BY <1>10 DEF Tick, vars, RetireInv, RetireRequest
<1> QED
  BY <1>2, <1>3, <1>4, <1>5, <1>6, <1>7, <1>8, <1>9, <1>10 DEF Next, Serve, ReadOnly

\* A bonus that a step takes out of the document has a conversion on record.
LEMMA RetireStep ==
  ASSUME TypeInv, RetireInv, [Next]_vars, db # NoDoc, db.active.kind = "whole",
         db'.active.kind = "none"
  PROVE  conversions # {}
<1> USE DEF ghosts
<1>t. /\ db \in Doc /\ db.active \in Bonus
      /\ \A w \in Workers : req[w].at # "idle" => req[w].doc \in Doc
      /\ \A w \in Workers : req[w] \in Request
  BY DEF TypeInv, TypeOK, RequestOK, Doc
<1>1. ASSUME NEW old \in Doc, NEW new \in Doc, db' = Flushed(db, old, new),
             new.active.kind # "none" \/ new.active = old.active
      PROVE  FALSE
  <2>1. old.active \in Bonus /\ new.active \in Bonus
    BY DEF Doc
  <2>2. db'.active = FlushedBonus(db.active, old.active, new.active)
    BY <1>1, <1>t, FlushedType
  <2>3. db'.active.kind # "none"
    BY <1>1, <1>t, <2>1, <2>2, FlushedBonusType
  <2> QED
    BY <2>3
<1>2. ASSUME NEW w \in Workers, Upsert(req[w].doc), req[w].at \in Creating PROVE FALSE
  BY <1>2 DEF Upsert, RetireInv, RetireRequest
<1>3. ASSUME NEW w \in Workers,
             ValidateCreate(w) \/ ClaimCreate(w) \/ ProgressCreate(w)
      PROVE  FALSE
  BY <1>2, <1>3 DEF ValidateCreate, ClaimCreate, ProgressCreate, At, Creating
<1>4. ASSUME NEW w \in Workers, ValidateLock(w) PROVE FALSE
  BY <1>4, <1>t DEF ValidateLock, Doc
<1>5. ASSUME NEW w \in Workers, PlaceUpdate(w) PROVE FALSE
  <2> DEFINE d == req[w].doc
             e == Placed(d, req[w].ticket, req[w].payout)
  <2>1. /\ d \in Doc /\ e \in Doc /\ e.active.kind = d.active.kind
        /\ d.active.kind = "none" => e.active = d.active
    BY <1>5, PlacingRequest DEF PlaceUpdate, At
  <2>2. db' = Flushed(db, d, e)
    BY <1>5 DEF PlaceUpdate, Flush
  <2> HIDE DEF d, e
  <2> QED
    BY <1>1, <2>1, <2>2
<1>6. ASSUME NEW w \in Workers, ClaimUpdate(w) PROVE FALSE
  <2> DEFINE d == req[w].doc
             e == Claimed(d, req[w].id)
  <2>1. d \in Doc /\ req[w].id \in Nat
    BY <1>6, <1>t DEF ClaimUpdate, At, Request
  <2>2. e \in Doc /\ e.active = NewBonus(req[w].id)
    BY <2>1, ClaimedType
  <2>3. db' = Flushed(db, d, e)
    BY <1>6 DEF ClaimUpdate, Flush
  <2>4. NewBonus(req[w].id).kind = "whole"
    BY DEF NewBonus
  <2> HIDE DEF d, e
  <2> QED
    BY <1>1, <2>1, <2>2, <2>3, <2>4
<1>7. ASSUME NEW w \in Workers, ConvertUpdate(w) PROVE conversions # {}
  BY <1>7 DEF ConvertUpdate, At, RetireInv, RetireRequest
<1>8. ASSUME db' = db PROVE FALSE
  BY <1>8
<1>9. ASSUME NEW w \in Workers,
             \/ \E amount \in Bets : ValidateFind(w, amount)
             \/ ValidateLockLost(w)
             \/ \E t \in tickets, payout \in Payouts : PlaceFind(w, t, payout)
             \/ PlaceInsert(w) \/ ClaimFind(w) \/ ProgressFind(w) \/ ConvertFind(w)
             \/ ConvertStats(w) \/ ConvertInsert(w) \/ RequestFails(w)
      PROVE  FALSE
  BY <1>8, <1>9 DEF ValidateFind, ValidateLockLost, PlaceFind, PlaceInsert, ClaimFind,
     ProgressFind, ConvertFind, ConvertStats, ConvertInsert, RequestFails
<1>10. CASE Tick \/ UNCHANGED vars
  BY <1>8, <1>10 DEF Tick, vars
<1> QED
  BY <1>3, <1>4, <1>5, <1>6, <1>7, <1>9, <1>10 DEF Next, Serve, ReadOnly

\* A bonus leaves the document only when a conversion is on record: convertBonusToReal
\* (BonusService.php:250) persists the BonusConversion in the flush that empties the
\* bonus, and no overlapping request's flush empties it.
THEOREM RetiredOnRecord == Spec => BonusRetiredOnRecord
<1>1. Init => RetireInv
  BY IdleType DEF Init, RetireInv, RetireRequest, Creating
<1>2. TypeInv /\ RetireInv /\ [Next]_vars
        => [db # NoDoc /\ db.active.kind = "whole" /\ db'.active.kind = "none"
              => conversions # {}]_vars
  BY RetireStep
<1> QED
  BY <1>1, <1>2, TypeInvariant, RetireNext, PTL DEF Spec, BonusRetiredOnRecord

------------------------------------------------------------------------------
(***************************************************************************)
(* One worker and no failure.  The document a request found stays the one  *)
(* in the database, so every flush writes what the request computed; and   *)
(* the setters keep the stored total the sum of the balances.              *)
(***************************************************************************)

\* A document as the services mean it: its total is the sum of its balances, its
\* bonus is whole or absent, and completed exactly when the requirement is met.
Sound(d) ==
  /\ d.total = d.real + d.bonus
  /\ d.active.kind # "partial"
  /\ d.active.kind = "whole" =>
       (d.active.status = "completed" <=> IsComplete(d.active))

\* A user document built at first sight, in some second.
Built(d) == \E s \in 1 .. MaxSecond : d \in {AutoCreated(s), Claimed(NewUser, s)}

\* What each setter does to the balances: the total follows.
LEMMA SetterBalances ==
  ASSUME NEW d \in Doc, NEW x \in Int
  PROVE  /\ SetRealBalance(d, x).real = x
         /\ SetRealBalance(d, x).bonus = d.bonus
         /\ SetRealBalance(d, x).total = x + d.bonus
         /\ SetBonusBalance(d, x).real = d.real
         /\ SetBonusBalance(d, x).bonus = x
         /\ SetBonusBalance(d, x).total = d.real + x
<1> DEFINE y == x + d.bonus
           z == d.real + x
<1>1. SetRealBalance(d, x) = [d EXCEPT !.real = x, !.total = y]
  BY DEF SetRealBalance
<1>2. SetBonusBalance(d, x) = [d EXCEPT !.bonus = x, !.total = z]
  BY DEF SetBonusBalance
<1>3. y = x + d.bonus /\ z = d.real + x
  OBVIOUS
<1> HIDE DEF y, z
<1> QED
  BY <1>1, <1>2, <1>3 DEF Doc

\* A bonus that was just built, and the absence of one, are sound.
LEMMA FreshSound ==
  ASSUME NEW d, d.total = d.real + d.bonus,
         d.active = NoBonus \/ \E s \in Nat : d.active = NewBonus(s)
  PROVE  Sound(d)
<1>1. CASE d.active = NoBonus
  BY <1>1 DEF Sound, NoBonus
<1>2. CASE \E s \in Nat : d.active = NewBonus(s)
  BY <1>2, RequiredPositive DEF Sound, NewBonus, IsComplete
<1> QED
  BY <1>1, <1>2

\* What a first claim and what sight of an unknown user build is sound.
LEMMA BuiltSound ==
  ASSUME NEW d, Built(d)
  PROVE  d \in Doc /\ Sound(d) /\ d.lifetime = 0
<1>1. PICK s \in 1 .. MaxSecond : d \in {AutoCreated(s), Claimed(NewUser, s)}
  BY DEF Built
<1>2. s \in Nat /\ NewBonus(s) \in Bonus /\ StartBalance \in Int /\ WelcomeBonus \in Int
  BY WagerAssumption, AmountsAssumption, BonusTypes
<1>3. CASE d = AutoCreated(s)
  <2> DEFINE d1 == SetRealBalance(NewUser, StartBalance)
             d2 == SetActiveBonus(d1, NewBonus(s))
             d3 == SetBonusBalance(d2, WelcomeBonus)
  <2>1. d1 \in Doc
    BY <1>2, NewUserType, SettersType
  <2>2. d2 \in Doc
    BY <1>2, <2>1, SetActiveType
  <2> HIDE DEF d1, d2
  <2>3. d3 \in Doc /\ d3.total = d3.real + d3.bonus
    <3>1. d3 \in Doc
      BY <1>2, <2>2, SettersType
    <3>2. /\ d3.real = d2.real /\ d3.bonus = WelcomeBonus
          /\ d3.total = d2.real + WelcomeBonus
      BY <1>2, <2>2, SetterBalances
    <3> HIDE DEF d3
    <3> QED
      BY <3>1, <3>2
  <2>4. d = [d3 EXCEPT !.claimed = @ + 1]
    BY <1>3 DEF AutoCreated, d1, d2
  <2> HIDE DEF d3
  <2>5. d.total = d.real + d.bonus
    BY <2>3, <2>4 DEF Doc
  <2>6. d \in Doc /\ d.active = NewBonus(s) /\ d.lifetime = 0
    BY <1>2, <1>3, AutoCreatedType
  <2> QED
    BY <1>2, <2>5, <2>6, FreshSound
<1>4. CASE d = Claimed(NewUser, s)
  <2> DEFINE e == SetActiveBonus(NewUser, NewBonus(s))
             x == e.bonus + WelcomeBonus
             g == SetBonusBalance(e, x)
  <2>1. e \in Doc
    BY <1>2, NewUserType, SetActiveType
  <2>2. x \in Int
    BY <1>2, <2>1 DEF Doc
  <2>3. d = [g EXCEPT !.claimed = @ + 1]
    BY <1>4 DEF Claimed
  <2> HIDE DEF e, x
  <2>4. g \in Doc /\ g.total = g.real + g.bonus
    <3>1. g \in Doc
      BY <2>1, <2>2, SettersType
    <3>2. g.real = e.real /\ g.bonus = x /\ g.total = e.real + x
      BY <2>1, <2>2, SetterBalances
    <3> HIDE DEF g
    <3> QED
      BY <3>1, <3>2
  <2> HIDE DEF g
  <2>5. d.total = d.real + d.bonus
    BY <2>3, <2>4 DEF Doc
  <2>6. d \in Doc /\ d.active = NewBonus(s) /\ d.lifetime = 0
    BY <1>2, <1>4, NewUserType, ClaimedType
  <2> QED
    BY <1>2, <2>5, <2>6, FreshSound
<1> QED
  BY <1>1, <1>3, <1>4

\* A claim keeps a document sound.
LEMMA ClaimedSound ==
  ASSUME NEW d \in Doc, NEW s \in Nat
  PROVE  Sound(Claimed(d, s))
<1> DEFINE e == SetActiveBonus(d, NewBonus(s))
           x == e.bonus + WelcomeBonus
           g == SetBonusBalance(e, x)
           c == Claimed(d, s)
<1>1. e \in Doc
  BY BonusTypes, SetActiveType
<1>2. x \in Int
  BY <1>1, AmountsAssumption DEF Doc
<1>3. c = [g EXCEPT !.claimed = @ + 1]
  BY DEF Claimed
<1>4. c \in Doc /\ c.active = NewBonus(s)
  BY ClaimedType
<1> HIDE DEF e, x, c
<1>5. g \in Doc /\ g.total = g.real + g.bonus
  <2>1. g \in Doc
    BY <1>1, <1>2, SettersType
  <2>2. g.real = e.real /\ g.bonus = x /\ g.total = e.real + x
    BY <1>1, <1>2, SetterBalances
  <2> HIDE DEF g
  <2> QED
    BY <2>1, <2>2
<1> HIDE DEF g
<1>6. c.total = c.real + c.bonus
  BY <1>3, <1>5 DEF Doc
<1>7. Sound(c)
  BY <1>4, <1>6, FreshSound
<1> QED
  BY <1>7 DEF c

\* A conversion keeps a document sound.
LEMMA ConvertedSound ==
  ASSUME NEW d \in Doc
  PROVE  Sound(Converted(d))
<1> DEFINE e == SetRealBalance(d, d.real + WelcomeBonus)
           g == SetBonusBalance(e, 0)
           c == Converted(d)
<1>1. d.real + WelcomeBonus \in Int
  BY AmountsAssumption DEF Doc
<1>2. e \in Doc
  BY <1>1, SettersType
<1>3. g \in Doc /\ g.total = g.real + g.bonus
  <2> HIDE DEF e
  <2> QED
    BY <1>2, SettersType, SetterBalances
<1>4. c = [g EXCEPT !.active = NoBonus, !.completed = @ + 1]
  BY DEF Converted
<1>5. c.active = NoBonus
  BY ConvertedType
<1> HIDE DEF g, c
<1>6. c.total = c.real + c.bonus
  BY <1>3, <1>4 DEF Doc
<1>7. Sound(c)
  BY <1>5, <1>6, FreshSound
<1> QED
  BY <1>7 DEF c

\* A placed wager moves the stake and the payout, and keeps a document sound.
LEMMA PlacedSound ==
  ASSUME NEW d \in Doc, Sound(d), NEW t \in Ticket, NEW payout \in Nat
  PROVE  /\ Sound(Placed(d, t, payout))
         /\ Placed(d, t, payout).real = d.real - t.realUsed + payout
         /\ Placed(d, t, payout).bonus = d.bonus - t.bonusUsed
<1>1. t.bonusUsed \in Int /\ t.realUsed \in Int /\ t.amount \in Nat
  BY DEF Ticket
<1>2. PICK x \in Int : x = d.bonus - t.bonusUsed
  BY <1>1 DEF Doc
<1>3. PICK y \in Int : y = d.real - t.realUsed + payout
  BY <1>1 DEF Doc
<1> DEFINE e == SetBonusBalance(d, x)
           g == SetRealBalance(e, y)
           c == Placed(d, t, payout)
<1>4. e \in Doc /\ e.real = d.real /\ e.bonus = x /\ e.active = d.active
  BY <1>2, SettersType, SetterBalances
<1>5. c = [g EXCEPT !.lifetime = @ + t.amount,
                    !.active = IF @.kind = "none" THEN @
                               ELSE AddWageringProgress(@, t.amount)]
  BY <1>2, <1>3, <1>4 DEF Placed
<1> HIDE DEF e
<1>6. /\ g \in Doc /\ g.real = y /\ g.bonus = x /\ g.total = y + x
  BY <1>3, <1>4, SettersType, SetterBalances
<1>7. c \in Doc /\ c.active = IF d.active.kind = "none" THEN d.active
                              ELSE AddWageringProgress(d.active, t.amount)
  BY <1>1, PlacedType
<1> HIDE DEF g, c
<1>8. c.real = y /\ c.bonus = x /\ c.total = y + x
  BY <1>5, <1>6 DEF Doc
<1>9. c.active.kind # "partial" /\ (c.active.kind = "whole" =>
        (c.active.status = "completed" <=> IsComplete(c.active)))
  <2>1. d.active \in Bonus
    BY DEF Doc
  <2>2. CASE d.active.kind = "none"
    BY <1>7, <2>2
  <2>3. CASE d.active.kind # "none"
    <3> DEFINE b == AddWageringProgress(d.active, t.amount)
    <3>1. c.active = b /\ d.active.kind = "whole"
      BY <1>7, <2>1, <2>3 DEF Sound, Bonus
    <3>2. b.kind = "whole" /\ b.wagered = d.active.wagered + t.amount
      BY <1>1, <2>1, <3>1, ProgressType
    <3>3. b.status = IF d.active.wagered + t.amount >= Required THEN "completed"
                     ELSE d.active.status
      BY <2>1 DEF AddWageringProgress, Bonus
    <3>4. d.active.status = "completed" => d.active.wagered >= Required
      BY <3>1 DEF Sound, IsComplete
    <3>5. d.active.wagered \in Nat /\ Required \in Nat
      BY <2>1, RequiredPositive DEF Bonus
    <3> HIDE DEF b
    <3> QED
      BY <1>1, <3>1, <3>2, <3>3, <3>4, <3>5 DEF IsComplete
  <2> QED
    BY <2>2, <2>3
<1>10. Sound(c)
  BY <1>8, <1>9 DEF Sound
<1> QED
  BY <1>2, <1>3, <1>8, <1>10 DEF c

\* A flush of a document that is still the one in the database writes exactly
\* the new document, unless it would turn one bonus into another.
LEMMA FlushAlone ==
  ASSUME NEW d \in Doc, NEW new \in Doc,
         \/ d.active.kind = "none" \/ new.active.kind = "none"
         \/ d.active.kind = new.active.kind /\ d.active.id = new.active.id
  PROVE  Flushed(d, d, new) = new
<1> DEFINE b == FlushedBonus(d.active, d.active, new.active)
<1>1. d.active \in Bonus /\ new.active \in Bonus
  BY DEF Doc
<1>2. b = new.active
  BY <1>1 DEF FlushedBonus, Changed, Bonus
<1> HIDE DEF b
<1>3. Flushed(d, d, new) =
        [real |-> new.real, bonus |-> new.bonus, total |-> new.total,
         claimed |-> new.claimed, completed |-> new.completed,
         lifetime |-> new.lifetime, version |-> new.version, active |-> new.active]
  BY <1>2 DEF Flushed, Changed, b
<1> QED
  BY <1>3 DEF Doc

\* What the one worker's request r holds: the document of the database, or one
\* that was built because there is none.
AloneRequest(r) ==
  /\ r.at \in Creating => db = NoDoc /\ Built(r.doc)
  /\ r.at \in NeedsUser => r.doc = db
  /\ r.at = "claim.update" => db.active.kind = "none" /\ r.id \in 1 .. MaxSecond
  /\ r.at \in {"convert.stats", "convert.insert", "convert.update"} => Convertible(db)

Accounted(d, stakes, payouts) ==
  /\ d.real + d.bonus = credited - stakes + payouts
  /\ d.lifetime = stakes

\* The books while the request r runs: between the two writes of a placement the
\* history is ahead of the user by that one wager.
Books(r) ==
  IF db = NoDoc
  THEN credited = 0 /\ staked = 0 /\ paid = 0
  ELSE /\ Sound(db)
       /\ IF r.at = "place.update"
          THEN Accounted(db, staked - r.ticket.amount, paid - r.payout)
          ELSE Accounted(db, staked, paid)

AloneInv(p) == /\ AloneRequest(req[p])
               /\ Books(req[p])
               /\ second \in 1 .. MaxSecond

\* A request that goes on to another step keeps everything else.
LEMMA GotoFields ==
  ASSUME TypeInv, NEW w \in Workers, NEW step \in Steps, Goto(w, step)
  PROVE  \E r : /\ req' = [req EXCEPT ![w] = r] /\ r.at = step
                /\ r.doc = req[w].doc /\ r.amount = req[w].amount
                /\ r.ticket = req[w].ticket /\ r.payout = req[w].payout
                /\ r.id = req[w].id
<1>1. req[w] \in Request
  BY DEF TypeInv, TypeOK
<1> WITNESS [req[w] EXCEPT !.at = step]
<1> QED
  BY <1>1 DEF Goto, Request

\* The one worker that places a wager writes exactly what it computed.
LEMMA PlaceAlone ==
  ASSUME TypeInv, CoverInv, NEW p \in Workers, AloneInv(p), PlaceUpdate(p),
         NEW t, t = req[p].ticket, NEW y, y = req[p].payout
  PROVE  /\ db \in Doc /\ t \in Ticket /\ y \in Nat
         /\ db' = Placed(db, t, y) /\ db' \in Doc /\ Sound(db')
         /\ db'.real + db'.bonus = db.real + db.bonus - t.amount + y
         /\ db'.lifetime = db.lifetime + t.amount
<1>1. /\ db \in Doc /\ db # NoDoc /\ req[p].doc = db /\ y \in Nat /\ t \in Ticket
      /\ t \in issued
  BY PlacingRequest, WagerAssumption
     DEF AloneInv, AloneRequest, PlaceUpdate, At, NeedsUser, Steps, Creating
<1>2. Sound(db)
  BY <1>1 DEF AloneInv, Books
<1> DEFINE e == Placed(db, t, y)
<1>3. /\ e \in Doc /\ e.active.kind = db.active.kind /\ e.active.id = db.active.id
      /\ e.lifetime = db.lifetime + t.amount
  <2>1. t.bonusUsed \in Int /\ t.realUsed \in Int /\ t.amount \in Nat
    BY <1>1 DEF Ticket
  <2> QED
    BY <1>1, <2>1, PlacedType
<1>4. Sound(e) /\ e.real = db.real - t.realUsed + y /\ e.bonus = db.bonus - t.bonusUsed
  BY <1>1, <1>2, PlacedSound
<1>5. db' = Flushed(db, db, e)
  BY <1>1 DEF PlaceUpdate, Flush
<1>6. t.bonusUsed + t.realUsed = t.amount
  BY <1>1 DEF CoverInv, Split
<1> HIDE DEF e
<1>7. db' = e
  BY <1>1, <1>3, <1>5, FlushAlone
<1>8. /\ db.real \in Int /\ db.bonus \in Int /\ t.realUsed \in Int
      /\ t.bonusUsed \in Int /\ t.amount \in Nat
  BY <1>1 DEF Doc, Ticket
<1>9. e.real + e.bonus = db.real + db.bonus - t.amount + y
  BY <1>1, <1>4, <1>6, <1>8
<1> QED
  BY <1>1, <1>3, <1>4, <1>7, <1>9 DEF e

\* The one worker that claims or converts writes exactly what it computed.
LEMMA BonusAlone ==
  ASSUME TypeInv, NEW p \in Workers, AloneInv(p), ClaimUpdate(p) \/ ConvertUpdate(p)
  PROVE  /\ db \in Doc /\ db' \in Doc /\ Sound(db) /\ Sound(db')
         /\ ClaimUpdate(p) => db' = Claimed(db, req[p].id)
         /\ ConvertUpdate(p) => db' = Converted(db)
         /\ db'.lifetime = db.lifetime
         /\ credited' = credited + (db'.total - db.total)
<1>1. req[p].at \in {"claim.update", "convert.update"}
  BY DEF ClaimUpdate, ConvertUpdate, At
<1>2. db \in Doc /\ db # NoDoc /\ req[p].doc = db /\ req[p].id \in Nat
  BY <1>1, WagerAssumption DEF TypeInv, TypeOK, RequestOK, Request, AloneInv,
     AloneRequest, NeedsUser, Steps, Creating
<1>3. Sound(db)
  BY <1>2 DEF AloneInv, Books
<1>4. CASE ClaimUpdate(p)
  <2> DEFINE e == Claimed(db, req[p].id)
  <2>1. e \in Doc /\ Sound(e) /\ e.lifetime = db.lifetime
    BY <1>2, ClaimedType, ClaimedSound
  <2>2. db.active.kind = "none"
    BY <1>4 DEF ClaimUpdate, At, AloneInv, AloneRequest
  <2>3. db' = Flushed(db, db, e) /\ credited' = credited + (e.total - db.total)
    BY <1>2, <1>4 DEF ClaimUpdate, Flush
  <2>4. ~ConvertUpdate(p)
    BY <1>4 DEF ClaimUpdate, ConvertUpdate, At
  <2> HIDE DEF e
  <2>5. db' = e
    BY <1>2, <2>1, <2>2, <2>3, FlushAlone
  <2> QED
    BY <1>2, <1>3, <2>1, <2>3, <2>4, <2>5 DEF e
<1>5. CASE ConvertUpdate(p)
  <2> DEFINE e == Converted(db)
  <2>1. e \in Doc /\ Sound(e) /\ e.lifetime = db.lifetime /\ e.active = NoBonus
    BY <1>2, ConvertedType, ConvertedSound
  <2>2. NoBonus.kind = "none"
    BY DEF NoBonus
  <2>3. db' = Flushed(db, db, e) /\ credited' = credited + (e.total - db.total)
    BY <1>2, <1>5 DEF ConvertUpdate, Flush
  <2>4. ~ClaimUpdate(p)
    BY <1>5 DEF ClaimUpdate, ConvertUpdate, At
  <2> HIDE DEF e
  <2>5. db' = e
    BY <1>2, <2>1, <2>2, <2>3, FlushAlone
  <2> QED
    BY <1>2, <1>3, <2>1, <2>3, <2>4, <2>5 DEF e
<1> QED
  BY <1>4, <1>5

\* Every step of the one worker keeps its books.
LEMMA AloneNext ==
  ASSUME NEW p, Workers = {p}, Failures = FALSE, TypeInv, TypeInv', CoverInv,
         AloneInv(p), [Next]_vars
  PROVE  AloneInv(p)'
<1> USE DEF ghosts
<1>p. p \in Workers /\ \A w \in Workers : w = p
  OBVIOUS
<1>t. /\ req \in [Workers -> Request] /\ second \in 1 .. MaxSecond
      /\ db # NoDoc => db \in Doc
      /\ staked \in Nat /\ paid \in Nat /\ credited \in Int /\ MaxSecond \in Nat
  BY WagerAssumption DEF TypeInv, TypeOK, AloneInv
<1>n. NoDoc \notin Doc
  BY WagerAssumption
<1>q. ~RequestFails(p)
  BY DEF RequestFails
<1>k. ASSUME NEW r, req' = [req EXCEPT ![p] = r],
             UNCHANGED <<db, credited, staked, paid, second>>,
             ~At(p, "place.update"), r.at # "place.update", AloneRequest(r)
      PROVE  AloneInv(p)'
  <2>1. req'[p] = r
    BY <1>k, <1>p, <1>t
  <2>2. Books(r)'
    BY <1>k DEF AloneInv, Books, At, Accounted
  <2>3. AloneRequest(r)'
    BY <1>k DEF AloneRequest
  <2> QED
    BY <1>k, <1>t, <2>1, <2>2, <2>3 DEF AloneInv, Books, AloneRequest
\* A write to the document ends the request, or goes on to the lock.
<1>d. ASSUME NEW r, req' = [req EXCEPT ![p] = r], second' = second,
             db' # NoDoc, Sound(db'), Accounted(db, staked, paid)',
             r.at = "idle" \/ (r.at = "validate.lock" /\ r.doc = db')
      PROVE  AloneInv(p)'
  <2>1. req'[p] = r
    BY <1>d, <1>p, <1>t
  <2>2. Books(r)'
    BY <1>d DEF Books
  <2>3. AloneRequest(r)'
    BY <1>d DEF AloneRequest, Creating, NeedsUser, Steps
  <2> QED
    BY <1>d, <1>t, <2>1, <2>2, <2>3 DEF AloneInv, Books, AloneRequest
<1>b. Built(AutoCreated(second)) /\ Built(Claimed(NewUser, second))
  BY <1>t DEF Built
<1>i. AloneRequest(Idle) /\ Idle.at = "idle"
  BY IdleType DEF AloneRequest, NeedsUser, Creating
<1>1. ASSUME NEW amount \in Bets, ValidateFind(p, amount) PROVE AloneInv(p)'
  <2>1. CASE db = NoDoc
    <3> DEFINE r == [Idle EXCEPT !.at = "validate.create", !.doc = AutoCreated(second),
                                 !.amount = amount]
    <3>1. r.at = "validate.create" /\ r.doc = AutoCreated(second)
      BY DEF Idle
    <3>2. /\ req' = [req EXCEPT ![p] = r] /\ ~At(p, "place.update")
          /\ UNCHANGED <<db, credited, staked, paid, second>>
      BY <1>1, <2>1 DEF ValidateFind, At
    <3> HIDE DEF r
    <3>3. AloneRequest(r)
      BY <1>b, <2>1, <3>1 DEF AloneRequest, NeedsUser, Creating
    <3> QED
      BY <1>k, <3>1, <3>2, <3>3
  <2>2. CASE db # NoDoc
    <3> DEFINE r == [Idle EXCEPT !.at = "validate.lock", !.doc = db, !.amount = amount]
    <3>1. r.at = "validate.lock" /\ r.doc = db
      BY DEF Idle
    <3>2. /\ req' = [req EXCEPT ![p] = r] /\ ~At(p, "place.update")
          /\ UNCHANGED <<db, credited, staked, paid, second>>
      BY <1>1, <2>2 DEF ValidateFind, At
    <3> HIDE DEF r
    <3>3. AloneRequest(r)
      BY <3>1 DEF AloneRequest, Creating
    <3> QED
      BY <1>k, <3>1, <3>2, <3>3
  <2> QED
    BY <2>1, <2>2
<1>2. CASE ValidateCreate(p) \/ ClaimCreate(p) \/ ProgressCreate(p)
  <2>1. /\ req[p].at \in Creating /\ Upsert(req[p].doc)
        /\ UNCHANGED <<staked, paid, second>>
    BY <1>2 DEF ValidateCreate, ClaimCreate, ProgressCreate, At, Creating
  <2>2. db = NoDoc /\ Built(req[p].doc)
    BY <2>1 DEF AloneInv, AloneRequest
  <2>3. PICK d \in Doc : d = req[p].doc /\ Sound(d) /\ d.lifetime = 0
    BY <2>2, BuiltSound
  <2>4. /\ db' = d /\ credited' = 0 + d.total /\ staked' = 0 /\ paid' = 0
    BY <2>1, <2>2, <2>3 DEF Upsert, AloneInv, Books
  <2>5. d.real \in Int /\ d.bonus \in Int /\ d.total = d.real + d.bonus
    BY <2>3 DEF Doc, Sound
  <2>6. Accounted(db, staked, paid)'
    BY <2>3, <2>4, <2>5 DEF Accounted
  <2>7. PICK r : /\ req' = [req EXCEPT ![p] = r]
                 /\ r.at = "idle" \/ (r.at = "validate.lock" /\ r.doc = d)
    <3>1. CASE Finish(p)
      BY <1>i, <3>1 DEF Finish
    <3>2. CASE Goto(p, "validate.lock")
      BY <1>p, <2>3, <3>2, GotoFields DEF Steps
    <3> QED
      BY <1>2, <3>1, <3>2 DEF ValidateCreate, ClaimCreate, ProgressCreate
  <2> QED
    BY <1>d, <1>n, <2>1, <2>3, <2>4, <2>6, <2>7
<1>3. CASE ValidateLock(p)
  <2>1. db \in Doc /\ db # NoDoc /\ ~At(p, "place.update")
    BY <1>3, <1>t, <1>p DEF ValidateLock, At, TypeInv, RequestOK, NeedsUser, Steps, Creating
  <2>2. /\ db' = [db EXCEPT !.version = @ + 1] /\ req' = [req EXCEPT ![p] = Idle]
        /\ UNCHANGED <<credited, staked, paid, second>>
    BY <1>3 DEF ValidateLock, Finish
  <2>3. /\ db'.real = db.real /\ db'.bonus = db.bonus /\ db'.total = db.total
        /\ db'.lifetime = db.lifetime /\ db'.active = db.active /\ db'.version = db.version + 1
    BY <2>1, <2>2 DEF Doc
  <2>4. Sound(db) /\ Accounted(db, staked, paid)
    BY <2>1 DEF AloneInv, Books, At
  <2>5. Sound(db')
    BY <2>3, <2>4 DEF Sound
  <2>6. Accounted(db, staked, paid)'
    BY <2>2, <2>3, <2>4 DEF Accounted
  <2>7. db' # NoDoc
    <3>1. db.version + 1 \in Nat
      BY <2>1 DEF Doc
    <3>2. db' \in Doc
      BY <2>1, <2>2, <3>1 DEF Doc
    <3> QED
      BY <1>n, <3>2
  <2> QED
    BY <1>d, <1>i, <2>2, <2>5, <2>6, <2>7
<1>4. CASE ValidateLockLost(p)
  BY <1>4, <1>i, <1>k DEF ValidateLockLost, At, Finish
<1>5. ASSUME NEW t \in tickets, NEW payout \in Payouts, PlaceFind(p, t, payout)
      PROVE  AloneInv(p)'
  <2> DEFINE r == [Idle EXCEPT !.at = "place.insert", !.doc = db,
                               !.ticket = t, !.payout = payout]
  <2>1. r.at = "place.insert" /\ r.doc = db
    BY DEF Idle
  <2>2. /\ req' = [req EXCEPT ![p] = r] /\ ~At(p, "place.update")
        /\ UNCHANGED <<db, credited, staked, paid, second>>
    BY <1>5 DEF PlaceFind, At
  <2> HIDE DEF r
  <2>3. AloneRequest(r)
    BY <2>1 DEF AloneRequest, Creating
  <2> QED
    BY <1>k, <2>1, <2>2, <2>3
<1>6. CASE PlaceInsert(p)
  <2>1. /\ req[p].at = "place.insert" /\ Goto(p, "place.update")
        /\ staked' = staked + req[p].ticket.amount /\ paid' = paid + req[p].payout
        /\ UNCHANGED <<db, credited, second>>
    BY <1>6 DEF PlaceInsert, At
  <2>2. PICK r : /\ req' = [req EXCEPT ![p] = r] /\ r.at = "place.update"
                 /\ r.doc = req[p].doc /\ r.ticket = req[p].ticket
                 /\ r.payout = req[p].payout
    BY <1>p, <2>1, GotoFields DEF Steps
  <2>3. /\ db \in Doc /\ r.ticket \in Ticket /\ r.payout \in Nat /\ db # NoDoc
    BY <1>n, <1>p, <2>1, <2>2, PlacingRequest
  <2>4. r.ticket.amount \in Nat
    BY <2>3 DEF Ticket
  <2>5. Sound(db) /\ Accounted(db, staked, paid)
    BY <2>1, <2>3 DEF AloneInv, Books
  <2>6. staked' - r.ticket.amount = staked /\ paid' - r.payout = paid
    BY <1>t, <2>1, <2>2, <2>3, <2>4
  <2>7. Books(r)'
    BY <2>1, <2>2, <2>3, <2>5, <2>6 DEF Books, Accounted
  <2>8. AloneRequest(r)'
    BY <2>1, <2>2 DEF AloneInv, AloneRequest, Creating, NeedsUser, Steps
  <2>9. req'[p] = r
    BY <1>p, <1>t, <2>2
  <2> QED
    BY <1>t, <2>1, <2>7, <2>8, <2>9 DEF AloneInv, Books, AloneRequest
<1>7. CASE PlaceUpdate(p)
  <2>1. PICK t, y : t = req[p].ticket /\ y = req[p].payout
    OBVIOUS
  <2>2. /\ db \in Doc /\ t \in Ticket /\ y \in Nat /\ db' \in Doc /\ Sound(db')
        /\ db'.real + db'.bonus = db.real + db.bonus - t.amount + y
        /\ db'.lifetime = db.lifetime + t.amount
    BY <1>7, <1>p, <2>1, PlaceAlone
  <2>3. Accounted(db, staked - t.amount, paid - y)
    BY <1>7, <1>n, <2>1, <2>2 DEF AloneInv, Books, PlaceUpdate, At
  <2>4. /\ req' = [req EXCEPT ![p] = Idle] /\ UNCHANGED <<credited, staked, paid, second>>
    BY <1>7 DEF PlaceUpdate, Finish
  <2>5. Accounted(db, staked, paid)'
    <3>1. t.amount \in Nat /\ db.real \in Int /\ db.bonus \in Int
      BY <2>2 DEF Ticket, Doc
    <3> QED
      BY <1>t, <2>2, <2>3, <2>4, <3>1 DEF Accounted
  <2> QED
    BY <1>d, <1>i, <1>n, <2>2, <2>4, <2>5
<1>8. CASE ClaimUpdate(p) \/ ConvertUpdate(p)
  <2>1. /\ db \in Doc /\ db' \in Doc /\ Sound(db) /\ Sound(db')
        /\ db'.lifetime = db.lifetime
        /\ credited' = credited + (db'.total - db.total)
    BY <1>8, <1>p, BonusAlone
  <2>2. /\ req' = [req EXCEPT ![p] = Idle] /\ UNCHANGED <<staked, paid, second>>
        /\ ~At(p, "place.update")
    BY <1>8 DEF ClaimUpdate, ConvertUpdate, Finish, At
  <2>3. Accounted(db, staked, paid)
    BY <1>n, <2>1, <2>2 DEF AloneInv, Books, At
  <2>4. /\ db.real \in Int /\ db.bonus \in Int /\ db'.real \in Int /\ db'.bonus \in Int
        /\ db.total = db.real + db.bonus /\ db'.total = db'.real + db'.bonus
    BY <2>1 DEF Doc, Sound
  <2>5. Accounted(db, staked, paid)'
    BY <1>t, <2>1, <2>2, <2>3, <2>4 DEF Accounted
  <2> QED
    BY <1>d, <1>i, <1>n, <2>1, <2>2, <2>5
<1>9. CASE ClaimFind(p)
  <2>1. CASE db = NoDoc
    <3> DEFINE r == [Idle EXCEPT !.at = "claim.create", !.doc = Claimed(NewUser, second)]
    <3>1. r.at = "claim.create" /\ r.doc = Claimed(NewUser, second)
      BY DEF Idle
    <3>2. /\ req' = [req EXCEPT ![p] = r] /\ ~At(p, "place.update")
          /\ UNCHANGED <<db, credited, staked, paid, second>>
      BY <1>9, <2>1 DEF ClaimFind, At
    <3> HIDE DEF r
    <3>3. AloneRequest(r)
      BY <1>b, <2>1, <3>1 DEF AloneRequest, NeedsUser, Creating
    <3> QED
      BY <1>k, <3>1, <3>2, <3>3
  <2>2. CASE db # NoDoc
    <3> DEFINE r == [Idle EXCEPT !.at = "claim.update", !.doc = db, !.id = second]
    <3>1. r.at = "claim.update" /\ r.doc = db /\ r.id = second
      BY DEF Idle
    <3>2. /\ req' = [req EXCEPT ![p] = r] /\ ~At(p, "place.update")
          /\ UNCHANGED <<db, credited, staked, paid, second>> /\ db.active.kind = "none"
      BY <1>9, <2>2 DEF ClaimFind, At
    <3> HIDE DEF r
    <3>3. AloneRequest(r)
      BY <1>t, <3>1, <3>2 DEF AloneRequest, Creating
    <3> QED
      BY <1>k, <3>1, <3>2, <3>3
  <2> QED
    BY <2>1, <2>2
<1>10. CASE ProgressFind(p)
  <2> DEFINE r == [Idle EXCEPT !.at = "progress.create", !.doc = AutoCreated(second)]
  <2>1. r.at = "progress.create" /\ r.doc = AutoCreated(second)
    BY DEF Idle
  <2>2. /\ req' = [req EXCEPT ![p] = r] /\ ~At(p, "place.update") /\ db = NoDoc
        /\ UNCHANGED <<db, credited, staked, paid, second>>
    BY <1>10 DEF ProgressFind, At
  <2> HIDE DEF r
  <2>3. AloneRequest(r)
    BY <1>b, <2>1, <2>2 DEF AloneRequest, NeedsUser, Creating
  <2> QED
    BY <1>k, <2>1, <2>2, <2>3
<1>11. CASE ConvertFind(p)
  <2> DEFINE r == [Idle EXCEPT !.at = "convert.stats", !.doc = db]
  <2>1. r.at = "convert.stats" /\ r.doc = db
    BY DEF Idle
  <2>2. /\ req' = [req EXCEPT ![p] = r] /\ ~At(p, "place.update") /\ Convertible(db)
        /\ UNCHANGED <<db, credited, staked, paid, second>>
    BY <1>11 DEF ConvertFind, At
  <2> HIDE DEF r
  <2>3. AloneRequest(r)
    BY <2>1, <2>2 DEF AloneRequest, Creating
  <2> QED
    BY <1>k, <2>1, <2>2, <2>3
<1>12. CASE ConvertStats(p) \/ ConvertInsert(p)
  <2>1. /\ req[p].at \in {"convert.stats", "convert.insert"}
        /\ UNCHANGED <<db, credited, staked, paid, second>>
        /\ Finish(p) \/ Goto(p, "convert.insert") \/ Goto(p, "convert.update")
    BY <1>12 DEF ConvertStats, ConvertInsert, At
  <2>2. PICK r : /\ req' = [req EXCEPT ![p] = r]
                 /\ \/ r = Idle
                    \/ /\ r.at \in {"convert.insert", "convert.update"}
                       /\ r.doc = req[p].doc
    BY <1>p, <2>1, GotoFields DEF Finish, Steps
  <2>3. AloneRequest(r)
    BY <1>i, <2>1, <2>2 DEF AloneInv, AloneRequest, Creating, NeedsUser, Steps
  <2> QED
    BY <1>i, <1>k, <2>1, <2>2, <2>3 DEF At
<1>13. CASE Tick
  <2>1. second' \in 1 .. MaxSecond /\ UNCHANGED <<db, req, credited, staked, paid>>
    BY <1>13, <1>t DEF Tick
  <2> QED
    BY <2>1 DEF AloneInv, AloneRequest, Books, Accounted
<1>14. CASE UNCHANGED vars
  BY <1>14 DEF vars, AloneInv, AloneRequest, Books, Accounted
<1> QED
  BY <1>p, <1>q, <1>1, <1>2, <1>3, <1>4, <1>5, <1>6, <1>7, <1>8, <1>9, <1>10, <1>11,
     <1>12, <1>13, <1>14 DEF Next, Serve, ReadOnly

\* With one worker and no failure the document of the user balances after every
\* write, and accounts for the whole history between requests.
THEOREM BooksInBalance ==
  ASSUME NEW p, Workers = {p}, Failures = FALSE
  PROVE  Spec => []BooksBalance
<1>1. Init => CoverInv
  BY IdleType DEF Init, CoverInv, At
<1>2. Init => AloneInv(p)
  BY IdleType, WagerAssumption
     DEF Init, AloneInv, AloneRequest, Books, NeedsUser, Creating
<1>3. TypeInv /\ TypeInv' /\ CoverInv /\ AloneInv(p) /\ [Next]_vars => AloneInv(p)'
  BY AloneNext
<1>4. AloneInv(p) => BooksBalance
  BY DEF AloneInv, Books, BooksBalance, Sound, TotalIsSum, StatusIsProgress, Quiet,
     At, Accounted, MoneyIsAccounted
<1> QED
  BY <1>1, <1>2, <1>3, <1>4, TypeInvariant, CoverNext, PTL DEF Spec

------------------------------------------------------------------------------
(***************************************************************************)
(* The numbers of validation data and of records.  A number is given once, *)
(* so a record belongs to one validation.                                  *)
(***************************************************************************)
NumberInv ==
  /\ \A t \in issued : t.n <= Cardinality(issued)
  /\ \A s, t \in issued : s.n = t.n => s = t
  /\ \A h \in history : h.n <= Cardinality(issued)

\* Every step keeps the numbers apart.
LEMMA NumberNext == TypeInv /\ NumberInv /\ [Next]_vars => NumberInv'
<1> SUFFICES ASSUME TypeInv, NumberInv, [Next]_vars PROVE NumberInv'
  OBVIOUS
<1> USE DEF ghosts
<1>t. /\ IsFiniteSet(issued) /\ Cardinality(issued) \in Nat
      /\ \A t \in issued : t.n \in Nat
      /\ \A h \in history : h.n \in Nat
  BY FS_CardinalityType DEF TypeInv, TypeOK, Ticket, Wager
<1>1. ASSUME UNCHANGED <<issued, history>> PROVE NumberInv'
  BY <1>1 DEF NumberInv
<1>2. ASSUME NEW w \in Workers, ValidateLock(w) PROVE NumberInv'
  <2> DEFINE t == [n |-> Cardinality(issued) + 1, gen |-> gen,
                   version |-> req[w].doc.version,
                   amount |-> req[w].amount,
                   bonusUsed |-> BonusUsed(req[w].doc, req[w].amount),
                   realUsed |-> RealUsed(req[w].doc, req[w].amount),
                   realBefore |-> req[w].doc.real, bonusBefore |-> req[w].doc.bonus]
  <2>1. t.n = Cardinality(issued) + 1 /\ issued' = issued \cup {t} /\ history' = history
    BY <1>2 DEF ValidateLock
  <2> HIDE DEF t
  <2>2. t \notin issued
    BY <1>t, <2>1 DEF NumberInv
  <2>3. Cardinality(issued') = Cardinality(issued) + 1
    BY <1>t, <2>1, <2>2, FS_AddElement
  <2>4. \A s \in issued : s.n <= Cardinality(issued) /\ s.n # t.n
    BY <1>t, <2>1 DEF NumberInv
  <2>5. \A s \in issued' : s.n <= Cardinality(issued')
    BY <1>t, <2>1, <2>3, <2>4
  <2>6. \A s, u \in issued' : s.n = u.n => s = u
    BY <2>1, <2>4 DEF NumberInv
  <2>7. \A h \in history' : h.n <= Cardinality(issued')
    BY <1>t, <2>1, <2>3 DEF NumberInv
  <2> QED
    BY <2>5, <2>6, <2>7 DEF NumberInv
<1>3. ASSUME NEW w \in Workers, PlaceInsert(w) PROVE NumberInv'
  <2> DEFINE t == req[w].ticket
             e == Placed(req[w].doc, t, req[w].payout)
             r == [n |-> t.n, amount |-> t.amount, payout |-> req[w].payout,
                   bonusId |-> req[w].doc.active.id, bonusUsed |-> t.bonusUsed,
                   realUsed |-> t.realUsed, realBefore |-> t.realBefore,
                   realAfter |-> e.real, bonusBefore |-> t.bonusBefore,
                   bonusAfter |-> e.bonus]
  <2>1. t \in issued
    BY <1>3, PlacingRequest DEF PlaceInsert, At
  <2>2. history' = history \cup {r} /\ issued' = issued /\ r.n = t.n
    BY <1>3 DEF PlaceInsert
  <2> HIDE DEF t, e, r
  <2> QED
    BY <2>1, <2>2 DEF NumberInv
<1>4. ASSUME NEW w \in Workers,
             \/ \E amount \in Bets : ValidateFind(w, amount)
             \/ ValidateCreate(w) \/ ValidateLockLost(w)
             \/ \E t \in tickets, payout \in Payouts : PlaceFind(w, t, payout)
             \/ PlaceUpdate(w) \/ ClaimFind(w) \/ ClaimCreate(w) \/ ClaimUpdate(w)
             \/ ProgressFind(w) \/ ProgressCreate(w) \/ ConvertFind(w) \/ ConvertStats(w)
             \/ ConvertInsert(w) \/ ConvertUpdate(w) \/ RequestFails(w)
      PROVE  NumberInv'
  <2>1. UNCHANGED <<issued, history>>
    BY <1>4 DEF ValidateFind, ValidateCreate, ValidateLockLost, PlaceFind, PlaceUpdate,
       ClaimFind, ClaimCreate, ClaimUpdate, ProgressFind, ProgressCreate, ConvertFind,
       ConvertStats, ConvertInsert, ConvertUpdate, RequestFails, Upsert
  <2> QED
    BY <1>1, <2>1
<1>5. CASE Tick \/ UNCHANGED vars
  BY <1>1, <1>5 DEF Tick, vars
<1> QED
  BY <1>2, <1>3, <1>4, <1>5 DEF Next, Serve, ReadOnly

------------------------------------------------------------------------------
(***************************************************************************)
(* The refinement.  One worker implements the ledger: the operations of    *)
(* the ledger's own UserBonus are those of the service's, a wager counts   *)
(* from the update on, and each operation is one step of the ledger.       *)
(***************************************************************************)

\* The ledger computes with the service's operators.
LEMMA LedgerOperators ==
  /\ \A s : Ledger!AutoCreated(s) = AutoCreated(s)
  /\ \A d, s : Ledger!Claimed(d, s) = Claimed(d, s)
  /\ Ledger!NewUser = NewUser
  /\ \A d, amount : Ledger!CanWager(d, amount) <=> CanWager(d, amount)
  /\ \A d, amount : Ledger!BonusUsed(d, amount) = BonusUsed(d, amount)
  /\ \A d, amount : Ledger!RealUsed(d, amount) = RealUsed(d, amount)
  /\ \A d, t, payout : Ledger!Placed(d, t, payout) = Placed(d, t, payout)
  /\ \A d : Ledger!Converted(d) = Converted(d)
  /\ \A b : Ledger!IsComplete(b) <=> IsComplete(b)
<1> USE DEF Ledger!Required, Required, Ledger!NoBonus, NoBonus, Ledger!NewBonus, NewBonus,
            Ledger!NewUser, NewUser, Ledger!IsComplete, IsComplete,
            Ledger!BonusUsed, BonusUsed, Ledger!RealUsed, RealUsed
<1>1. \A d, x : Ledger!SetRealBalance(d, x) = SetRealBalance(d, x)
  BY DEF Ledger!SetRealBalance, SetRealBalance
<1>2. \A d, x : Ledger!SetBonusBalance(d, x) = SetBonusBalance(d, x)
  BY DEF Ledger!SetBonusBalance, SetBonusBalance
<1>3. \A d, b : Ledger!SetActiveBonus(d, b) = SetActiveBonus(d, b)
  BY <1>2 DEF Ledger!SetActiveBonus, SetActiveBonus
<1>4. \A b, x : Ledger!AddWageringProgress(b, x) = AddWageringProgress(b, x)
  BY DEF Ledger!AddWageringProgress, AddWageringProgress
<1>5. \A s : Ledger!AutoCreated(s) = AutoCreated(s)
  BY <1>1, <1>2, <1>3 DEF Ledger!AutoCreated, AutoCreated
<1>6. \A d, s : Ledger!Claimed(d, s) = Claimed(d, s)
  BY <1>2, <1>3 DEF Ledger!Claimed, Claimed
<1>7. ASSUME NEW d, NEW t, NEW payout
      PROVE  Ledger!Placed(d, t, payout) = Placed(d, t, payout)
  <2> DEFINE e == SetBonusBalance(d, d.bonus - t.bonusUsed)
             f == SetRealBalance(e, e.real - t.realUsed + payout)
             le == Ledger!SetBonusBalance(d, d.bonus - t.bonusUsed)
             lf == Ledger!SetRealBalance(le, le.real - t.realUsed + payout)
  <2>1. le = e
    BY <1>2
  <2> HIDE DEF e, le
  <2>2. lf = f
    BY <1>1, <2>1
  <2> HIDE DEF f, lf
  <2>3. Ledger!AddWageringProgress(f.active, t.amount)
          = AddWageringProgress(f.active, t.amount)
    BY <1>4
  <2>4. Placed(d, t, payout) =
          [f EXCEPT !.lifetime = f.lifetime + t.amount,
                    !.active = IF f.active.kind = "none" THEN f.active
                               ELSE AddWageringProgress(f.active, t.amount)]
    BY DEF Placed, e, f
  <2>5. Ledger!Placed(d, t, payout) =
          [lf EXCEPT !.lifetime = lf.lifetime + t.amount,
                     !.active = IF lf.active.kind = "none" THEN lf.active
                                ELSE Ledger!AddWageringProgress(lf.active, t.amount)]
    BY DEF Ledger!Placed, le, lf
  <2> QED
    BY <2>2, <2>3, <2>4, <2>5
<1>8. \A d : Ledger!Converted(d) = Converted(d)
  BY <1>1, <1>2 DEF Ledger!Converted, Converted
<1>9. \A d, amount : Ledger!CanWager(d, amount) <=> CanWager(d, amount)
  BY DEF Ledger!CanWager, CanWager
<1> QED
  BY <1>5, <1>6, <1>7, <1>8, <1>9

\* What the request r holds of the wager it validates or places: its record is
\* there exactly between the two writes, and is the only one of that number.
RecordRequest(r) ==
  /\ r.at \in {"validate.create", "validate.lock"} => r.amount \in Bets
  /\ r.at \in {"place.insert", "place.update"} =>
       r.payout \in Payouts /\ r.ticket \notin tickets
  /\ r.at = "place.insert" => \A h \in history : h.n # r.ticket.n
  /\ r.at = "place.update" =>
       /\ \E h \in history : h.n = r.ticket.n
       /\ \A h \in history : h.n = r.ticket.n =>
            h.amount = r.ticket.amount /\ h.payout = r.payout

RecordInv(p) == /\ RecordRequest(req[p])
                /\ \A h \in history, t \in tickets : h.n # t.n

\* Every step of the one worker keeps the records to their wagers.
LEMMA RecordNext ==
  ASSUME NEW p, Workers = {p}, Failures = FALSE, TypeInv, NumberInv, RecordInv(p),
         [Next]_vars
  PROVE  RecordInv(p)'
<1> USE DEF ghosts
<1>p. p \in Workers /\ \A w \in Workers : w = p
  OBVIOUS
<1>t. req \in [Workers -> Request] /\ tickets \subseteq issued
  BY DEF TypeInv, TypeOK
<1>q. ~RequestFails(p)
  BY DEF RequestFails
<1>k. ASSUME NEW r, req' = [req EXCEPT ![p] = r], UNCHANGED <<history, tickets>>,
             r.at \notin {"place.insert", "place.update"},
             r.at \in {"validate.create", "validate.lock"} => r.amount \in Bets
      PROVE  RecordInv(p)'
  <2>1. req'[p] = r
    BY <1>k, <1>p, <1>t
  <2> QED
    BY <1>k, <2>1 DEF RecordInv, RecordRequest
<1>i. ASSUME Finish(p), UNCHANGED <<history, tickets>> PROVE RecordInv(p)'
  BY <1>i, <1>k, IdleType DEF Finish
<1>g. ASSUME NEW step \in Steps, Goto(p, step), UNCHANGED <<history, tickets>>,
             step \notin {"place.insert", "place.update"},
             step = "validate.lock" => At(p, "validate.create"),
             step # "validate.create"
      PROVE  RecordInv(p)'
  <2>1. PICK r : /\ req' = [req EXCEPT ![p] = r] /\ r.at = step
                 /\ r.amount = req[p].amount
    BY <1>g, <1>p, GotoFields
  <2>2. step = "validate.lock" => r.amount \in Bets
    BY <1>g, <2>1 DEF At, RecordInv, RecordRequest
  <2> QED
    BY <1>g, <1>k, <2>1, <2>2
<1>1. ASSUME NEW amount \in Bets, ValidateFind(p, amount) PROVE RecordInv(p)'
  <2>1. PICK r : /\ req' = [req EXCEPT ![p] = r] /\ r.amount = amount
                 /\ r.at \in {"validate.create", "validate.lock"}
    <3> DEFINE a == [Idle EXCEPT !.at = "validate.create", !.doc = AutoCreated(second),
                                 !.amount = amount]
               b == [Idle EXCEPT !.at = "validate.lock", !.doc = db, !.amount = amount]
    <3>1. /\ a.amount = amount /\ a.at = "validate.create"
          /\ b.amount = amount /\ b.at = "validate.lock"
      BY DEF Idle
    <3>2. req' = [req EXCEPT ![p] = a] \/ req' = [req EXCEPT ![p] = b]
      BY <1>1 DEF ValidateFind
    <3> HIDE DEF a, b
    <3> QED
      BY <3>1, <3>2
  <2> QED
    BY <1>1, <1>k, <2>1 DEF ValidateFind
<1>2. CASE ValidateCreate(p)
  BY <1>2, <1>g, <1>i DEF ValidateCreate, Upsert, Steps
<1>3. CASE ValidateLock(p)
  <2> DEFINE t == [n |-> Cardinality(issued) + 1, gen |-> gen,
                   version |-> req[p].doc.version,
                   amount |-> req[p].amount,
                   bonusUsed |-> BonusUsed(req[p].doc, req[p].amount),
                   realUsed |-> RealUsed(req[p].doc, req[p].amount),
                   realBefore |-> req[p].doc.real, bonusBefore |-> req[p].doc.bonus]
  <2>1. /\ t.n = Cardinality(issued) + 1 /\ tickets' = tickets \cup {t}
        /\ history' = history /\ req' = [req EXCEPT ![p] = Idle]
    BY <1>3 DEF ValidateLock, Finish
  <2> HIDE DEF t
  <2>2. \A h \in history : h.n # t.n
    <3>1. Cardinality(issued) \in Nat /\ \A h \in history : h.n \in Nat
      BY FS_CardinalityType DEF TypeInv, TypeOK, Wager
    <3> QED
      BY <2>1, <3>1 DEF NumberInv
  <2>3. req'[p] = Idle
    BY <1>p, <1>t, <2>1
  <2> QED
    BY <2>1, <2>2, <2>3, IdleType DEF RecordInv, RecordRequest
<1>4. ASSUME NEW t \in tickets, NEW payout \in Payouts, PlaceFind(p, t, payout)
      PROVE  RecordInv(p)'
  <2> DEFINE r == [Idle EXCEPT !.at = "place.insert", !.doc = db,
                               !.ticket = t, !.payout = payout]
  <2>1. r.at = "place.insert" /\ r.ticket = t /\ r.payout = payout
    BY DEF Idle
  <2>2. req'[p] = r /\ history' = history /\ tickets' = tickets \ {t}
    BY <1>4, <1>p, <1>t DEF PlaceFind
  <2> HIDE DEF r
  <2> QED
    BY <2>1, <2>2 DEF RecordInv, RecordRequest
<1>5. CASE PlaceInsert(p)
  <2> DEFINE t == req[p].ticket
             y == req[p].payout
             e == Placed(req[p].doc, t, y)
             x == [n |-> t.n, amount |-> t.amount, payout |-> y,
                   bonusId |-> req[p].doc.active.id, bonusUsed |-> t.bonusUsed,
                   realUsed |-> t.realUsed, realBefore |-> t.realBefore,
                   realAfter |-> e.real, bonusBefore |-> t.bonusBefore,
                   bonusAfter |-> e.bonus]
  <2>1. /\ history' = history \cup {x} /\ tickets' = tickets /\ At(p, "place.insert")
        /\ x.n = t.n /\ x.amount = t.amount /\ x.payout = y /\ Goto(p, "place.update")
    BY <1>5 DEF PlaceInsert
  <2>2. t \in issued
    BY <1>p, <2>1, PlacingRequest DEF At
  <2>3. PICK r : /\ req' = [req EXCEPT ![p] = r] /\ r.at = "place.update"
                 /\ r.ticket = t /\ r.payout = y
    BY <1>p, <2>1, GotoFields DEF Steps
  <2>4. req'[p] = r
    BY <1>p, <1>t, <2>3
  <2>5. t \notin tickets /\ y \in Payouts /\ \A h \in history : h.n # t.n
    BY <2>1 DEF RecordInv, RecordRequest, At
  <2> HIDE DEF t, y, e, x
  <2>6. \A s \in tickets : s.n # t.n
    BY <1>t, <2>2, <2>5 DEF NumberInv
  <2>7. RecordRequest(r)'
    BY <2>1, <2>3, <2>5 DEF RecordRequest
  <2>8. \A h \in history', s \in tickets' : h.n # s.n
    BY <2>1, <2>6 DEF RecordInv
  <2> QED
    BY <2>4, <2>7, <2>8 DEF RecordInv, RecordRequest
<1>6. CASE \/ ValidateLockLost(p) \/ PlaceUpdate(p) \/ ClaimCreate(p) \/ ClaimUpdate(p)
           \/ ProgressCreate(p) \/ ConvertUpdate(p)
  BY <1>6, <1>i DEF ValidateLockLost, PlaceUpdate, ClaimCreate, ClaimUpdate,
     ProgressCreate, ConvertUpdate, Upsert
<1>7. CASE ConvertStats(p) \/ ConvertInsert(p)
  BY <1>7, <1>g, <1>i DEF ConvertStats, ConvertInsert, Steps
<1>8. CASE ClaimFind(p)
  <2>1. CASE db = NoDoc
    BY <1>8, <1>k, <2>1 DEF ClaimFind, Idle
  <2>2. CASE db # NoDoc
    BY <1>8, <1>k, <2>2 DEF ClaimFind, Idle
  <2> QED
    BY <2>1, <2>2
<1>9. CASE ProgressFind(p) \/ ConvertFind(p)
  BY <1>9, <1>k DEF ProgressFind, ConvertFind, Idle
<1>10. CASE Tick \/ UNCHANGED vars
  BY <1>10 DEF Tick, vars, RecordInv, RecordRequest
<1> QED
  BY <1>p, <1>q, <1>1, <1>2, <1>3, <1>4, <1>5, <1>6, <1>7, <1>8, <1>9, <1>10
     DEF Next, Serve, ReadOnly

\* The wagers and the grants of the ledger, as the refinement maps them.
Recorded == {[n |-> h.n, amount |-> h.amount, payout |-> h.payout] :
               h \in {x \in history : \A t \in Unflushed : t.n # x.n}}
Granted == {Bare(t) : t \in tickets \cup Unflushed}

\* A step of the service that leaves these alone is none of the ledger's.
LEMMA LedgerStutter ==
  ASSUME db' = db, issued' = issued, Recorded' = Recorded, Granted' = Granted
  PROVE  UNCHANGED Ledger!vars
  BY DEF Ledger!vars, Recorded, Granted

\* Settling looks at the stake and its split only.
LEMMA BareSettles ==
  ASSUME NEW d, NEW t \in Ticket, NEW payout
  PROVE  /\ Placed(d, Bare(t), payout) = Placed(d, t, payout)
         /\ Bare(t).n = t.n /\ Bare(t).amount = t.amount
<1> DEFINE b == Bare(t)
<1>1. /\ b.n = t.n /\ b.amount = t.amount /\ b.bonusUsed = t.bonusUsed
      /\ b.realUsed = t.realUsed
  BY DEF Bare
<1> HIDE DEF b
<1>2. Placed(d, b, payout) = Placed(d, t, payout)
  BY <1>1 DEF Placed
<1> QED
  BY <1>1, <1>2 DEF b

\* The wager being placed by the one worker, if any.
LEMMA UnflushedAlone ==
  ASSUME NEW p, Workers = {p}
  PROVE  Unflushed = IF req[p].at \in {"place.insert", "place.update"}
                     THEN {req[p].ticket} ELSE {}
  BY DEF Unflushed, Placing

\* Every step of the one worker is a step of the ledger, or none.
LEMMA LedgerStep ==
  ASSUME NEW p, Workers = {p}, Failures = FALSE, TypeInv, TypeInv', CoverInv, NumberInv,
         AloneInv(p), RecordInv(p), [Next]_vars
  PROVE  [Ledger!Next]_Ledger!vars
<1> USE DEF ghosts
<1>p. p \in Workers /\ \A w \in Workers : w = p
  OBVIOUS
<1>t. /\ req \in [Workers -> Request] /\ tickets \subseteq issued
      /\ \A s \in issued : s \in Ticket
  BY DEF TypeInv, TypeOK
<1>n. NoDoc \notin Doc
  BY WagerAssumption
<1>q. ~RequestFails(p)
  BY DEF RequestFails
<1>u. Unflushed = IF req[p].at \in {"place.insert", "place.update"}
                  THEN {req[p].ticket} ELSE {}
  BY UnflushedAlone
<1>v. Unflushed' = IF req'[p].at \in {"place.insert", "place.update"}
                   THEN {req'[p].ticket} ELSE {}
  BY DEF Unflushed, Placing
<1>i. Idle.at \notin {"place.insert", "place.update"}
  BY IdleType
\* Steps around which no wager is being placed.
<1>o. ASSUME NEW r, req' = [req EXCEPT ![p] = r],
             r.at \notin {"place.insert", "place.update"},
             req[p].at \notin {"place.insert", "place.update"}
      PROVE  Unflushed = {} /\ Unflushed' = {}
  <2>1. req'[p] = r
    BY <1>o, <1>p, <1>t
  <2> QED
    BY <1>o, <1>u, <1>v, <2>1
<1>s. ASSUME UNCHANGED <<db, history, tickets, issued>>, Unflushed' = Unflushed
      PROVE  UNCHANGED Ledger!vars
  BY <1>s, LedgerStutter DEF Recorded, Granted
<1>1. CASE \/ \E amount \in Bets : ValidateFind(p, amount)
           \/ ClaimFind(p) \/ ProgressFind(p) \/ ConvertFind(p)
  <2>1. PICK r : /\ req' = [req EXCEPT ![p] = r]
                 /\ r.at \notin {"place.insert", "place.update"}
    <3> DEFINE R == {[Idle EXCEPT !.at = "validate.create", !.doc = AutoCreated(second),
                                  !.amount = amount] : amount \in Bets}
                    \cup {[Idle EXCEPT !.at = "validate.lock", !.doc = db,
                                       !.amount = amount] : amount \in Bets}
                    \cup {[Idle EXCEPT !.at = "claim.create",
                                       !.doc = Claimed(NewUser, second)],
                          [Idle EXCEPT !.at = "claim.update", !.doc = db, !.id = second],
                          [Idle EXCEPT !.at = "progress.create",
                                       !.doc = AutoCreated(second)],
                          [Idle EXCEPT !.at = "convert.stats", !.doc = db]}
    <3>1. \A r \in R : r.at \notin {"place.insert", "place.update"}
      BY DEF Idle
    <3>2. \E r \in R : req' = [req EXCEPT ![p] = r]
      BY <1>1 DEF ValidateFind, ClaimFind, ProgressFind, ConvertFind
    <3> HIDE DEF R
    <3> QED
      BY <3>1, <3>2
  <2>2. req[p].at = "idle" /\ UNCHANGED <<db, history, tickets, issued>>
    BY <1>1 DEF ValidateFind, ClaimFind, ProgressFind, ConvertFind, At
  <2> QED
    BY <1>o, <1>s, <2>1, <2>2
<1>2. CASE ValidateLockLost(p) \/ ConvertStats(p) \/ ConvertInsert(p)
  <2>1. /\ req[p].at \in {"validate.lock", "convert.stats", "convert.insert"}
        /\ UNCHANGED <<db, history, tickets, issued>>
        /\ Finish(p) \/ Goto(p, "convert.insert") \/ Goto(p, "convert.update")
    BY <1>2 DEF ValidateLockLost, ConvertStats, ConvertInsert, At
  <2>2. PICK r : /\ req' = [req EXCEPT ![p] = r]
                 /\ r.at \notin {"place.insert", "place.update"}
    <3>1. CASE Finish(p)
      BY <1>i, <3>1 DEF Finish
    <3>2. CASE Goto(p, "convert.insert") \/ Goto(p, "convert.update")
      BY <1>p, <3>2, GotoFields DEF Steps
    <3> QED
      BY <2>1, <3>1, <3>2
  <2> QED
    BY <1>o, <1>s, <2>1, <2>2
\* A creation opens the account.
<1>3. CASE ValidateCreate(p) \/ ClaimCreate(p) \/ ProgressCreate(p)
  <2>1. /\ req[p].at \in Creating /\ db' = req[p].doc
        /\ UNCHANGED <<history, tickets, issued>>
        /\ Finish(p) \/ Goto(p, "validate.lock")
    BY <1>3 DEF ValidateCreate, ClaimCreate, ProgressCreate, At, Creating, Upsert
  <2>2. PICK s \in 1 .. MaxSecond :
          db = NoDoc /\ db' \in {AutoCreated(s), Claimed(NewUser, s)}
    BY <2>1 DEF AloneInv, AloneRequest, Built
  <2>3. PICK r : /\ req' = [req EXCEPT ![p] = r]
                 /\ r.at \notin {"place.insert", "place.update"}
    <3>1. CASE Finish(p)
      BY <1>i, <3>1 DEF Finish
    <3>2. CASE Goto(p, "validate.lock")
      BY <1>p, <3>2, GotoFields DEF Steps
    <3> QED
      BY <2>1, <3>1, <3>2
  <2>4. Unflushed = {} /\ Unflushed' = {}
    BY <1>o, <2>1, <2>3 DEF Creating
  <2>5. Recorded' = Recorded /\ Granted' = Granted /\ issued' = issued
    BY <2>1, <2>4 DEF Recorded, Granted
  <2>6. db' \in {Ledger!AutoCreated(s), Ledger!Claimed(Ledger!NewUser, s)}
    BY <2>2, LedgerOperators
  <2>7. Ledger!Open(s)
    BY <2>2, <2>5, <2>6 DEF Ledger!Open, Recorded, Granted
  <2> QED
    BY <2>7 DEF Ledger!Next
\* The lock grants the wager: the document is still the one that was read.
<1>4. CASE ValidateLock(p)
  <2> DEFINE d == req[p].doc
             a == req[p].amount
             t == [n |-> Cardinality(issued) + 1, gen |-> gen, version |-> d.version,
                   amount |-> a, bonusUsed |-> BonusUsed(d, a),
                   realUsed |-> RealUsed(d, a),
                   realBefore |-> d.real, bonusBefore |-> d.bonus]
  <2>1. /\ At(p, "validate.lock") /\ db' = [db EXCEPT !.version = @ + 1]
        /\ tickets' = tickets \cup {t} /\ issued' = issued \cup {t}
        /\ history' = history /\ req' = [req EXCEPT ![p] = Idle]
    BY <1>4 DEF ValidateLock, Finish
  <2>2. d = db /\ db # NoDoc
    BY <1>p, <2>1 DEF At, AloneInv, AloneRequest, NeedsUser, Steps, Creating,
       TypeInv, RequestOK
  <2>3. CanWager(db, a) /\ a \in Bets
    BY <1>p, <2>1, <2>2 DEF CoverInv, RecordInv, RecordRequest, At
  <2>4. /\ t.n = Cardinality(issued) + 1
        /\ Bare(t) = [n |-> Cardinality(issued) + 1, amount |-> a,
                      bonusUsed |-> BonusUsed(db, a), realUsed |-> RealUsed(db, a)]
    BY <2>2 DEF Bare
  <2> HIDE DEF t, d, a
  <2>5. Unflushed = {} /\ Unflushed' = {}
    BY <1>i, <1>o, <2>1 DEF At
  <2>6. Recorded' = Recorded /\ Granted' = Granted \cup {Bare(t)}
    BY <2>1, <2>5 DEF Recorded, Granted
  <2>7. Cardinality(issued') = Cardinality(issued) + 1
    <3>1. Cardinality(issued) \in Nat /\ \A s \in issued : s.n \in Nat
      BY <1>t, FS_CardinalityType DEF TypeInv, Ticket
    <3>2. t \notin issued
      BY <2>4, <3>1 DEF NumberInv
    <3> QED
      BY <2>1, <3>2, FS_AddElement DEF TypeInv
  <2>8. Ledger!Grant(a)
    <3> DEFINE g == [n |-> Cardinality(issued) + 1, amount |-> a,
                     bonusUsed |-> Ledger!BonusUsed(db, a),
                     realUsed |-> Ledger!RealUsed(db, a)]
    <3>1. g = Bare(t) /\ Ledger!CanWager(db, a)
      BY <2>3, <2>4, LedgerOperators
    <3>2. Granted' = Granted \cup {g}
      BY <2>6, <3>1
    <3> QED
      BY <2>1, <2>2, <2>6, <2>7, <3>1, <3>2 DEF Ledger!Grant, Recorded, Granted
  <2> QED
    BY <2>3, <2>8 DEF Ledger!Next
\* A wager being placed stays granted, and its record does not count yet.
<1>5. ASSUME NEW t \in tickets, NEW payout \in Payouts, PlaceFind(p, t, payout)
      PROVE  UNCHANGED Ledger!vars
  <2> DEFINE r == [Idle EXCEPT !.at = "place.insert", !.doc = db,
                               !.ticket = t, !.payout = payout]
  <2>1. r.at = "place.insert" /\ r.ticket = t
    BY DEF Idle
  <2>2. /\ req'[p] = r /\ tickets' = tickets \ {t} /\ At(p, "idle")
        /\ UNCHANGED <<db, history, issued>>
    BY <1>5, <1>p, <1>t DEF PlaceFind
  <2> HIDE DEF r
  <2>3. Unflushed = {} /\ Unflushed' = {t}
    BY <1>u, <1>v, <2>1, <2>2 DEF At
  <2>4. tickets' \cup Unflushed' = tickets \cup Unflushed
    BY <2>2, <2>3
  <2>5. \A x \in history : t.n # x.n
    BY DEF RecordInv
  <2>6. Granted' = Granted
    BY <2>4 DEF Granted
  <2>7. Recorded' = Recorded
    BY <2>2, <2>3, <2>5 DEF Recorded
  <2> QED
    BY <2>2, <2>6, <2>7, LedgerStutter
<1>6. CASE PlaceInsert(p)
  <2> DEFINE t == req[p].ticket
             e == Placed(req[p].doc, t, req[p].payout)
             x == [n |-> t.n, amount |-> t.amount, payout |-> req[p].payout,
                   bonusId |-> req[p].doc.active.id, bonusUsed |-> t.bonusUsed,
                   realUsed |-> t.realUsed, realBefore |-> t.realBefore,
                   realAfter |-> e.real, bonusBefore |-> t.bonusBefore,
                   bonusAfter |-> e.bonus]
  <2>1. /\ history' = history \cup {x} /\ x.n = t.n /\ At(p, "place.insert")
        /\ Goto(p, "place.update") /\ UNCHANGED <<db, tickets, issued>>
    BY <1>6 DEF PlaceInsert
  <2>2. PICK r : /\ req' = [req EXCEPT ![p] = r] /\ r.at = "place.update"
                 /\ r.ticket = t
    BY <1>p, <2>1, GotoFields DEF Steps
  <2>3. req'[p] = r
    BY <1>p, <1>t, <2>2
  <2> HIDE DEF e, x
  <2>4. Unflushed = {t} /\ Unflushed' = {t}
    BY <1>u, <1>v, <2>1, <2>2, <2>3 DEF At
  <2>5. Granted' = Granted
    BY <2>1, <2>4 DEF Granted
  <2>6. {y \in history' : \A s \in Unflushed' : s.n # y.n}
          = {y \in history : \A s \in Unflushed : s.n # y.n}
    BY <2>1, <2>4
  <2>7. Recorded' = Recorded
    BY <2>6 DEF Recorded
  <2> QED
    BY <2>1, <2>5, <2>7, LedgerStutter
\* The update settles it.
<1>7. CASE PlaceUpdate(p)
  <2>1. PICK t, y : t = req[p].ticket /\ y = req[p].payout
    OBVIOUS
  <2>2. db \in Doc /\ t \in Ticket /\ db' = Placed(db, t, y) /\ At(p, "place.update")
    BY <1>7, <1>p, <2>1, PlaceAlone DEF PlaceUpdate
  <2>3. UNCHANGED <<history, tickets, issued>> /\ req'[p] = Idle
    BY <1>7, <1>p, <1>t DEF PlaceUpdate, Finish
  <2>4. Unflushed = {t} /\ Unflushed' = {}
    BY <1>i, <1>u, <1>v, <2>1, <2>2, <2>3 DEF At
  <2>5. /\ y \in Payouts /\ t \notin tickets /\ \E h \in history : h.n = t.n
        /\ \A h \in history : h.n = t.n => h.amount = t.amount /\ h.payout = y
    BY <2>1, <2>2 DEF RecordInv, RecordRequest, At
  <2>6. t \in issued
    BY <1>p, <2>1, <2>2, PlacingRequest DEF At
  <2> DEFINE rec(h) == [n |-> h.n, amount |-> h.amount, payout |-> h.payout]
             b == Bare(t)
  <2>7. b.n = t.n /\ b.amount = t.amount /\ Placed(db, b, y) = Placed(db, t, y)
    BY <2>2, BareSettles
  <2>8. Recorded' = {rec(h) : h \in history}
    BY <2>3, <2>4 DEF Recorded
  <2>9. Recorded = {rec(h) : h \in {x \in history : t.n # x.n}}
    BY <2>4 DEF Recorded
  <2>10. \A h \in history : h.n = t.n => rec(h) = [n |-> t.n, amount |-> t.amount, payout |-> y]
    BY <2>5
  <2>11. Recorded' = Recorded \cup {[n |-> t.n, amount |-> t.amount, payout |-> y]}
    BY <2>5, <2>8, <2>9, <2>10
  <2>12. \A s \in tickets : Bare(s) # b
    <3>1. \A s \in tickets : s.n # t.n
      BY <1>t, <2>5, <2>6 DEF NumberInv
    <3>2. \A s \in tickets : Bare(s).n = s.n
      BY DEF Bare
    <3> HIDE DEF b
    <3> QED
      BY <2>7, <3>1, <3>2
  <2>13. Granted' = {Bare(s) : s \in tickets} /\ Granted = {Bare(s) : s \in tickets \cup {t}}
    BY <2>3, <2>4 DEF Granted
  <2>14. Granted' = Granted \ {b} /\ b \in Granted
    BY <2>12, <2>13
  <2>15. Ledger!Settle(b, y)
    <3>1. db' = Ledger!Placed(db, b, y)
      BY <2>2, <2>7, LedgerOperators
    <3>2. Recorded' = Recorded \cup {[n |-> b.n, amount |-> b.amount, payout |-> y]}
      BY <2>7, <2>11
    <3> HIDE DEF b, rec
    <3> QED
      BY <2>3, <2>14, <3>1, <3>2 DEF Ledger!Settle, Recorded, Granted
  <2>16. \E g \in Granted, payout \in Payouts : Ledger!Settle(g, payout)
    BY <2>5, <2>14, <2>15
  <2> QED
    BY <2>16 DEF Ledger!Next, Granted
\* A claim and a conversion are steps of their own.
<1>8. CASE ClaimUpdate(p) \/ ConvertUpdate(p)
  <2>1. /\ req' = [req EXCEPT ![p] = Idle] /\ UNCHANGED <<history, tickets, issued>>
        /\ req[p].at \in {"claim.update", "convert.update"}
    BY <1>8 DEF ClaimUpdate, ConvertUpdate, Finish, At
  <2>2. Unflushed = {} /\ Unflushed' = {}
    BY <1>i, <1>o, <2>1
  <2>3. Recorded' = Recorded /\ Granted' = Granted
    BY <2>1, <2>2 DEF Recorded, Granted
  <2>4. db \in Doc /\ db # NoDoc
    BY <1>8, <1>n, <1>p, BonusAlone
  <2>5. CASE ClaimUpdate(p)
    <3>1. /\ db' = Ledger!Claimed(db, req[p].id) /\ db.active.kind = "none"
          /\ req[p].id \in 1 .. MaxSecond
      BY <1>p, <2>5, BonusAlone, LedgerOperators
         DEF ClaimUpdate, At, AloneInv, AloneRequest
    <3>2. Ledger!Claim(req[p].id)
      BY <2>1, <2>3, <2>4, <3>1 DEF Ledger!Claim, Recorded, Granted
    <3> QED
      BY <3>1, <3>2 DEF Ledger!Next
  <2>6. CASE ConvertUpdate(p)
    <3>1. db' = Ledger!Converted(db) /\ Convertible(db)
      BY <1>p, <2>6, BonusAlone, LedgerOperators
         DEF ConvertUpdate, At, AloneInv, AloneRequest
    <3>2. db.active.kind = "whole" /\ Ledger!IsComplete(db.active)
      BY <3>1, LedgerOperators DEF Convertible
    <3>3. Ledger!Convert
      BY <2>1, <2>3, <2>4, <3>1, <3>2 DEF Ledger!Convert, Recorded, Granted
    <3> QED
      BY <3>3 DEF Ledger!Next
  <2> QED
    BY <1>8, <2>5, <2>6
<1>9. CASE Tick \/ UNCHANGED vars
  <2>1. UNCHANGED <<db, history, tickets, issued, req>>
    BY <1>9 DEF Tick, vars
  <2>2. Unflushed' = Unflushed
    BY <2>1 DEF Unflushed, Placing
  <2> QED
    BY <1>s, <2>1, <2>2
<1> QED
  BY <1>p, <1>q, <1>1, <1>2, <1>3, <1>4, <1>5, <1>6, <1>7, <1>8, <1>9
     DEF Next, Serve, ReadOnly

\* With one worker and no failure the service implements the ledger of indivisible
\* operations: validateWager, placeWager, claimWelcomeBonus, getProgress and
\* convertBonusToReal take effect in one step each, whatever they write and when.
THEOREM LedgerImplemented ==
  ASSUME NEW p, Workers = {p}, Failures = FALSE
  PROVE  Spec => ImplementsLedger
<1>1. Init => CoverInv /\ NumberInv /\ AloneInv(p) /\ RecordInv(p)
  <2> SUFFICES ASSUME Init PROVE CoverInv /\ NumberInv /\ AloneInv(p) /\ RecordInv(p)
    OBVIOUS
  <2>1. req[p] = Idle
    BY DEF Init
  <2> QED
    BY <2>1, IdleType, WagerAssumption
       DEF Init, CoverInv, At, NumberInv, AloneInv, AloneRequest, Books, NeedsUser,
           Creating, RecordInv, RecordRequest
<1>2. TypeInv /\ TypeInv' /\ CoverInv /\ AloneInv(p) /\ [Next]_vars => AloneInv(p)'
  BY AloneNext
<1>3. TypeInv /\ NumberInv /\ RecordInv(p) /\ [Next]_vars => RecordInv(p)'
  BY RecordNext
<1>4. TypeInv /\ TypeInv' /\ CoverInv /\ NumberInv /\ AloneInv(p) /\ RecordInv(p)
        /\ [Next]_vars => [Ledger!Next]_Ledger!vars
  BY LedgerStep
<1>5. Init => Ledger!Init
  <2> SUFFICES ASSUME Init PROVE Ledger!Init
    OBVIOUS
  <2>1. Unflushed = {}
    BY IdleType DEF Init, Unflushed, Placing
  <2> QED
    BY <2>1, FS_EmptySet DEF Init, Ledger!Init
<1> QED
  BY <1>1, <1>2, <1>3, <1>4, <1>5, TypeInvariant, CoverNext, NumberNext, PTL
     DEF Spec, ImplementsLedger, Ledger!Spec
==============================================================================
