----------------------------- MODULE WagerService -----------------------------
(***************************************************************************)
(* The wager service: PHP-FPM workers that serve validate, place, claim,   *)
(* progress and convert requests about ONE user against MongoDB.  Requests *)
(* about different users touch different documents, and nothing else is    *)
(* shared.  A step is one database operation: between two of them another  *)
(* worker may run, and a request may end there with an exception or be     *)
(* killed (request_terminate_timeout).  No operation deletes a document.   *)
(*                                                                         *)
(* FilterByIdOnly, PlaceWithoutRecord, ClaimAgain, StartedBonus,           *)
(* WinningWagersOf and ConvertUnrecorded are no part of the specification: *)
(* each is a faulty form of the definition after it, which the properties  *)
(* must refute.                                                            *)
(***************************************************************************)
EXTENDS UserBonus, FiniteSets

CONSTANTS Workers,      \* the FPM children (pm.max_children)
          Bets,         \* amounts a spin stakes
          Payouts,      \* amounts a spin pays
          Failures,     \* whether a request can end between two operations
          MaxTickets,   \* bound: validations granted
          MaxOpen,      \* bound: wagers validated, or being validated, not yet placed
          MaxConversions, \* bound: conversions recorded
          MaxSecond,    \* bound: wall-clock seconds in which bonuses are built
          NoDoc,        \* no user document
          NoTicket      \* no validation data

ASSUME WagerAssumption ==
  /\ Bets \subseteq Nat \ {0}
  /\ Payouts \subseteq Nat
  /\ Failures \in BOOLEAN
  /\ MaxTickets \in Nat /\ MaxOpen \in Nat
  /\ MaxConversions \in Nat /\ MaxSecond \in Nat \ {0}
  /\ NoDoc \notin Doc

VARIABLES
  db,           \* the user's document in user_bonuses
  history,      \* the user's documents in wager_history
  conversions,  \* the user's documents in bonus_conversions
  tickets,      \* validation data a client holds and has not placed
  req,          \* what each worker is doing
  second,       \* the wall clock
  issued,       \* ghost: every validation data ever returned
  gen,          \* ghost: how often db was upserted
  staked,       \* ghost: the sum of the amounts in history
  paid,         \* ghost: the sum of the payouts in history
  credited      \* ghost: money the flushes of creations, claims, conversions added

ghosts == <<issued, gen, staked, paid, credited>>
vars == <<db, history, conversions, tickets, req, second, ghosts>>

\* The array validateWager returns: the deduction, and the balances it was
\* computed from.  n tells two equal arrays apart.
Ticket == [n : Nat, gen : Nat, version : Nat, amount : Nat, bonusUsed : Int,
           realUsed : Int, realBefore : Int, bonusBefore : Int]

Wager == [n : Nat, amount : Nat, payout : Nat, bonusId : Nat, bonusUsed : Int,
          realUsed : Int, realBefore : Int, realAfter : Int, bonusBefore : Int,
          bonusAfter : Int]

Conversion == [n : Nat, bonusId : Nat, wagered : Nat]

Steps == {"idle", "validate.create", "validate.lock", "place.insert", "place.update",
          "claim.create", "claim.update", "progress.create",
          "convert.stats", "convert.insert", "convert.update"}

\* A worker's request: its next operation, the document it found (or built, at
\* a create), and its arguments; id is the second a claim built its bonus in.
Request == [at : Steps, doc : Doc \cup {NoDoc}, amount : Nat,
            ticket : Ticket \cup {NoTicket}, payout : Nat, id : Nat]

Idle == [at |-> "idle", doc |-> NoDoc, amount |-> 0, ticket |-> NoTicket,
         payout |-> 0, id |-> 0]

Init ==
  /\ db = NoDoc
  /\ history = {} /\ conversions = {} /\ tickets = {}
  /\ req = [w \in Workers |-> Idle]
  /\ second = 1
  /\ issued = {} /\ gen = 0 /\ staked = 0 /\ paid = 0 /\ credited = 0

At(w, step) == req[w].at = step
Goto(w, step) == req' = [req EXCEPT ![w].at = step]
Finish(w) == req' = [req EXCEPT ![w] = Idle]

\* An upsert sets every field of the document: it replaces whatever is there.
Upsert(d) == /\ db' = d
             /\ gen' = gen + 1
             /\ credited' = credited + d.total

Flush(w, new) == db' = Flushed(db, req[w].doc, new)

Validating == {w \in Workers : req[w].at \in {"validate.create", "validate.lock"}}
Placing    == {w \in Workers : req[w].at \in {"place.insert", "place.update"}}
Converting == {w \in Workers : req[w].at \in {"convert.stats", "convert.insert"}}
Open == Cardinality(tickets) + Cardinality(Validating) + Cardinality(Placing)

------------------------------------------------------------------------------
(***************************************************************************)
(* WagerService::validateWager.  A refused wager changes nothing.          *)
(***************************************************************************)
ValidateFind(w, amount) ==
  /\ At(w, "idle")
  /\ Open < MaxOpen
  /\ Cardinality(issued) + Cardinality(Validating) < MaxTickets
  /\ IF db = NoDoc
     THEN req' = [req EXCEPT ![w] = [Idle EXCEPT !.at = "validate.create",
                                                 !.doc = AutoCreated(second),
                                                 !.amount = amount]]
     ELSE /\ CanWager(db, amount)
          /\ req' = [req EXCEPT ![w] = [Idle EXCEPT !.at = "validate.lock",
                                                    !.doc = db, !.amount = amount]]
  /\ UNCHANGED <<db, history, conversions, tickets, second, ghosts>>

ValidateCreate(w) ==
  /\ At(w, "validate.create")
  /\ Upsert(req[w].doc)
  /\ IF CanWager(req[w].doc, req[w].amount) THEN Goto(w, "validate.lock") ELSE Finish(w)
  /\ UNCHANGED <<history, conversions, tickets, second, issued, staked, paid>>

\* The filter {_id, version} of the "lock" finds the document.
FilterByIdOnly(w) == TRUE
VersionMatches(w) == db.version = req[w].doc.version

\* updateOne({_id, version}, {$inc: {version: 1}}) and the array returned.
ValidateLock(w) ==
  LET d == req[w].doc
      t == [n |-> Cardinality(issued) + 1, gen |-> gen, version |-> d.version,
            amount |-> req[w].amount, bonusUsed |-> BonusUsed(d, req[w].amount),
            realUsed |-> RealUsed(d, req[w].amount),
            realBefore |-> d.real, bonusBefore |-> d.bonus]
  IN  /\ At(w, "validate.lock")
      /\ VersionMatches(w)
      /\ db' = [db EXCEPT !.version = @ + 1]
      /\ tickets' = tickets \cup {t}
      /\ issued' = issued \cup {t}
      /\ Finish(w)
      /\ UNCHANGED <<history, conversions, second, gen, staked, paid, credited>>

\* ConcurrentWagerException: 'Another wager is in progress'.
ValidateLockLost(w) ==
  /\ At(w, "validate.lock")
  /\ ~VersionMatches(w)
  /\ Finish(w)
  /\ UNCHANGED <<db, history, conversions, tickets, second, ghosts>>

------------------------------------------------------------------------------
(***************************************************************************)
(* WagerService::placeWager.  The client places validation data at most    *)
(* once.  A partial bonus throws before anything is written.  The flush    *)
(* inserts the history record and then updates the user, two operations.   *)
(* Validation data exists, so the user does (no operation deletes one):    *)
(* the creation in placeWager never runs.                                  *)
(***************************************************************************)
PlaceWithoutRecord(w, t, payout) ==
  /\ At(w, "idle")
  /\ t \in tickets
  /\ db.active.kind # "partial"
  /\ tickets' = tickets \ {t}
  /\ req' = [req EXCEPT ![w] = [Idle EXCEPT !.at = "place.update", !.doc = db,
                                            !.ticket = t, !.payout = payout]]
  /\ UNCHANGED <<db, history, conversions, second, ghosts>>

PlaceFind(w, t, payout) ==
  /\ At(w, "idle")
  /\ t \in tickets
  /\ db.active.kind # "partial"
  /\ tickets' = tickets \ {t}
  /\ req' = [req EXCEPT ![w] = [Idle EXCEPT !.at = "place.insert", !.doc = db,
                                            !.ticket = t, !.payout = payout]]
  /\ UNCHANGED <<db, history, conversions, second, ghosts>>

PlaceInsert(w) ==
  LET t == req[w].ticket
      d == req[w].doc
      e == Placed(d, t, req[w].payout)
  IN  /\ At(w, "place.insert")
      /\ history' = history \cup
           {[n |-> t.n, amount |-> t.amount, payout |-> req[w].payout,
             bonusId |-> d.active.id, bonusUsed |-> t.bonusUsed, realUsed |-> t.realUsed,
             realBefore |-> t.realBefore, realAfter |-> e.real,
             bonusBefore |-> t.bonusBefore, bonusAfter |-> e.bonus]}
      /\ staked' = staked + t.amount
      /\ paid' = paid + req[w].payout
      /\ Goto(w, "place.update")
      /\ UNCHANGED <<db, conversions, tickets, second, issued, gen, credited>>

PlaceUpdate(w) ==
  /\ At(w, "place.update")
  /\ Flush(w, Placed(req[w].doc, req[w].ticket, req[w].payout))
  /\ Finish(w)
  /\ UNCHANGED <<history, conversions, tickets, second, ghosts>>

------------------------------------------------------------------------------
(***************************************************************************)
(* BonusService::claimWelcomeBonus: refused only while a bonus is active.  *)
(* BonusService::getProgress: creates the user too, else only reads.       *)
(***************************************************************************)
ClaimAgain(w) ==
  /\ At(w, "idle")
  /\ db # NoDoc
  /\ req' = [req EXCEPT ![w] = [Idle EXCEPT !.at = "claim.update",
                                            !.doc = db, !.id = second]]
  /\ UNCHANGED <<db, history, conversions, tickets, second, ghosts>>

ClaimFind(w) ==
  /\ At(w, "idle")
  /\ IF db = NoDoc
     THEN req' = [req EXCEPT ![w] = [Idle EXCEPT !.at = "claim.create",
                                                 !.doc = Claimed(NewUser, second)]]
     ELSE /\ db.active.kind = "none"
          /\ req' = [req EXCEPT ![w] = [Idle EXCEPT !.at = "claim.update",
                                                    !.doc = db, !.id = second]]
  /\ UNCHANGED <<db, history, conversions, tickets, second, ghosts>>

ClaimCreate(w) ==
  /\ At(w, "claim.create")
  /\ Upsert(req[w].doc)
  /\ Finish(w)
  /\ UNCHANGED <<history, conversions, tickets, second, issued, staked, paid>>

ClaimUpdate(w) ==
  LET d == Claimed(req[w].doc, req[w].id)
  IN  /\ At(w, "claim.update")
      /\ Flush(w, d)
      /\ credited' = credited + (d.total - req[w].doc.total)
      /\ Finish(w)
      /\ UNCHANGED <<history, conversions, tickets, second, issued, gen, staked, paid>>

ProgressFind(w) ==
  /\ At(w, "idle")
  /\ db = NoDoc
  /\ req' = [req EXCEPT ![w] = [Idle EXCEPT !.at = "progress.create",
                                            !.doc = AutoCreated(second)]]
  /\ UNCHANGED <<db, history, conversions, tickets, second, ghosts>>

ProgressCreate(w) ==
  /\ At(w, "progress.create")
  /\ Upsert(req[w].doc)
  /\ Finish(w)
  /\ UNCHANGED <<history, conversions, tickets, second, issued, staked, paid>>

------------------------------------------------------------------------------
(***************************************************************************)
(* BonusService::convertBonusToReal.  A missing bonus, an incomplete one   *)
(* and a partial one end the request.  The statistics query counts the     *)
(* history records of the bonus; when there is one, setTotalWagers reads   *)
(* the uninitialized winningWagers: an \Error no catch clause stops.       *)
(***************************************************************************)
StartedBonus(d) == d.active.kind = "whole" /\ d.active.wagered > 0
Convertible(d) == d.active.kind = "whole" /\ IsComplete(d.active)

ConvertFind(w) ==
  /\ At(w, "idle")
  /\ Cardinality(conversions) + Cardinality(Converting) < MaxConversions
  /\ db # NoDoc
  /\ Convertible(db)
  /\ req' = [req EXCEPT ![w] = [Idle EXCEPT !.at = "convert.stats", !.doc = db]]
  /\ UNCHANGED <<db, history, conversions, tickets, second, ghosts>>

WinningWagersOf(bonusId) == {h \in history : h.bonusId = bonusId /\ h.payout > 0}
WagersOf(bonusId) == {h \in history : h.bonusId = bonusId}

ConvertUnrecorded(w) ==
  /\ At(w, "convert.stats")
  /\ Goto(w, "convert.update")
  /\ UNCHANGED <<db, history, conversions, tickets, second, ghosts>>

ConvertStats(w) ==
  /\ At(w, "convert.stats")
  /\ IF WagersOf(req[w].doc.active.id) = {} THEN Goto(w, "convert.insert") ELSE Finish(w)
  /\ UNCHANGED <<db, history, conversions, tickets, second, ghosts>>

ConvertInsert(w) ==
  /\ At(w, "convert.insert")
  /\ conversions' = conversions \cup
       {[n |-> Cardinality(conversions) + 1, bonusId |-> req[w].doc.active.id,
         wagered |-> req[w].doc.active.wagered]}
  /\ Goto(w, "convert.update")
  /\ UNCHANGED <<db, history, tickets, second, ghosts>>

ConvertUpdate(w) ==
  LET d == Converted(req[w].doc)
  IN  /\ At(w, "convert.update")
      /\ Flush(w, d)
      /\ credited' = credited + (d.total - req[w].doc.total)
      /\ Finish(w)
      /\ UNCHANGED <<history, conversions, tickets, second, issued, gen, staked, paid>>

------------------------------------------------------------------------------
\* MongoDB refuses or times out, or the worker is killed: the request ends.
RequestFails(w) ==
  /\ Failures
  /\ ~At(w, "idle")
  /\ Finish(w)
  /\ UNCHANGED <<db, history, conversions, tickets, second, ghosts>>

Tick == /\ second < MaxSecond
        /\ second' = second + 1
        /\ UNCHANGED <<db, history, conversions, tickets, req, ghosts>>

\* History reads, progress reads of a known user, refusals: nothing changes.
ReadOnly(w) == At(w, "idle") /\ UNCHANGED vars

Serve(w) ==
  \/ \E amount \in Bets : ValidateFind(w, amount)
  \/ ValidateCreate(w) \/ ValidateLock(w) \/ ValidateLockLost(w)
  \/ \E t \in tickets, payout \in Payouts : PlaceFind(w, t, payout)
  \/ PlaceInsert(w) \/ PlaceUpdate(w)
  \/ ClaimFind(w) \/ ClaimCreate(w) \/ ClaimUpdate(w)
  \/ ProgressFind(w) \/ ProgressCreate(w)
  \/ ConvertFind(w) \/ ConvertStats(w) \/ ConvertInsert(w) \/ ConvertUpdate(w)
  \/ RequestFails(w) \/ ReadOnly(w)

Next == Tick \/ \E w \in Workers : Serve(w)

Spec == Init /\ [][Next]_vars

------------------------------------------------------------------------------
(***************************************************************************)
(* Properties, whatever the interleaving and whatever fails.               *)
(***************************************************************************)

\* Every variable has its type: the documents are as Document/*.php declare them.
TypeOK ==
  /\ db \in Doc \cup {NoDoc}
  /\ history \subseteq Wager
  /\ conversions \subseteq Conversion
  /\ tickets \subseteq issued
  /\ issued \subseteq Ticket
  /\ req \in [Workers -> Request]
  /\ second \in Nat /\ gen \in Nat /\ staked \in Nat /\ paid \in Nat
  /\ credited \in Int

\* The version check lets one validation through per version of a document: two
\* validations that read the same version are never both granted.
OneGrantPerVersion ==
  \A s, t \in issued : s.gen = t.gen /\ s.version = t.version => s = t

\* The user never gets credit for wagers the history does not show: neither the
\* lifetime total nor the bonus progress exceeds what was recorded as staked,
\* although requests overwrite each other's fields and die between the writes.
ProgressIsBacked ==
  db # NoDoc => db.lifetime <= staked /\ db.active.wagered <= staked

\* A conversion on record converted a bonus that was complete, with that much
\* really staked.
ConversionsAreEarned ==
  \A c \in conversions : Required <= c.wagered /\ c.wagered <= staked

\* A bonus that reached its requirement is marked completed, unless two first
\* requests overwrote each other's user document.
StatusFollowsProgress ==
  db # NoDoc /\ gen <= 1 /\ db.active.kind = "whole" /\ IsComplete(db.active)
    => db.active.status = "completed"

\* A complete bonus has wagers on record, and those make the conversion throw:
\* as long as the user was created once, no bonus is ever converted.
NoConversionAfterWagers == gen <= 1 => conversions = {}

\* Each record splits its stake over the two balances, and takes from neither
\* more than the validation had read there.
HistoryIsCovered ==
  \A h \in history : /\ h.bonusUsed + h.realUsed = h.amount
                     /\ h.bonusUsed <= h.bonusBefore
                     /\ h.realUsed <= h.realBefore

\* A bonus leaves the document only when a conversion is on record: the flush
\* stores the record before it updates the user.
BonusRetiredOnRecord ==
  [][db # NoDoc /\ db.active.kind = "whole" /\ db'.active.kind = "none"
       => conversions # {}]_vars

------------------------------------------------------------------------------
(***************************************************************************)
(* Properties of one worker and no failure: requests do not overlap.       *)
(***************************************************************************)
Quiet == \A w \in Workers : At(w, "idle")

\* The stored total, which canWager trusts, is the sum of the two balances.
TotalIsSum == db.total = db.real + db.bonus

\* The user's money is what was credited, less what the history shows staked, plus
\* what it shows paid; and the lifetime total is the history's.
MoneyIsAccounted == /\ db.real + db.bonus = credited - staked + paid
                    /\ db.lifetime = staked

\* A bonus is marked completed exactly when its requirement is met, so progress
\* reports canConvert exactly when a conversion would be admitted.
StatusIsProgress ==
  db.active.kind = "whole" => (db.active.status = "completed" <=> IsComplete(db.active))

\* The user's document balances after every write, and with the history whenever
\* no request is under way.
BooksBalance ==
  db # NoDoc => TotalIsSum /\ StatusIsProgress /\ (Quiet => MoneyIsAccounted)

\* One worker implements the ledger of indivisible operations.  A wager stays
\* granted until its flush is over, and its record counts from then on.
Unflushed == {req[w].ticket : w \in Placing}
Bare(t) == [n |-> t.n, amount |-> t.amount, bonusUsed |-> t.bonusUsed,
            realUsed |-> t.realUsed]

Ledger == INSTANCE WagerLedger WITH
  account   <- db,
  NoAccount <- NoDoc,
  Seconds   <- 1 .. MaxSecond,
  wagers    <- {[n |-> h.n, amount |-> h.amount, payout |-> h.payout] :
                  h \in {x \in history : \A t \in Unflushed : t.n # x.n}},
  granted   <- {Bare(t) : t \in tickets \cup Unflushed},
  grants    <- Cardinality(issued)

ImplementsLedger == Ledger!Spec

------------------------------------------------------------------------------
(***************************************************************************)
(* What the sources say and the code does not keep.                        *)
(***************************************************************************)

\* "Get user bonus with lock to prevent concurrent modifications"
\* (WagerService.php:44): then no wager on record is missing from the user.
NoWagerLost == Quiet /\ db # NoDoc /\ gen = 1 => db.lifetime = staked

\* "Whether bonus can be converted to real money" (can_convert of the progress
\* response): a conversion that was admitted goes on to store its record.
AdmittedConversionIsStored ==
  [][\A w \in Workers : At(w, "convert.stats") /\ req'[w] # req[w]
                           => req'[w].at = "convert.insert"]_vars
==============================================================================
