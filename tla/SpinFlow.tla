------------------------------- MODULE SpinFlow -------------------------------
(***************************************************************************)
(* A spin from end to end: the replicas of the game engine as the clients  *)
(* of the wager service, for one player.  The engine calls validate and    *)
(* then place over HTTP and waits at most its timeout; a worker of the     *)
(* service serves a call whether or not its caller still waits.  The other *)
(* requests of the player (claims, progress, conversions) reach the same   *)
(* workers from the frontend.                                              *)
(*                                                                         *)
(* RetryPlace, RetryWager and TimeoutOnValidate are faulty forms of        *)
(* the definition after them, no part of the specification.                *)
(***************************************************************************)
EXTENDS GameEngine

CONSTANTS Workers, StartBalance, WelcomeBonus, Multiplier, MaxTickets, MaxOpen,
          MaxConversions, MaxSecond, NoDoc, NoTicket,  \* of WagerService
          Timeouts,   \* whether a call can outlast the engine's 5 seconds
          NoWorker    \* no worker serves the call

ASSUME FlowAssumption == Timeouts \in BOOLEAN /\ NoWorker \notin Workers

VARIABLES
  db, history, conversions, tickets, req, second,
  issued, gen, staked, paid, credited,    \* of WagerService
  call,       \* the worker that serves each replica's call
  data,       \* the validation data each replica holds for its spin
  late,       \* calls no worker has accepted and nobody waits for
  validated   \* ghost: the games whose caller was given validation data, with its
              \* number, in the order of the answers

\* A call whose amount is empty, and 0 is, is answered 400 before anything is read.
W == INSTANCE WagerService WITH
       Bets <- Bets \ {0},
       Payouts <- {bet * outcome.multiplier : bet \in Bets, outcome \in Outcomes}

\* WagerService's assumptions on its constants.  The clients of the program stake 10,
\* and the payment service refuses a negative stake; the wager service is modelled
\* for those that are not negative.
ASSUME AmountsOfFlow ==
  /\ Bets \subseteq Nat
  /\ StartBalance \in Nat
  /\ WelcomeBonus \in Nat \ {0} /\ Multiplier \in Nat \ {0}
  /\ MaxTickets \in Nat /\ MaxOpen \in Nat
  /\ MaxConversions \in Nat /\ MaxSecond \in Nat \ {0}
  /\ NoDoc \notin W!Doc

wagerVars == <<db, history, conversions, tickets, req, second,
               issued, gen, staked, paid, credited>>
vars == <<engineVars, wagerVars, call, data, late, validated>>

Init ==
  /\ EngineInit
  /\ W!Init
  /\ call = [r \in Replicas |-> NoWorker]
  /\ data = [r \in Replicas |-> NoTicket]
  /\ late = {} /\ validated = <<>>

Calling(r) == spin[r].at \in {"validate", "place"}
Waiting(r) == Calling(r) /\ call[r] = NoWorker
CallOf(r) == [step |-> spin[r].at, game |-> spin[r].game, ticket |-> data[r]]
Callers(w) == {r \in Replicas : call[r] = w}

\* The caller is gone, or has what it asked for.
HangUp(r) == call' = [call EXCEPT ![r] = NoWorker]
Forget(r) == data' = [data EXCEPT ![r] = NoTicket]

------------------------------------------------------------------------------
\* The engine's own operations leave the wager service and its calls alone.
EngineStep(r) ==
  /\ \/ \E bet \in Bets, outcome \in Outcomes : Calculate(r, bet, outcome)
     \/ Settle(r)
     \/ NoSpinServed(r)
  /\ UNCHANGED <<wagerVars, call, data, late, validated>>

BrokerStep == /\ BrokerDown \/ BrokerUp \/ \E r \in Replicas : BrokerCloses(r)
              /\ UNCHANGED <<wagerVars, call, data, late, validated>>

\* validate_wager's request reaches a worker, which looks the player up; a call without
\* a stake and a player who cannot afford it are refused at once.
CallValidate(r, w) ==
  /\ SpinAt(r, "validate") /\ Waiting(r)
  /\ spin[r].game.bet # 0
  /\ W!ValidateFind(w, spin[r].game.bet)
  /\ call' = [call EXCEPT ![r] = w]
  /\ UNCHANGED <<engineVars, data, late, validated>>

RefuseStake(r, w) ==
  /\ SpinAt(r, "validate") /\ Waiting(r)
  /\ W!At(w, "idle")
  /\ LET bet == spin[r].game.bet IN bet = 0 \/ (db # NoDoc /\ ~W!CanWager(db, bet))
  /\ Refused(r)
  /\ UNCHANGED <<wagerVars, call, data, late, validated>>

\* place_wager's request reaches a worker, with the data and the spin's payout.  A
\* bonus that lacks fields throws there, before anything is written.
CallPlace(r, w) ==
  /\ SpinAt(r, "place") /\ Waiting(r)
  /\ W!PlaceFind(w, data[r], spin[r].game.payout)
  /\ call' = [call EXCEPT ![r] = w]
  /\ UNCHANGED <<engineVars, data, late, validated>>

PlaceThrows(r, w) ==
  /\ SpinAt(r, "place") /\ Waiting(r)
  /\ W!At(w, "idle")
  /\ db.active.kind = "partial"
  /\ Answered(r) /\ Forget(r)
  /\ UNCHANGED <<wagerVars, call, late, validated>>

\* A call nobody waits for any more is served all the same.
ServeLate(l, w) ==
  /\ IF l.step = "validate" THEN l.game.bet # 0 /\ W!ValidateFind(w, l.game.bet)
     ELSE W!PlaceFind(w, l.ticket, l.game.payout)
  /\ late' = late \ {l}
  /\ UNCHANGED <<engineVars, call, data, validated>>

------------------------------------------------------------------------------
\* A worker's next operation on a wager.  If it ends the request, whoever still
\* waits for it has its answer.
Work(w) ==
  \/ W!ValidateCreate(w) \/ W!ValidateLock(w) \/ W!ValidateLockLost(w)
  \/ W!PlaceInsert(w) \/ W!PlaceUpdate(w) \/ W!RequestFails(w)

GoesOn(w) ==
  /\ Callers(w) = {} \/ req'[w] # W!Idle
  /\ UNCHANGED <<engineVars, call, data, validated>>

GrantReply(r) ==
  /\ Granted(r)
  /\ \E t \in issued' \ issued :
       /\ data' = [data EXCEPT ![r] = t]
       /\ validated' = Append(validated, [n |-> t.n, game |-> spin[r].game])

RefusalReply(r) ==
  /\ issued' = issued
  /\ Refused(r)
  /\ UNCHANGED <<data, validated>>

PlaceReply(r) == Answered(r) /\ Forget(r) /\ UNCHANGED validated

Replies(r, w) ==
  /\ call[r] = w /\ req'[w] = W!Idle
  /\ GrantReply(r) \/ RefusalReply(r) \/ PlaceReply(r)
  /\ HangUp(r)

WorkerStep(w) ==
  /\ Work(w)
  /\ GoesOn(w) \/ \E r \in Replicas : Replies(r, w)
  /\ UNCHANGED late

\* Claims, progress and conversions of the player; the clock.
OtherRequest(w) ==
  /\ \/ W!ClaimFind(w) \/ W!ClaimCreate(w) \/ W!ClaimUpdate(w)
     \/ W!ProgressFind(w) \/ W!ProgressCreate(w)
     \/ W!ConvertFind(w) \/ W!ConvertStats(w) \/ W!ConvertInsert(w) \/ W!ConvertUpdate(w)
  /\ UNCHANGED <<engineVars, call, data, late, validated>>

Tick == W!Tick /\ UNCHANGED <<engineVars, call, data, late, validated>>

------------------------------------------------------------------------------
\* The call outlasts the timeout: the client returns None and the spin is answered
\* without the wager.  The same befalls the call when the engine's pod dies.
Abandon(r) ==
  /\ late' = IF Waiting(r) THEN late \cup {CallOf(r)} ELSE late
  /\ HangUp(r) /\ Forget(r)
  /\ UNCHANGED <<wagerVars, validated>>

RetryPlace(r) ==
  /\ Timeouts
  /\ \/ Refused(r) /\ Abandon(r)
     \/ /\ SpinAt(r, "place") /\ Waiting(r)
        /\ late' = late \cup {CallOf(r)}
        /\ UNCHANGED <<engineVars, wagerVars, call, data, validated>>
RetryWager(r) ==
  /\ Timeouts
  /\ \/ Refused(r)
     \/ SpinAt(r, "place") /\ SpinGoto(r, "validate") /\ UNCHANGED <<store, resetDied, bus>>
  /\ Abandon(r)
TimeoutOnValidate(r) ==
  /\ Timeouts
  /\ Refused(r)
  /\ Abandon(r)
CallTimesOut(r) ==
  /\ Timeouts
  /\ Refused(r) \/ Answered(r)
  /\ Abandon(r)

EngineFails(r) == SpinFails(r) /\ Abandon(r)

Next ==
  \/ \E r \in Replicas :
       \/ EngineStep(r) \/ CallTimesOut(r) \/ EngineFails(r)
       \/ \E w \in Workers : \/ CallValidate(r, w) \/ RefuseStake(r, w)
                             \/ CallPlace(r, w) \/ PlaceThrows(r, w)
  \/ \E w \in Workers : WorkerStep(w) \/ OtherRequest(w) \/ \E l \in late : ServeLate(l, w)
  \/ BrokerStep \/ Tick

Spec == Init /\ [][Next]_vars

\* A replica goes on with a spin it has begun, and its HTTP client gives up on time.
\* Nothing is assumed of the wager service.
Fairness == \A r \in Replicas :
              /\ WF_vars(Settle(r) /\ UNCHANGED <<wagerVars, call, data, late, validated>>)
              /\ WF_vars(CallTimesOut(r))

FairSpec == Spec /\ Fairness

------------------------------------------------------------------------------
\* The engine keeps what WagerService assumes of its clients: whatever times out or
\* dies, validation data that is still to be placed has not been placed, and is to
\* be placed once.
PlacedAtMostOnce ==
  LET calls == {CallOf(r) : r \in {s \in Replicas : SpinAt(s, "place") /\ Waiting(s)}}
               \cup {l \in late : l.step = "place"}
  IN  /\ \A c \in calls : c.ticket \in tickets
      /\ \A c, d \in calls : c.ticket = d.ticket => c.game = d.game
      /\ \A r \in Replicas : SpinAt(r, "place") /\ Waiting(r) => CallOf(r) \notin late

\* Every record of the wager history is the record of the spin its validation was
\* for, with its stake and its payout, a spin the engine saved; no two records are
\* of the same spin.
Given == Range(validated)
IsRecordOf(h, v) == h.n = v.n /\ h.amount = v.game.bet /\ h.payout = v.game.payout
RecordsAreSpins ==
  /\ \A h \in history : \E v \in Given : IsRecordOf(h, v) /\ v.game \in games
  /\ \A h, k \in history, u, v \in Given :
       IsRecordOf(h, u) /\ IsRecordOf(k, v) /\ u.game = v.game => h = k

\* No spin is under way, and no request.
Quiet == (\A r \in Replicas : SpinAt(r, "idle")) /\ (\A w \in Workers : W!At(w, "idle"))
Stakes(s) == [i \in DOMAIN s |-> s[i].game.bet]
Results(s) == [i \in DOMAIN s |-> Net(s[i].game)]

\* The balances are the credits and the spins' results, and the lifetime total is
\* their stakes.
Booked == /\ db.lifetime = Sum(Stakes(validated))
          /\ db.real + db.bonus = credited + Sum(Results(validated))

\* A record's balances after it are those before it, less the deduction, plus the
\* payout.
Coherent(h) == /\ h.realAfter = h.realBefore - h.realUsed + h.payout
               /\ h.bonusAfter = h.bonusBefore - h.bonusUsed

\* One replica whose calls do not time out: the wager service has booked exactly the
\* spins it validated, with coherent records and no balance below zero, although
\* claims, progress and conversion requests overlap them; as long as the player
\* was created once.
ValidatedSpinsAreBooked ==
  db # NoDoc /\ gen <= 1 => /\ Quiet => Booked
                            /\ db.real >= 0 /\ db.bonus >= 0
                            /\ \A h \in history : Coherent(h)

\* Every spin is answered, or dies with its pod, even if the wager service never
\* answers the engine and MongoDB and the broker fail as they may.
SpinIsAnswered == \A r \in Replicas : ~SpinAt(r, "idle") ~> SpinAt(r, "idle")
==============================================================================
