------------------------------ MODULE GameEngine ------------------------------
(***************************************************************************)
(* The game engine (game-engine/src): replicas that calculate spins for    *)
(* ONE player.  A replica is one Tornado process whose handler blocks: it  *)
(* serves a spin to its end before the next.  A step is one operation on   *)
(* MongoDB, on RabbitMQ, or one call of the wager service, whose answer    *)
(* this module leaves open (SpinFlow composes the two).  Replicas share    *)
(* the collections games and user_balances and the queue of game results.  *)
(*                                                                         *)
(* KeepBrokenLink, AlwaysReset, SetBalance and NeverReset are faulty forms *)
(* of the definition after them, no part of the specification.             *)
(***************************************************************************)
EXTENDS SlotMachine, Sums, FiniteSets, Functions

CONSTANTS Replicas,       \* pods of the engine: 1, or 2 in staging
          DefaultBalance, \* DEFAULT_BALANCE
          Bets,           \* amounts a spin stakes, whatever a client sends
          Failures,       \* whether a spin can end in an exception, or its pod die
          MaxGames,       \* bound: spins
          MaxBreaks,      \* bound: connections to the broker that break
          NoGame          \* no spin

ASSUME EngineAssumption ==
  /\ IsFiniteSet(Replicas)
  /\ DefaultBalance \in Nat
  /\ Bets \subseteq Int
  /\ Failures \in BOOLEAN
  /\ MaxGames \in Nat /\ MaxBreaks \in Nat

VARIABLES games,     \* the games collection
          balances,  \* the player's documents in user_balances, oldest first
          queue,     \* how many results were published to analytics.game_results
          spin,      \* what each replica is doing
          link,      \* each replica's connection to RabbitMQ
          broker,    \* whether RabbitMQ is reachable
          settled,   \* ghost: games that changed a balance, in order
          lastReset, \* ghost: how many games had changed a balance when one was last
                     \* set to the default; 0 if none was
          resetDied, \* ghost: whether a spin died after its debit, before its reset
          breaks,    \* ghost: connections that broke unnoticed
          missed     \* ghost: results lost while it was reachable

store == <<games, balances, settled, lastReset>>
bus == <<queue, link, broker, breaks, missed>>
engineVars == <<store, spin, resetDied, bus>>

\* Of the symbols shown, whether they are alike.
Game == [n : Nat, bet : Int, payout : Int, alike : BOOLEAN]

Net(g) == g.payout - g.bet

EngineSteps == {"idle", "publish", "balance", "upsert", "reset", "validate", "place"}

\* "broken": the connection is gone and the engine has not noticed.
Links == {"none", "open", "broken"}

NoSpin == [at |-> "idle", game |-> NoGame]

\* The publisher's constructor connects: RabbitMQ may not be up yet.
EngineInit ==
  /\ games = {} /\ balances = <<>> /\ queue = 0
  /\ spin = [r \in Replicas |-> NoSpin]
  /\ broker \in BOOLEAN
  /\ link = [r \in Replicas |-> IF broker THEN "open" ELSE "none"]
  /\ settled = <<>> /\ lastReset = 0 /\ resetDied = FALSE /\ breaks = 0 /\ missed = 0

SpinAt(r, step) == spin[r].at = step
SpinGoto(r, step) == spin' = [spin EXCEPT ![r].at = step]
SpinEnds(r) == spin' = [spin EXCEPT ![r] = NoSpin]

------------------------------------------------------------------------------
NewGame(bet, outcome) ==
  [n |-> Cardinality(games) + 1, bet |-> bet, payout |-> bet * outcome.multiplier,
   alike |-> outcome.alike]

\* The reels are drawn and the game is saved, before anything is checked or paid.
Calculate(r, bet, outcome) ==
  LET g == NewGame(bet, outcome)
  IN  /\ SpinAt(r, "idle")
      /\ Cardinality(games) < MaxGames
      /\ games' = games \cup {g}
      /\ spin' = [spin EXCEPT ![r] = [at |-> "publish", game |-> g]]
      /\ UNCHANGED <<balances, settled, lastReset, resetDied, bus>>

\* publish_game_result: reconnect if the connection is known to be gone, publish,
\* and forget the connection if that raises (pika raises on a broken one).
\* Whatever happens, the spin goes on.
KeepBrokenLink(r) == link[r]
LinkAfterError(r) == "none"

Publish(r) ==
  LET works == link[r] = "open" \/ (link[r] = "none" /\ broker)
  IN  /\ SpinAt(r, "publish")
      /\ queue' = IF works THEN queue + 1 ELSE queue
      /\ missed' = IF works \/ ~broker THEN missed ELSE missed + 1
      /\ link' = [link EXCEPT ![r] = IF works THEN "open" ELSE LinkAfterError(r)]
      /\ SpinGoto(r, "balance")
      /\ UNCHANGED <<store, resetDied, broker, breaks>>

\* find_one_and_update with $inc and upsert.  Where the player has a document, one
\* that matches is incremented; where there is none, one is inserted, and another
\* replica may insert in between: nothing makes user_id unique.
AlwaysReset(balance) == "reset"
AfterBalance(balance) == IF balance < 0 THEN "reset" ELSE "validate"

SetBalance(r) ==
  /\ SpinAt(r, "balance")
  /\ balances # <<>>
  /\ \E i \in DOMAIN balances :
       /\ balances' = [balances EXCEPT ![i] = DefaultBalance + Net(spin[r].game)]
       /\ SpinGoto(r, "validate")
  /\ settled' = Append(settled, spin[r].game)
  /\ UNCHANGED <<games, lastReset, resetDied, bus>>

UpdateBalance(r) ==
  /\ SpinAt(r, "balance")
  /\ balances # <<>>
  /\ \E i \in DOMAIN balances :
       /\ balances' = [balances EXCEPT ![i] = @ + Net(spin[r].game)]
       /\ SpinGoto(r, AfterBalance(balances'[i]))
  /\ settled' = Append(settled, spin[r].game)
  /\ UNCHANGED <<games, lastReset, resetDied, bus>>

NoBalance(r) ==
  /\ SpinAt(r, "balance")
  /\ balances = <<>>
  /\ SpinGoto(r, "upsert")
  /\ UNCHANGED <<store, resetDied, bus>>

UpsertBalance(r) ==
  /\ SpinAt(r, "upsert")
  /\ balances' = Append(balances, Net(spin[r].game))
  /\ SpinGoto(r, AfterBalance(Net(spin[r].game)))
  /\ settled' = Append(settled, spin[r].game)
  /\ UNCHANGED <<games, lastReset, resetDied, bus>>

\* A negative balance "didn't exist": it is set to the default and this spin, which
\* is negative again if the spin lost more than the default.
NeverReset(r) ==
  SpinAt(r, "reset") /\ SpinGoto(r, "validate") /\ UNCHANGED <<store, resetDied, bus>>
ResetBalance(r) ==
  /\ SpinAt(r, "reset")
  /\ \E i \in DOMAIN balances :
       balances' = [balances EXCEPT ![i] = DefaultBalance + Net(spin[r].game)]
  /\ lastReset' = Len(settled)
  /\ SpinGoto(r, "validate")
  /\ UNCHANGED <<games, settled, resetDied, bus>>

\* validate_wager returned data, or None: refused, failed, or timed out.  Then
\* place_wager returned something or None, and the spin is answered either way.
Granted(r) ==
  SpinAt(r, "validate") /\ SpinGoto(r, "place") /\ UNCHANGED <<store, resetDied, bus>>
Refused(r) ==
  SpinAt(r, "validate") /\ SpinEnds(r) /\ UNCHANGED <<store, resetDied, bus>>
Answered(r) ==
  SpinAt(r, "place") /\ SpinEnds(r) /\ UNCHANGED <<store, resetDied, bus>>

\* MongoDB raises, and the caller gets an error; or the pod dies and is restarted.
SpinFails(r) ==
  /\ Failures
  /\ ~SpinAt(r, "idle")
  /\ resetDied' = (resetDied \/ SpinAt(r, "reset"))
  /\ SpinEnds(r)
  /\ UNCHANGED <<store, bus>>

\* Connections open before a step and broken after it.
Breaking == {r \in Replicas : link[r] = "open" /\ link'[r] = "broken"}

\* The broker, or the way to it, goes away.  A replica that is publishing notices.
BrokerDown ==
  /\ broker
  /\ breaks < MaxBreaks
  /\ broker' = FALSE
  /\ \E noticed \in SUBSET Replicas :
       link' = [r \in Replicas |-> IF link[r] = "none" \/ r \in noticed THEN "none"
                                   ELSE "broken"]
  /\ breaks' = breaks + Cardinality(Breaking)
  /\ breaks' <= MaxBreaks
  /\ UNCHANGED <<store, spin, resetDied, queue, missed>>

BrokerUp ==
  /\ ~broker
  /\ broker' = TRUE
  /\ UNCHANGED <<store, spin, resetDied, queue, link, breaks, missed>>

\* A BlockingConnection answers heartbeats only inside its own calls, and between two
\* spins the engine makes none: a broker that is up closes it, and is_closed stays False.
BrokerCloses(r) ==
  /\ broker
  /\ link[r] = "open"
  /\ breaks < MaxBreaks
  /\ link' = [link EXCEPT ![r] = "broken"]
  /\ breaks' = breaks + 1
  /\ UNCHANGED <<store, spin, resetDied, queue, broker, missed>>

\* Health, metrics and the metric scenarios: nothing of this module changes.
NoSpinServed(r) == SpinAt(r, "idle") /\ UNCHANGED engineVars

\* The operations of a spin up to the wager service.
Settle(r) ==
  \/ Publish(r)
  \/ UpdateBalance(r) \/ NoBalance(r) \/ UpsertBalance(r) \/ ResetBalance(r)

EngineNext ==
  \/ \E r \in Replicas :
       \/ \E bet \in Bets, outcome \in Outcomes : Calculate(r, bet, outcome)
       \/ Settle(r)
       \/ Granted(r) \/ Refused(r) \/ Answered(r)
       \/ SpinFails(r) \/ NoSpinServed(r)
  \/ BrokerDown \/ BrokerUp \/ \E r \in Replicas : BrokerCloses(r)

EngineSpec == EngineInit /\ [][EngineNext]_engineVars

------------------------------------------------------------------------------
\* What the player is shown agrees with what the player is paid: a spin that shows
\* three of a kind pays more than a positive stake, and any other pays nothing.
ShownIsPaid ==
  \A g \in games : IF g.alike THEN g.bet > 0 => g.payout > g.bet ELSE g.payout = 0

Nets(s) == [i \in DOMAIN s |-> Net(s[i])]

\* Replicas never lose each other's increments: until a balance is set to the
\* default, the player's balances add up to what the settled spins won and lost,
\* also when two first spins insert a document each, or spins die; and no spin is
\* settled twice.
IncrementsAddUp ==
  /\ IsInjective(settled)
  /\ lastReset = 0 => Sum(balances) = Sum(Nets(settled))

\* A player whose only document was debited below zero is raised again before the
\* spin is answered, whatever other replicas do meanwhile; unless some spin died
\* between its debit and its reset, or the balance is what is left of the default
\* after a spin that lost more than that, which set it.
NeverLeftNegative ==
  Len(balances) = 1 /\ balances[1] < 0 =>
    \/ resetDied
    \/ \E r \in Replicas : SpinAt(r, "reset")
    \/ lastReset # 0 /\ \E g \in Range(settled) : balances[1] = DefaultBalance + Net(g)

\* What the spins settled after the first p won and lost.
Since(p) == Sum(Nets(SubSeq(settled, p + 1, Len(settled))))

\* A reset takes no more than what spins of other replicas won between the debit
\* that called for it and the reset itself: of the player's only document, not reset
\* by another spin meanwhile, by a spin that lost no more than the default balance.
\* Without such spins it never takes anything.
ResetTakesOnlyOverlap ==
  [][\A r \in Replicas, p \in DOMAIN settled :
       /\ SpinAt(r, "reset") /\ SpinAt(r, "validate")'
       /\ settled[p] = spin[r].game /\ lastReset < p
       /\ Len(balances) = 1 /\ DefaultBalance + Net(settled[p]) >= 0
       => balances[1] <= balances'[1] + Since(p)]_engineVars

\* While RabbitMQ is reachable results are published, except that each connection
\* that breaks, in an outage or for its missed heartbeats, costs one: the publish
\* that finds out leaves it to the next to reconnect.
BreakCostsOneResult == missed <= breaks
==============================================================================
