--------------------------- MODULE SpinFlowProofs ---------------------------
(***************************************************************************)
(* Theorems about the game engine, alone and as the client of the wager    *)
(* service: for every set of replicas and of workers, every default        *)
(* balance, all symbols and multipliers, with and without timeouts and     *)
(* failures, but where a theorem names its hypotheses.                     *)
(*                                                                         *)
(* The first part is about GameEngine, whose variables are those of the    *)
(* flow too; FlowIsEngine carries its theorems over.  Then the composition *)
(* implements both of its parts, a wager is placed once and on record as   *)
(* the spin it is for, and last the books of one replica.                  *)
(***************************************************************************)
EXTENDS SpinFlow, SumsProofs, FiniteSetTheorems, SequenceTheorems

------------------------------------------------------------------------------
(***************************************************************************)
(* The reels.                                                              *)
(***************************************************************************)

\* The middle symbol of three that came out alike is replaced by another one, so
\* that a losing spin never shows three of a kind.
LEMMA LossesDiffer == \A r \in LosingReels : ~Alike(r)
<1> SUFFICES ASSUME NEW r \in Drawn, NEW s \in OtherSymbols(r[1])
             PROVE  ~Alike([r EXCEPT ![2] = s])
  BY DEF LosingReels
<1>1. [r EXCEPT ![2] = s][1] = r[1] /\ [r EXCEPT ![2] = s][2] = s
  BY DEF Drawn
<1> QED
  BY <1>1 DEF Alike, OtherSymbols

\* Three of a kind pay at least twice the stake, everything else nothing.
LEMMA OutcomesPay ==
  ASSUME NEW o \in Outcomes
  PROVE  /\ o.multiplier \in Nat
         /\ o.alike => o.multiplier >= 2
         /\ ~o.alike => o.multiplier = 0
<1>1. PICK x \in Wins \cup Losses :
             o = [alike |-> Alike(x.reels), multiplier |-> x.multiplier]
  BY DEF Outcomes
<1>2. o.alike = Alike(x.reels) /\ o.multiplier = x.multiplier
  BY <1>1
<1>3. CASE x \in Wins
  <2>1. PICK s \in Symbols : x = [reels |-> <<s, s, s>>, multiplier |-> Multipliers[s]]
    BY <1>3 DEF Wins
  <2>2. x.reels = <<s, s, s>> /\ x.multiplier \in Nat /\ x.multiplier >= 2
    BY <2>1, SlotAssumption DEF SlotAssumption
  <2>3. Alike(x.reels)
    BY <2>2 DEF Alike
  <2> QED
    BY <1>2, <2>2, <2>3
<1>4. CASE x \in Losses
  <2>1. PICK r \in LosingReels : x = [reels |-> r, multiplier |-> 0]
    BY <1>4 DEF Losses
  <2>2. ~Alike(x.reels) /\ x.multiplier = 0
    BY <2>1, LossesDiffer
  <2> QED
    BY <1>2, <2>2
<1> QED
  BY <1>3, <1>4

------------------------------------------------------------------------------
(***************************************************************************)
(* The types, as far as the properties need them: what a spin holds is a   *)
(* saved game that pays as it shows, and what it resets for has settled.   *)
(***************************************************************************)
PaysAsShown(g) == IF g.alike THEN g.bet > 0 => g.payout > g.bet ELSE g.payout = 0

Sound(g) == /\ g.bet \in Bets /\ g.bet \in Int /\ g.payout \in Int
            /\ g.bet \in Nat => g.payout \in Nat
            /\ PaysAsShown(g)

TypeInv ==
  /\ \A g \in games : Sound(g)
  /\ spin \in [Replicas -> [at : EngineSteps, game : games \cup {NoGame}]]
  /\ \A r \in Replicas : ~SpinAt(r, "idle") => spin[r].game \in games
  /\ balances \in Seq(Int) /\ settled \in Seq(games)

\* A spin that is to reset a balance has changed one.
ResetsSettled == \A r \in Replicas : SpinAt(r, "reset") => spin[r].game \in Range(settled)

\* A new game is sound.
LEMMA NewGameSound ==
  ASSUME NEW bet \in Bets, NEW outcome \in Outcomes
  PROVE  Sound(NewGame(bet, outcome))
<1> DEFINE g == NewGame(bet, outcome)
           m == outcome.multiplier
<1>1. g.bet = bet /\ g.payout = bet * m /\ g.alike = outcome.alike
  BY DEF NewGame
<1>2. bet \in Int
  BY EngineAssumption DEF EngineAssumption
<1>3. m \in Nat /\ (outcome.alike => m >= 2) /\ (~outcome.alike => m = 0)
  BY OutcomesPay
<1> HIDE DEF g, m
<1>4. bet * m \in Int /\ (bet \in Nat => bet * m \in Nat)
  BY <1>2, <1>3
<1>5. CASE outcome.alike
  <2>1. bet > 0 => bet * m > bet
    <3> SUFFICES ASSUME bet > 0 PROVE bet * m > bet
      OBVIOUS
    <3>1. bet \in Nat /\ bet >= 1
      BY <1>2
    <3>2. bet * m >= bet * 2
      BY <3>1, <1>3, <1>5
    <3> QED
      BY <1>4, <3>1, <3>2
  <2> QED
    BY <1>1, <1>2, <1>4, <1>5, <2>1 DEF Sound, PaysAsShown, g
<1>6. CASE ~outcome.alike
  <2>1. bet * m = 0
    BY <1>2, <1>3, <1>6
  <2> QED
    BY <1>1, <1>2, <1>4, <1>6, <2>1 DEF Sound, PaysAsShown, g
<1> QED
  BY <1>5, <1>6

\* What a spin wins or loses is a number.
LEMMA NetType ==
  ASSUME NEW g, Sound(g)
  PROVE  Net(g) \in Int /\ DefaultBalance + Net(g) \in Int
  BY EngineAssumption DEF EngineAssumption, Sound, Net

\* Who has settled stays settled when another game settles.
LEMMA SettledGrows ==
  ASSUME NEW S, settled \in Seq(S), NEW g \in S, settled' = Append(settled, g)
  PROVE  /\ settled' \in Seq(S) /\ Len(settled') = Len(settled) + 1
         /\ Len(settled) \in Nat /\ settled'[Len(settled) + 1] = g
         /\ \A i \in 1 .. Len(settled) : settled'[i] = settled[i]
         /\ DOMAIN settled = 1 .. Len(settled) /\ DOMAIN settled' = 1 .. Len(settled) + 1
         /\ Range(settled') = Range(settled) \cup {g}
<1>1. /\ settled' \in Seq(S) /\ Len(settled') = Len(settled) + 1
      /\ Len(settled) \in Nat /\ settled'[Len(settled) + 1] = g
      /\ \A i \in 1 .. Len(settled) : settled'[i] = settled[i]
      /\ DOMAIN settled = 1 .. Len(settled) /\ DOMAIN settled' = 1 .. Len(settled) + 1
  OBVIOUS
<1>2. Range(settled') = Range(settled) \cup {g}
  BY <1>1 DEF Range
<1> QED
  BY <1>1, <1>2

\* A spin that ends keeps the types.
LEMMA EndKeeps ==
  ASSUME TypeInv, NEW r \in Replicas, SpinEnds(r), UNCHANGED <<games, balances, settled>>
  PROVE  TypeInv'
<1>1. NoSpin \in [at : EngineSteps, game : games \cup {NoGame}] /\ NoSpin.at = "idle"
  BY DEF NoSpin, EngineSteps
<1> QED
  BY <1>1 DEF TypeInv, SpinEnds, SpinAt

\* So does one that goes on.
LEMMA GotoKeeps ==
  ASSUME TypeInv, NEW r \in Replicas, NEW step \in EngineSteps, SpinGoto(r, step),
         ~SpinAt(r, "idle"), games' = games, balances' \in Seq(Int),
         settled' \in Seq(games)
  PROVE  /\ TypeInv'
         /\ \A q \in Replicas : /\ spin'[q].at = IF q = r THEN step ELSE spin[q].at
                                /\ spin'[q].game = spin[q].game
<1> DEFINE s == [spin[r] EXCEPT !.at = step]
<1>1. spin[r] \in [at : EngineSteps, game : games \cup {NoGame}]
  BY DEF TypeInv
<1>2. /\ s \in [at : EngineSteps, game : games \cup {NoGame}]
      /\ s.at = step /\ s.game = spin[r].game
  BY <1>1
<1>3. spin' = [spin EXCEPT ![r] = s]
  BY DEF SpinGoto, TypeInv
<1> HIDE DEF s
<1>4. \A q \in Replicas : spin'[q] = IF q = r THEN s ELSE spin[q]
  BY <1>3 DEF TypeInv
<1>5. spin' \in [Replicas -> [at : EngineSteps, game : games \cup {NoGame}]]
  BY <1>2, <1>3 DEF TypeInv
<1> QED
  BY <1>2, <1>4, <1>5 DEF TypeInv, SpinAt

------------------------------------------------------------------------------
(***************************************************************************)
(* Balances.  One that is debited below zero is the business of the spin   *)
(* that debited it, or of one that died there; one that a reset leaves     *)
(* below zero shows the spin that did.                                     *)
(***************************************************************************)
BalanceInv == TypeInv /\ ResetsSettled /\ NeverLeftNegative

\* Where a spin goes after its debit.
LEMMA AfterDebit ==
  ASSUME NEW x \in Int
  PROVE  /\ AfterBalance(x) \in EngineSteps
         /\ AfterBalance(x) \in {"reset", "validate"}
         /\ x < 0 <=> AfterBalance(x) = "reset"
  BY DEF AfterBalance, EngineSteps

\* A step that touches no balance and takes no spin away from its reset keeps all.
LEMMA OthersKeep ==
  ASSUME NeverLeftNegative, ResetsSettled, UNCHANGED <<balances, settled, lastReset>>,
         resetDied => resetDied',
         \A q \in Replicas : SpinAt(q, "reset") => SpinAt(q, "reset")' \/ resetDied',
         \A q \in Replicas : SpinAt(q, "reset")' => SpinAt(q, "reset") /\ spin'[q] = spin[q]
  PROVE  NeverLeftNegative' /\ ResetsSettled'
<1>1. ResetsSettled'
  BY DEF ResetsSettled
<1>2. NeverLeftNegative'
  BY DEF NeverLeftNegative
<1> QED
  BY <1>1, <1>2

\* What a spin that changes a balance leaves behind.
LEMMA DebitKeeps ==
  ASSUME TypeInv, ResetsSettled, NeverLeftNegative, NEW r \in Replicas, ~SpinAt(r, "idle"),
         ~SpinAt(r, "reset"), NEW i \in DOMAIN balances', balances' \in Seq(Int),
         Len(balances') = 1 => i = 1,
         SpinGoto(r, AfterBalance(balances'[i])), settled' = Append(settled, spin[r].game),
         UNCHANGED <<games, lastReset, resetDied>>
  PROVE  /\ BalanceInv'
         /\ \A q \in Replicas : /\ spin'[q].at = IF q = r THEN AfterBalance(balances'[i])
                                                 ELSE spin[q].at
                                /\ spin'[q].game = spin[q].game
<1>1. balances'[i] \in Int
  OBVIOUS
<1>2. /\ settled' \in Seq(games)
      /\ Range(settled') = Range(settled) \cup {spin[r].game}
  BY SettledGrows DEF TypeInv
<1>3. /\ TypeInv'
      /\ \A q \in Replicas : /\ spin'[q].at = IF q = r THEN AfterBalance(balances'[i])
                                              ELSE spin[q].at
                             /\ spin'[q].game = spin[q].game
  BY <1>1, <1>2, AfterDebit, GotoKeeps
<1>4. ResetsSettled'
  BY <1>2, <1>3 DEF ResetsSettled, SpinAt
<1>5. NeverLeftNegative'
  <2> SUFFICES ASSUME Len(balances') = 1, balances'[1] < 0
               PROVE  \E q \in Replicas : SpinAt(q, "reset")'
    BY DEF NeverLeftNegative
  <2> QED
    BY <1>1, <1>3, AfterDebit DEF SpinAt
<1> QED
  BY <1>3, <1>4, <1>5 DEF BalanceInv

\* Every step keeps the types, and balances looked after.
LEMMA BalanceNext == BalanceInv /\ [EngineNext]_engineVars => BalanceInv'
<1> SUFFICES ASSUME BalanceInv, [EngineNext]_engineVars PROVE BalanceInv'
  OBVIOUS
<1> USE DEF store, bus
<1>t. TypeInv /\ ResetsSettled /\ NeverLeftNegative
  BY DEF BalanceInv
<1>1. ASSUME NEW r \in Replicas, NEW bet \in Bets, NEW outcome \in Outcomes,
             Calculate(r, bet, outcome)
      PROVE  BalanceInv'
  <2> DEFINE g == NewGame(bet, outcome)
             s == [at |-> "publish", game |-> g]
  <2>1. Sound(g)
    BY NewGameSound
  <2>2. /\ games' = games \cup {g} /\ spin' = [spin EXCEPT ![r] = s]
        /\ UNCHANGED <<balances, settled, lastReset, resetDied>> /\ SpinAt(r, "idle")
    BY <1>1 DEF Calculate
  <2>3. /\ s \in [at : EngineSteps, game : games' \cup {NoGame}]
        /\ s.game = g /\ s.at = "publish"
    BY <2>2 DEF EngineSteps
  <2> HIDE DEF g, s
  <2>4. /\ spin' \in [Replicas -> [at : EngineSteps, game : games' \cup {NoGame}]]
        /\ \A q \in Replicas : spin'[q] = IF q = r THEN s ELSE spin[q]
    <3>1. spin \in [Replicas -> [at : EngineSteps, game : games' \cup {NoGame}]]
      BY <1>t, <2>2 DEF TypeInv
    <3> QED
      BY <2>2, <2>3, <3>1
  <2>5. TypeInv'
    <3>1. settled' \in Seq(games') /\ balances' \in Seq(Int)
      BY <1>t, <2>2 DEF TypeInv
    <3>2. \A x \in games' : Sound(x)
      BY <1>t, <2>1, <2>2 DEF TypeInv
    <3>3. \A q \in Replicas : ~SpinAt(q, "idle")' => spin'[q].game \in games'
      BY <1>t, <2>2, <2>3, <2>4 DEF TypeInv, SpinAt
    <3> QED
      BY <2>4, <3>1, <3>2, <3>3 DEF TypeInv
  <2>6. NeverLeftNegative' /\ ResetsSettled'
    BY <1>t, <2>2, <2>3, <2>4, OthersKeep DEF SpinAt
  <2> QED
    BY <2>5, <2>6 DEF BalanceInv
<1>2. ASSUME NEW r \in Replicas, Publish(r) \/ NoBalance(r) \/ Granted(r) PROVE BalanceInv'
  <2>1. PICK step \in {"balance", "upsert", "place"} :
          /\ SpinGoto(r, step) /\ ~SpinAt(r, "idle") /\ ~SpinAt(r, "reset")
          /\ UNCHANGED <<games, balances, settled, lastReset, resetDied>>
    BY <1>2 DEF Publish, NoBalance, Granted, SpinAt
  <2>2. step \in EngineSteps /\ step # "reset"
        /\ balances' \in Seq(Int) /\ settled' \in Seq(games)
    BY <1>t, <2>1 DEF EngineSteps, TypeInv
  <2>3. TypeInv' /\ \A q \in Replicas : /\ spin'[q].at = IF q = r THEN step ELSE spin[q].at
                                        /\ spin'[q].game = spin[q].game
    BY <1>t, <2>1, <2>2, GotoKeeps
  <2>4. \A q \in Replicas : SpinAt(q, "reset")' => SpinAt(q, "reset") /\ spin'[q] = spin[q]
    BY <1>t, <2>1, <2>2, <2>3 DEF SpinAt, SpinGoto, TypeInv
  <2>5. NeverLeftNegative' /\ ResetsSettled'
    BY <1>t, <2>1, <2>3, <2>4, OthersKeep DEF SpinAt
  <2> QED
    BY <2>3, <2>5 DEF BalanceInv
<1>3. ASSUME NEW r \in Replicas, UpdateBalance(r) PROVE BalanceInv'
  <2> DEFINE x == Net(spin[r].game)
  <2>1. /\ SpinAt(r, "balance") /\ UNCHANGED <<games, lastReset, resetDied>>
        /\ settled' = Append(settled, spin[r].game)
    BY <1>3 DEF UpdateBalance
  <2>2. x \in Int
    BY <1>t, <2>1, NetType DEF TypeInv, SpinAt
  <2>3. PICK i \in DOMAIN balances : /\ balances' = [balances EXCEPT ![i] = @ + x]
                                     /\ SpinGoto(r, AfterBalance(balances'[i]))
    BY <1>3 DEF UpdateBalance
  <2> HIDE DEF x
  <2>4. /\ balances' \in Seq(Int) /\ i \in DOMAIN balances'
        /\ Len(balances') = 1 => i = 1
    BY <1>t, <2>2, <2>3 DEF TypeInv
  <2> QED
    BY <1>t, <2>1, <2>3, <2>4, DebitKeeps DEF SpinAt
<1>4. ASSUME NEW r \in Replicas, UpsertBalance(r) PROVE BalanceInv'
  <2> DEFINE x == Net(spin[r].game)
             n == Len(balances) + 1
  <2>1. /\ SpinAt(r, "upsert") /\ UNCHANGED <<games, lastReset, resetDied>>
        /\ settled' = Append(settled, spin[r].game)
    BY <1>4 DEF UpsertBalance
  <2>2. x \in Int
    BY <1>t, <2>1, NetType DEF TypeInv, SpinAt
  <2>3. balances' = Append(balances, x) /\ SpinGoto(r, AfterBalance(x))
    BY <1>4 DEF UpsertBalance
  <2> HIDE DEF x
  <2>4. /\ balances' \in Seq(Int) /\ n \in DOMAIN balances' /\ balances'[n] = x
        /\ Len(balances') = 1 => n = 1
    BY <1>t, <2>2, <2>3 DEF TypeInv
  <2> HIDE DEF n
  <2> QED
    BY <1>t, <2>1, <2>3, <2>4, DebitKeeps DEF SpinAt
<1>5. ASSUME NEW r \in Replicas, ResetBalance(r) PROVE BalanceInv'
  <2> DEFINE x == DefaultBalance + Net(spin[r].game)
  <2>1. /\ SpinAt(r, "reset") /\ UNCHANGED <<games, settled, resetDied>>
        /\ SpinGoto(r, "validate") /\ lastReset' = Len(settled)
    BY <1>5 DEF ResetBalance
  <2>2. x \in Int /\ spin[r].game \in Range(settled) /\ settled \in Seq(games)
    BY <1>t, <2>1, NetType DEF TypeInv, SpinAt, ResetsSettled
  <2>3. PICK i \in DOMAIN balances : balances' = [balances EXCEPT ![i] = x]
    BY <1>5 DEF ResetBalance
  <2>4. x = DefaultBalance + Net(spin[r].game)
    OBVIOUS
  <2> HIDE DEF x
  <2>5. /\ balances' \in Seq(Int)
        /\ Len(balances') = 1 => balances'[1] = x
    BY <1>t, <2>2, <2>3 DEF TypeInv
  <2>6. TypeInv' /\ \A q \in Replicas : /\ spin'[q].at = IF q = r THEN "validate" ELSE spin[q].at
                                        /\ spin'[q].game = spin[q].game
    BY <1>t, <2>1, <2>2, <2>5, GotoKeeps DEF SpinAt, EngineSteps
  <2>7. ResetsSettled'
    BY <1>t, <2>1, <2>6 DEF ResetsSettled, SpinAt
  <2>8. lastReset' # 0
    <3>1. PICK j \in DOMAIN settled : settled[j] = spin[r].game
      BY <2>2 DEF Range
    <3>2. j \in 1 .. Len(settled) /\ Len(settled) \in Nat
      BY <2>2
    <3> QED
      BY <2>1, <3>2
  <2>9. NeverLeftNegative'
    BY <2>1, <2>2, <2>4, <2>5, <2>8 DEF NeverLeftNegative
  <2> QED
    BY <2>6, <2>7, <2>9 DEF BalanceInv
<1>6. ASSUME NEW r \in Replicas, Refused(r) \/ Answered(r) \/ SpinFails(r) PROVE BalanceInv'
  <2>1. /\ SpinEnds(r) /\ UNCHANGED <<games, balances, settled, lastReset>>
        /\ resetDied => resetDied'
        /\ SpinAt(r, "reset") => resetDied'
    <3>1. CASE Refused(r) \/ Answered(r)
      <4>1. ~SpinAt(r, "reset")
        BY <3>1 DEF Refused, Answered, SpinAt
      <4> QED
        BY <3>1, <4>1 DEF Refused, Answered
    <3>2. CASE SpinFails(r)
      <4>1. resetDied' = (resetDied \/ SpinAt(r, "reset"))
        BY <3>2 DEF SpinFails
      <4>2. (resetDied => resetDied') /\ (SpinAt(r, "reset") => resetDied')
        BY <4>1, Zenon
      <4> QED
        BY <3>2, <4>2 DEF SpinFails
    <3> QED
      BY <1>6, <3>1, <3>2
  <2>2. /\ \A q \in Replicas : q # r => spin'[q] = spin[q]
        /\ spin'[r].at = "idle"
    BY <1>t, <2>1 DEF SpinEnds, TypeInv, NoSpin
  <2>3. NeverLeftNegative' /\ ResetsSettled'
    BY <1>t, <2>1, <2>2, OthersKeep DEF SpinAt
  <2> QED
    BY <1>t, <2>1, <2>3, EndKeeps DEF BalanceInv
<1>7. CASE BrokerDown \/ BrokerUp \/ (\E r \in Replicas : BrokerCloses(r)) \/ UNCHANGED engineVars
  <2>1. UNCHANGED <<games, balances, settled, lastReset, spin, resetDied>>
    BY <1>7 DEF BrokerDown, BrokerUp, BrokerCloses, engineVars
  <2> QED
    BY <1>t, <2>1 DEF BalanceInv, TypeInv, ResetsSettled, NeverLeftNegative, SpinAt
<1> QED
  BY <1>1, <1>2, <1>3, <1>4, <1>5, <1>6, <1>7 DEF EngineNext, Settle, NoSpinServed

\* The types hold at the start, and balances are looked after.
LEMMA BalanceInit == EngineInit => BalanceInv
<1> SUFFICES ASSUME EngineInit PROVE BalanceInv
  OBVIOUS
<1>1. /\ games = {} /\ balances = <<>> /\ settled = <<>>
      /\ \A r \in Replicas : spin[r] = NoSpin
      /\ spin = [r \in Replicas |-> NoSpin]
  BY DEF EngineInit
<1>2. NoSpin \in [at : EngineSteps, game : games \cup {NoGame}] /\ NoSpin.at = "idle"
  BY DEF NoSpin, EngineSteps
<1>3. TypeInv
  BY <1>1, <1>2 DEF TypeInv, SpinAt
<1> QED
  BY <1>1, <1>2, <1>3 DEF BalanceInv, ResetsSettled, NeverLeftNegative, SpinAt

\* Types hold in every state, and balances are looked after.
LEMMA BalanceInvariant == EngineSpec => []BalanceInv
<1> QED
  BY BalanceInit, BalanceNext, PTL DEF EngineSpec

\* The reels never show one thing and pay another, for any symbols and multipliers:
\* a loss is always made to look like one.
THEOREM ShownPaid == EngineSpec => []ShownIsPaid
<1>1. BalanceInv => ShownIsPaid
  BY DEF BalanceInv, TypeInv, Sound, PaysAsShown, ShownIsPaid
<1> QED
  BY <1>1, BalanceInvariant, PTL

\* For all stakes, and however many replicas serve the player: an only balance below
\* zero has a spin that is about to reset it, or one that died there, or is what the
\* reset of a spin that lost more than the default left
\* (MongoBalanceRepository.update_balance, mongo_balance_repository.py:47).
THEOREM NegativeIsRaised == EngineSpec => []NeverLeftNegative
<1>1. BalanceInv => NeverLeftNegative
  BY DEF BalanceInv
<1> QED
  BY <1>1, BalanceInvariant, PTL

------------------------------------------------------------------------------
(***************************************************************************)
(* What settled spins add up to.  A game is new when it is calculated, and *)
(* the one replica that holds it settles it once.                          *)
(***************************************************************************)
Unsettled(r) == spin[r].at \in {"publish", "balance", "upsert"}

SettledInv ==
  /\ IsFiniteSet(games) /\ \A g \in games : g.n \in Nat /\ g.n <= Cardinality(games)
  /\ settled \in Seq(games) /\ lastReset \in Nat
  /\ \A r \in Replicas : Unsettled(r) => spin[r].game \in games
  /\ \A q, r \in Replicas :
       Unsettled(q) /\ Unsettled(r) /\ spin[q].game = spin[r].game => q = r
  /\ \A r \in Replicas, i \in DOMAIN settled : Unsettled(r) => settled[i] # spin[r].game
  /\ IncrementsAddUp

\* What settled games won and lost are integers, one for each.
LEMMA NetsType ==
  ASSUME TypeInv, NEW s \in Seq(games)
  PROVE  Nets(s) \in Seq(Int) /\ Len(Nets(s)) = Len(s)
<1>1. \A g \in games : Net(g) \in Int
  BY NetType DEF TypeInv
<1> QED
  BY <1>1 DEF Nets

\* One more settled game adds what it won or lost.
LEMMA NetsAppend ==
  ASSUME TypeInv, NEW s \in Seq(games), NEW g \in games
  PROVE  Sum(Nets(Append(s, g))) = Sum(Nets(s)) + Net(g)
<1>1. Net(g) \in Int
  BY NetType DEF TypeInv
<1>2. Append(s, g) \in Seq(games) /\ Len(Append(s, g)) = Len(s) + 1 /\ Len(s) \in Nat
      /\ Append(s, g)[Len(s) + 1] = g /\ \A i \in 1 .. Len(s) : Append(s, g)[i] = s[i]
  OBVIOUS
<1>3. Nets(s) \in Seq(Int) /\ Len(Nets(s)) = Len(s)
      /\ Nets(Append(s, g)) \in Seq(Int) /\ Len(Nets(Append(s, g))) = Len(s) + 1
  BY <1>2, NetsType
<1>4. \A i \in 1 .. Len(s) + 1 : Nets(Append(s, g))[i] = Append(Nets(s), Net(g))[i]
  BY <1>1, <1>2, <1>3 DEF Nets
<1>5. Append(Nets(s), Net(g)) \in Seq(Int) /\ Len(Append(Nets(s), Net(g))) = Len(s) + 1
  BY <1>1, <1>3
<1>6. Nets(Append(s, g)) = Append(Nets(s), Net(g))
  BY <1>3, <1>4, <1>5, SeqEqual
<1> QED
  BY <1>1, <1>3, <1>6, SumAppend

\* A step that settles nothing, resets nothing and puts no settled game back
\* keeps the sums.
LEMMA OthersKeepSums ==
  ASSUME SettledInv, UNCHANGED <<games, settled, balances, lastReset>>,
         \A r \in Replicas : Unsettled(r)' => Unsettled(r) /\ spin'[r].game = spin[r].game
  PROVE  SettledInv'
<1>1. IncrementsAddUp'
  BY DEF SettledInv, IncrementsAddUp
<1> QED
  BY <1>1 DEF SettledInv

\* A spin that settles its game and goes on has its change in the balances.
LEMMA SettleKeepsSums ==
  ASSUME TypeInv, SettledInv, NEW r \in Replicas, Unsettled(r),
         NEW step \in EngineSteps, step \notin {"publish", "balance", "upsert"},
         SpinGoto(r, step), settled' = Append(settled, spin[r].game),
         UNCHANGED <<games, lastReset>>,
         Sum(balances') = Sum(balances) + Net(spin[r].game)
  PROVE  SettledInv'
<1> DEFINE g == spin[r].game
<1>1. g \in games /\ settled \in Seq(games) /\ \A i \in DOMAIN settled : settled[i] # g
  BY DEF SettledInv
<1>2. /\ spin'[r].at = step
      /\ \A q \in Replicas : q # r => spin'[q] = spin[q]
  BY DEF SpinGoto, TypeInv
<1>3. /\ settled' = Append(settled, g) /\ SpinAt(r, step)' /\ ~Unsettled(r)'
      /\ \A q \in Replicas : q # r => (Unsettled(q)' <=> Unsettled(q))
  BY <1>2 DEF Unsettled, SpinAt
<1>4. \A q \in Replicas : Unsettled(q) /\ q # r => spin[q].game # g
  BY DEF SettledInv
<1> HIDE DEF g
<1>5. /\ settled' \in Seq(games) /\ Len(settled') = Len(settled) + 1
      /\ settled'[Len(settled) + 1] = g /\ Len(settled) \in Nat
      /\ DOMAIN settled' = 1 .. Len(settled) + 1 /\ DOMAIN settled = 1 .. Len(settled)
      /\ \A i \in 1 .. Len(settled) : settled'[i] = settled[i]
  BY <1>1, <1>3
<1>6. IsInjective(settled')
  <2> SUFFICES ASSUME NEW i \in 1 .. Len(settled) + 1, NEW j \in 1 .. Len(settled) + 1,
                      settled'[i] = settled'[j]
               PROVE  i = j
    BY <1>5 DEF IsInjective
  <2>1. \A k \in 1 .. Len(settled) : settled[k] # g
    BY <1>1, <1>5
  <2>2. CASE i \in 1 .. Len(settled) /\ j \in 1 .. Len(settled)
    BY <1>5, <2>2 DEF SettledInv, IncrementsAddUp, IsInjective
  <2>3. CASE i = Len(settled) + 1 \/ j = Len(settled) + 1
    BY <1>5, <2>1, <2>3
  <2> QED
    BY <1>5, <2>2, <2>3
<1>7. Sum(Nets(settled')) = Sum(Nets(settled)) + Net(g)
  BY <1>1, <1>3, NetsAppend
<1>8. IncrementsAddUp'
  BY <1>6, <1>7 DEF SettledInv, IncrementsAddUp, g
<1>9. \A q \in Replicas, i \in DOMAIN settled' : Unsettled(q)' => settled'[i] # spin'[q].game
  <2> SUFFICES ASSUME NEW q \in Replicas, NEW i \in 1 .. Len(settled) + 1, Unsettled(q)'
               PROVE  settled'[i] # spin'[q].game
    BY <1>5
  <2>1. q # r /\ Unsettled(q) /\ spin'[q] = spin[q] /\ spin[q].game # g
    BY <1>2, <1>3, <1>4
  <2>2. CASE i \in 1 .. Len(settled)
    BY <1>5, <2>1, <2>2 DEF SettledInv
  <2>3. CASE i = Len(settled) + 1
    BY <1>5, <2>1, <2>3
  <2> QED
    BY <1>5, <2>2, <2>3
<1>10. \A p, q \in Replicas :
         Unsettled(p)' /\ Unsettled(q)' /\ spin'[p].game = spin'[q].game => p = q
  BY <1>2, <1>3 DEF SettledInv
<1>11. \A q \in Replicas : Unsettled(q)' => spin'[q].game \in games'
  BY <1>2, <1>3 DEF SettledInv
<1> QED
  BY <1>5, <1>8, <1>9, <1>10, <1>11 DEF SettledInv

\* Every step keeps the sums.
LEMMA SettledNext ==
  ASSUME BalanceInv, SettledInv, [EngineNext]_engineVars
  PROVE  SettledInv'
<1> USE DEF store, bus
<1>t. /\ TypeInv /\ balances \in Seq(Int)
      /\ \A r \in Replicas : spin[r] \in [at : EngineSteps, game : games \cup {NoGame}]
  BY DEF BalanceInv, TypeInv
<1>g. ASSUME NEW r \in Replicas, NEW step \in EngineSteps, SpinGoto(r, step)
      PROVE  /\ spin'[r].at = step /\ spin'[r].game = spin[r].game
             /\ \A q \in Replicas : q # r => spin'[q] = spin[q]
  BY <1>g, <1>t DEF SpinGoto, TypeInv
<1>1. ASSUME NEW r \in Replicas, NEW bet \in Bets, NEW outcome \in Outcomes,
             Calculate(r, bet, outcome)
      PROVE  SettledInv'
  <2>1. PICK g : g = NewGame(bet, outcome)
    OBVIOUS
  <2>2. g.n = Cardinality(games) + 1 /\ Cardinality(games) \in Nat
    BY <2>1, FS_CardinalityType DEF NewGame, SettledInv
  <2>3. /\ games' = games \cup {g} /\ UNCHANGED <<balances, settled, lastReset>>
        /\ spin'[r] = [at |-> "publish", game |-> g]
        /\ \A q \in Replicas : q # r => spin'[q] = spin[q]
    BY <1>1, <2>1 DEF Calculate, BalanceInv, TypeInv
  <2>4. g \notin games
    BY <2>2 DEF SettledInv
  <2>5. /\ IsFiniteSet(games')
        /\ \A x \in games' : x.n \in Nat /\ x.n <= Cardinality(games')
    <3>1. IsFiniteSet(games') /\ Cardinality(games') = Cardinality(games) + 1
      BY <2>3, <2>4, FS_AddElement DEF SettledInv
    <3>2. \A x \in games : x.n \in Nat /\ x.n <= Cardinality(games)
      BY DEF SettledInv
    <3>3. \A x \in games' : x \in games \/ x.n = Cardinality(games) + 1
      BY <2>2, <2>3
    <3> QED
      BY <2>2, <3>1, <3>2, <3>3
  <2>6. settled' \in Seq(games') /\ \A i \in DOMAIN settled : settled[i] \in games
    BY <2>3 DEF SettledInv
  <2>7. \A q \in Replicas : Unsettled(q)' => \/ q = r /\ spin'[q].game = g
                                             \/ q # r /\ Unsettled(q) /\ spin'[q] = spin[q]
    BY <2>3 DEF Unsettled
  <2>8. \A q \in Replicas : Unsettled(q)' => spin'[q].game \in games'
    BY <2>3, <2>7 DEF SettledInv
  <2>9. \A p, q \in Replicas :
          Unsettled(p)' /\ Unsettled(q)' /\ spin'[p].game = spin'[q].game => p = q
    BY <2>4, <2>7 DEF SettledInv
  <2>10. \A q \in Replicas, i \in DOMAIN settled :
           Unsettled(q)' => settled[i] # spin'[q].game
    BY <2>4, <2>6, <2>7 DEF SettledInv
  <2>11. IncrementsAddUp'
    BY <2>3 DEF SettledInv, IncrementsAddUp
  <2> QED
    BY <2>3, <2>5, <2>6, <2>8, <2>9, <2>10, <2>11 DEF SettledInv
<1>2. ASSUME NEW r \in Replicas, Publish(r) \/ NoBalance(r) \/ Granted(r) PROVE SettledInv'
  <2>1. /\ UNCHANGED <<games, settled, balances, lastReset>>
        /\ \/ Unsettled(r) /\ (SpinGoto(r, "balance") \/ SpinGoto(r, "upsert"))
           \/ SpinGoto(r, "place")
    BY <1>2 DEF Publish, NoBalance, Granted, SpinAt, Unsettled
  <2>2. \A q \in Replicas : Unsettled(q)' => Unsettled(q) /\ spin'[q].game = spin[q].game
    BY <1>g, <2>1 DEF Unsettled, EngineSteps
  <2> QED
    BY <2>1, <2>2, OthersKeepSums
<1>3. ASSUME NEW r \in Replicas, UpdateBalance(r) PROVE SettledInv'
  <2> DEFINE x == Net(spin[r].game)
  <2>1. SpinAt(r, "balance") /\ Sound(spin[r].game) /\ Unsettled(r)
    BY <1>3, <1>t DEF UpdateBalance, TypeInv, SpinAt, Unsettled
  <2>2. x \in Int
    BY <2>1, NetType
  <2>3. PICK i \in DOMAIN balances : /\ balances' = [balances EXCEPT ![i] = @ + x]
                                     /\ SpinGoto(r, AfterBalance(balances'[i]))
    BY <1>3 DEF UpdateBalance
  <2> HIDE DEF x
  <2>4. /\ i \in 1 .. Len(balances) /\ balances[i] \in Int /\ balances[i] + x \in Int
        /\ balances' = [balances EXCEPT ![i] = balances[i] + x]
        /\ balances'[i] = balances[i] + x
    BY <1>t, <2>2, <2>3
  <2>5. Sum(balances') = Sum(balances) + x
    <3>1. PICK y \in Int : y = balances[i] + x
      BY <2>4
    <3>2. Sum(balances') = Sum(balances) + (y - balances[i])
      BY <1>t, <2>4, <3>1, SumExcept
    <3>3. y - balances[i] = x
      BY <2>2, <2>4, <3>1
    <3> QED
      BY <3>2, <3>3
  <2>6. /\ AfterBalance(balances'[i]) \in EngineSteps
        /\ AfterBalance(balances'[i]) \notin {"publish", "balance", "upsert"}
    BY <2>4, AfterDebit DEF AfterBalance
  <2> QED
    BY <1>3, <1>t, <2>1, <2>3, <2>5, <2>6, SettleKeepsSums DEF UpdateBalance, x
<1>4. ASSUME NEW r \in Replicas, UpsertBalance(r) PROVE SettledInv'
  <2> DEFINE x == Net(spin[r].game)
  <2>1. SpinAt(r, "upsert") /\ Sound(spin[r].game) /\ Unsettled(r)
    BY <1>4, <1>t DEF UpsertBalance, TypeInv, SpinAt, Unsettled
  <2>2. x \in Int
    BY <2>1, NetType
  <2>3. balances' = Append(balances, x) /\ SpinGoto(r, AfterBalance(x))
    BY <1>4 DEF UpsertBalance
  <2> HIDE DEF x
  <2>4. Sum(balances') = Sum(balances) + x
    BY <1>t, <2>2, <2>3, SumAppend
  <2>5. AfterBalance(x) \in EngineSteps /\ AfterBalance(x) \notin {"publish", "balance", "upsert"}
    BY <2>2, AfterDebit DEF AfterBalance
  <2> QED
    BY <1>4, <1>t, <2>1, <2>3, <2>4, <2>5, SettleKeepsSums DEF UpsertBalance, x
<1>5. ASSUME NEW r \in Replicas, ResetBalance(r) PROVE SettledInv'
  <2>1. /\ UNCHANGED <<games, settled>> /\ lastReset' = Len(settled)
        /\ SpinGoto(r, "validate") /\ SpinAt(r, "reset")
    BY <1>5 DEF ResetBalance
  <2>2. \A q \in Replicas : Unsettled(q)' => Unsettled(q) /\ spin'[q].game = spin[q].game
    BY <1>g, <2>1 DEF Unsettled, EngineSteps
  <2>3. lastReset' \in Nat /\ lastReset' # 0
    <3>1. PICK j \in DOMAIN settled : settled[j] = spin[r].game
      BY <2>1 DEF BalanceInv, ResetsSettled, Range
    <3>2. j \in 1 .. Len(settled) /\ Len(settled) \in Nat
      BY DEF SettledInv
    <3> QED
      BY <2>1, <3>2
  <2>4. IncrementsAddUp'
    BY <2>1, <2>3 DEF SettledInv, IncrementsAddUp
  <2> QED
    BY <2>1, <2>2, <2>3, <2>4 DEF SettledInv
<1>6. ASSUME NEW r \in Replicas, Refused(r) \/ Answered(r) \/ SpinFails(r) PROVE SettledInv'
  <2>1. UNCHANGED <<games, settled, balances, lastReset>> /\ SpinEnds(r)
    BY <1>6 DEF Refused, Answered, SpinFails
  <2>2. \A q \in Replicas : Unsettled(q)' => Unsettled(q) /\ spin'[q].game = spin[q].game
    BY <2>1 DEF Unsettled, SpinEnds, NoSpin, BalanceInv, TypeInv
  <2> QED
    BY <2>1, <2>2, OthersKeepSums
<1>7. CASE BrokerDown \/ BrokerUp \/ (\E r \in Replicas : BrokerCloses(r)) \/ UNCHANGED engineVars
  <2>1. UNCHANGED <<games, settled, balances, lastReset, spin>>
    BY <1>7 DEF BrokerDown, BrokerUp, BrokerCloses, engineVars
  <2> QED
    BY <2>1, OthersKeepSums DEF Unsettled
<1> QED
  BY <1>1, <1>2, <1>3, <1>4, <1>5, <1>6, <1>7 DEF EngineNext, Settle, NoSpinServed

\* Nothing is settled at the start.
LEMMA SettledInit == EngineInit => SettledInv
<1> SUFFICES ASSUME EngineInit PROVE SettledInv
  OBVIOUS
<1>1. /\ games = {} /\ settled = <<>> /\ balances = <<>> /\ lastReset = 0
      /\ \A r \in Replicas : spin[r].at = "idle"
  BY DEF EngineInit, NoSpin
<1>2. IsFiniteSet({})
  BY FS_EmptySet
<1>3. Nets(<<>>) = <<>> /\ IsInjective(<<>>)
  BY DEF Nets, IsInjective
<1>4. IncrementsAddUp
  BY <1>1, <1>3 DEF IncrementsAddUp
<1> QED
  BY <1>1, <1>2, <1>4 DEF SettledInv, Unsettled

\* Until a balance is set to the default, all that replicas insert and increment adds
\* up to what the spins won and lost, whatever dies between
\* (MongoBalanceRepository.update_balance, mongo_balance_repository.py:35).
THEOREM NoIncrementLost == EngineSpec => []IncrementsAddUp
<1>1. EngineInit => SettledInv
  BY SettledInit
<1>2. BalanceInv /\ SettledInv /\ [EngineNext]_engineVars => SettledInv'
  BY SettledNext
<1>3. SettledInv => IncrementsAddUp
  BY DEF SettledInv
<1> QED
  BY <1>1, <1>2, <1>3, BalanceInvariant, PTL DEF EngineSpec

------------------------------------------------------------------------------
(***************************************************************************)
(* Resets.  What a balance below zero has gained when it is reset was won  *)
(* by spins that settled after the one that resets it.                     *)
(***************************************************************************)
OverlapInv ==
  /\ balances = <<>> => settled = <<>>
  /\ Len(balances) = 1 =>
       \A r \in Replicas, p \in DOMAIN settled :
         SpinAt(r, "reset") /\ settled[p] = spin[r].game /\ lastReset < p =>
           balances[1] < Since(p)

\* A player's only document.
LEMMA OnlyBalance ==
  ASSUME balances \in Seq(Int), Len(balances) = 1
  PROVE  DOMAIN balances = {1} /\ balances[1] \in Int
<1>1. balances \in [1 .. 1 -> Int] /\ DOMAIN balances = 1 .. 1
  BY LenProperties
<1> QED
  BY <1>1

\* What the spins settled since have won is a number, and one more adds to it.
LEMMA SinceGrows ==
  ASSUME TypeInv, NEW g \in games, settled' = Append(settled, g), UNCHANGED games
  PROVE  /\ \A p \in DOMAIN settled : Since(p) \in Int /\ Since(p)' = Since(p) + Net(g)
         /\ \A k \in Nat : k = Len(settled) + 1 => Since(k)' = 0
<1> DEFINE n == Len(settled)
           tail(p) == SubSeq(settled, p + 1, n)
<1>1. /\ settled \in Seq(games) /\ n \in Nat /\ settled' \in Seq(games) /\ Len(settled') = n + 1
      /\ settled'[n + 1] = g /\ \A i \in 1 .. n : settled'[i] = settled[i]
      /\ DOMAIN settled = 1 .. n
  BY SettledGrows DEF TypeInv
<1>2. ASSUME NEW p \in DOMAIN settled
      PROVE  Since(p) \in Int /\ Since(p)' = Since(p) + Net(g)
  <2>1. p \in 1 .. n
    BY <1>1
  <2>2. /\ tail(p) \in Seq(games)
        /\ Len(tail(p)) = n - p
        /\ \A i \in 1 .. n - p : tail(p)[i] = settled[p + i]
    <3>1. \A i \in p + 1 .. n : settled[i] \in games
      BY <1>1, <2>1
    <3>2. /\ tail(p) \in Seq(games)
          /\ Len(tail(p)) = IF p + 1 <= n THEN n - (p + 1) + 1 ELSE 0
          /\ \A i \in 1 .. n - (p + 1) + 1 : tail(p)[i] = settled[(p + 1) + i - 1]
      BY <1>1, <2>1, <3>1, SubSeqProperties
    <3>3. n - (p + 1) + 1 = n - p /\ \A i \in 1 .. n - p : (p + 1) + i - 1 = p + i
      BY <1>1, <2>1
    <3> QED
      BY <1>1, <2>1, <3>2, <3>3
  <2> DEFINE longer == SubSeq(settled', p + 1, Len(settled'))
  <2>3. /\ longer \in Seq(games)
        /\ Len(longer) = n - p + 1
        /\ \A i \in 1 .. n - p + 1 : longer[i] = settled'[p + i]
    <3>1. \A i \in p + 1 .. n + 1 : settled'[i] \in games
      BY <1>1, <2>1
    <3>2. /\ longer \in Seq(games)
          /\ Len(longer) = IF p + 1 <= n + 1 THEN (n + 1) - (p + 1) + 1 ELSE 0
          /\ \A i \in 1 .. (n + 1) - (p + 1) + 1 : longer[i] = settled'[(p + 1) + i - 1]
      BY <1>1, <2>1, <3>1, SubSeqProperties
    <3> HIDE DEF longer, n
    <3>3. (n + 1) - (p + 1) + 1 = n - p + 1 /\ n - p + 1 \in Nat /\ p + 1 <= n + 1
      BY <1>1, <2>1
    <3>4. Len(longer) = n - p + 1
      BY <3>2, <3>3
    <3>5. \A i \in 1 .. n - p + 1 : longer[i] = settled'[(p + 1) + i - 1]
      BY <3>2, <3>3
    <3>6. \A i \in 1 .. n - p + 1 : (p + 1) + i - 1 = p + i
      BY <1>1, <2>1
    <3>7. \A i \in 1 .. n - p + 1 : longer[i] = settled'[p + i]
      BY <3>5, <3>6
    <3> QED
      BY <3>2, <3>4, <3>7
  <2> DEFINE app == Append(tail(p), g)
  <2>4. /\ app \in Seq(games) /\ Len(app) = n - p + 1
        /\ \A i \in 1 .. n - p : app[i] = tail(p)[i]
        /\ app[n - p + 1] = g
    <3> HIDE DEF tail
    <3> QED
      BY <2>2
  <2>5. longer = app
    <3>1. \A i \in 1 .. n - p + 1 : longer[i] = app[i]
      <4> SUFFICES ASSUME NEW i \in 1 .. n - p + 1 PROVE longer[i] = app[i]
        OBVIOUS
      <4> HIDE DEF longer, app, tail
      <4>1. CASE i \in 1 .. n - p
        <5>1. p + i \in 1 .. n
          BY <1>1, <2>1, <4>1
        <5> QED
          BY <1>1, <2>2, <2>3, <2>4, <4>1, <5>1
      <4>2. CASE i = n - p + 1
        <5>1. p + i = n + 1
          BY <1>1, <2>1, <4>2
        <5> QED
          BY <1>1, <2>3, <2>4, <4>2, <5>1
      <4> QED
        BY <1>1, <2>1, <4>1, <4>2
    <3> HIDE DEF longer, app
    <3> QED
      BY <2>3, <2>4, <3>1, SeqEqual
  <2>6. Since(p) = Sum(Nets(tail(p))) /\ Since(p)' = Sum(Nets(longer))
    BY DEF Since, Nets, Net, Sum, Sums
  <2>7. Sum(Nets(tail(p))) \in Int /\ Sum(Nets(app)) = Sum(Nets(tail(p))) + Net(g)
    <3> HIDE DEF tail
    <3>1. Nets(tail(p)) \in Seq(Int)
      BY <2>2, NetsType
    <3> QED
      BY <2>2, <3>1, NetsAppend, SumsSteps
  <2> QED
    BY <2>5, <2>6, <2>7
<1>3. ASSUME NEW k \in Nat, k = n + 1 PROVE Since(k)' = 0
  <2>1. SubSeq(settled', k + 1, Len(settled')) = <<>>
    BY <1>1, <1>3, SubSeqEmpty
  <2>2. Nets(<<>>) = <<>>
    BY DEF Nets
  <2> QED
    BY <2>1, <2>2, SumEmpty DEF Since
<1> QED
  BY <1>2, <1>3

\* Every step keeps what a balance has gained since.
LEMMA OverlapNext ==
  ASSUME BalanceInv, SettledInv, OverlapInv, [EngineNext]_engineVars
  PROVE  OverlapInv'
<1> USE DEF store, bus
<1>t. /\ TypeInv /\ ResetsSettled /\ balances \in Seq(Int) /\ settled \in Seq(games)
      /\ \A r \in Replicas : spin[r] \in [at : EngineSteps, game : games \cup {NoGame}]
  BY DEF BalanceInv, TypeInv
<1>g. ASSUME NEW r \in Replicas, NEW step \in EngineSteps, SpinGoto(r, step)
      PROVE  /\ spin'[r].at = step /\ spin'[r].game = spin[r].game
             /\ \A q \in Replicas : q # r => spin'[q] = spin[q]
  BY <1>g, <1>t DEF SpinGoto, TypeInv
<1>k. ASSUME UNCHANGED <<balances, settled, lastReset>>,
             \A q \in Replicas : SpinAt(q, "reset")' => SpinAt(q, "reset")
                                                        /\ spin'[q].game = spin[q].game
      PROVE  OverlapInv'
  <2>1. \A p : Since(p)' = Since(p)
    BY <1>k DEF Since
  <2> QED
    BY <1>k, <2>1 DEF OverlapInv
<1>d. ASSUME NEW r \in Replicas, Unsettled(r), NEW i \in DOMAIN balances',
             balances' \in Seq(Int), Len(balances') = 1 => i = 1, balances' # <<>>,
             \/ balances = <<>>
             \/ Len(balances') = Len(balances)
                /\ balances'[i] = balances[i] + Net(spin[r].game)
             \/ Len(balances') # 1,
             SpinGoto(r, AfterBalance(balances'[i])),
             settled' = Append(settled, spin[r].game), UNCHANGED <<games, lastReset>>
      PROVE  OverlapInv'
  <2> SUFFICES ASSUME Len(balances') = 1, NEW q \in Replicas, NEW p \in DOMAIN settled',
                      SpinAt(q, "reset")', settled'[p] = spin'[q].game, lastReset < p
               PROVE  balances'[1] < Since(p)'
    BY <1>d DEF OverlapInv
  <2>g. spin[r].game \in games /\ \A j \in DOMAIN settled : settled[j] # spin[r].game
    BY <1>d DEF SettledInv
  <2>1. /\ settled' \in Seq(games) /\ Len(settled) \in Nat
        /\ settled'[Len(settled) + 1] = spin[r].game
        /\ \A j \in 1 .. Len(settled) : settled'[j] = settled[j]
        /\ DOMAIN settled = 1 .. Len(settled) /\ DOMAIN settled' = 1 .. Len(settled) + 1
    BY <1>t, <1>d, <2>g, SettledGrows
  <2>2. /\ balances'[i] \in Int /\ i = 1
        /\ AfterBalance(balances'[i]) \in EngineSteps
        /\ balances'[1] < 0 <=> AfterBalance(balances'[i]) = "reset"
    BY <1>d, AfterDebit
  <2>3. /\ spin'[r].at = AfterBalance(balances'[i]) /\ spin'[r].game = spin[r].game
        /\ \A x \in Replicas : x # r => spin'[x] = spin[x]
    BY <1>d, <1>g, <2>2
  <2>4. /\ \A j \in DOMAIN settled : Since(j) \in Int
                                     /\ Since(j)' = Since(j) + Net(spin[r].game)
        /\ \A k \in Nat : k = Len(settled) + 1 => Since(k)' = 0
    BY <1>t, <1>d, <2>g, SinceGrows
  <2>5. CASE q = r
    <3>1. p = Len(settled) + 1
      BY <2>1, <2>3, <2>5, <2>g
    <3>2. Since(p)' = 0
      BY <2>1, <2>4, <3>1
    <3>3. balances'[1] < 0
      BY <2>2, <2>3, <2>5 DEF SpinAt
    <3> QED
      BY <3>2, <3>3
  <2>6. CASE q # r
    <3>1. spin'[q] = spin[q] /\ SpinAt(q, "reset") /\ settled'[p] = spin[q].game
      BY <2>3, <2>6 DEF SpinAt
    <3>2. PICK j \in DOMAIN settled : settled[j] = spin[q].game
      BY <1>t, <3>1 DEF ResetsSettled, Range
    <3>3. p \in DOMAIN settled /\ settled[p] = spin[q].game
      BY <2>1, <2>g, <3>1, <3>2
    <3>4. balances # <<>>
      BY <2>1, <3>3 DEF OverlapInv
    <3>5. Len(balances) = 1 /\ balances'[1] = balances[1] + Net(spin[r].game)
      BY <1>d, <2>2, <3>4
    <3>6. balances[1] < Since(p)
      BY <3>1, <3>3, <3>5 DEF OverlapInv
    <3>7. /\ balances[1] \in Int /\ Since(p) \in Int /\ Net(spin[r].game) \in Int
          /\ Since(p)' = Since(p) + Net(spin[r].game)
      <4>1. Sound(spin[r].game)
        BY <1>t, <2>g DEF TypeInv
      <4>2. balances[1] \in Int
        BY <1>t, <3>5, OnlyBalance
      <4> QED
        BY <2>4, <3>3, <4>1, <4>2, NetType
    <3> QED
      BY <3>5, <3>6, <3>7
  <2> QED
    BY <2>5, <2>6
<1>1. ASSUME NEW r \in Replicas, NEW bet \in Bets, NEW outcome \in Outcomes,
             Calculate(r, bet, outcome)
      PROVE  OverlapInv'
  <2>1. /\ UNCHANGED <<balances, settled, lastReset>> /\ spin'[r].at = "publish"
        /\ \A q \in Replicas : q # r => spin'[q] = spin[q]
    BY <1>1, <1>t DEF Calculate, TypeInv
  <2> QED
    BY <1>k, <2>1 DEF SpinAt
<1>2. ASSUME NEW r \in Replicas, Publish(r) \/ NoBalance(r) \/ Granted(r) PROVE OverlapInv'
  <2>1. PICK step \in {"balance", "upsert", "place"} :
          SpinGoto(r, step) /\ UNCHANGED <<balances, settled, lastReset>>
    BY <1>2 DEF Publish, NoBalance, Granted
  <2>2. step \in EngineSteps /\ step # "reset"
    BY DEF EngineSteps
  <2> QED
    BY <1>g, <1>k, <2>1, <2>2 DEF SpinAt
<1>3. ASSUME NEW r \in Replicas, UpdateBalance(r) PROVE OverlapInv'
  <2> DEFINE x == Net(spin[r].game)
  <2>1. /\ SpinAt(r, "balance") /\ Unsettled(r) /\ UNCHANGED <<games, lastReset>>
        /\ settled' = Append(settled, spin[r].game)
    BY <1>3 DEF UpdateBalance, SpinAt, Unsettled
  <2>2. x \in Int
    BY <1>t, <2>1, NetType DEF TypeInv, SpinAt
  <2>3. PICK i \in DOMAIN balances : /\ balances' = [balances EXCEPT ![i] = @ + x]
                                     /\ SpinGoto(r, AfterBalance(balances'[i]))
    BY <1>3 DEF UpdateBalance
  <2> HIDE DEF x
  <2>4. /\ balances' \in Seq(Int) /\ i \in DOMAIN balances' /\ balances' # <<>>
        /\ Len(balances') = Len(balances) /\ balances'[i] = balances[i] + x
        /\ Len(balances') = 1 => i = 1
    BY <1>t, <2>2, <2>3
  <2> QED
    BY <1>d, <2>1, <2>3, <2>4 DEF x
<1>4. ASSUME NEW r \in Replicas, UpsertBalance(r) PROVE OverlapInv'
  <2> DEFINE x == Net(spin[r].game)
             n == Len(balances) + 1
  <2>1. /\ SpinAt(r, "upsert") /\ Unsettled(r) /\ UNCHANGED <<games, lastReset>>
        /\ settled' = Append(settled, spin[r].game)
    BY <1>4 DEF UpsertBalance, SpinAt, Unsettled
  <2>2. x \in Int
    BY <1>t, <2>1, NetType DEF TypeInv, SpinAt
  <2>3. balances' = Append(balances, x) /\ SpinGoto(r, AfterBalance(x))
    BY <1>4 DEF UpsertBalance
  <2> HIDE DEF x
  <2>4. /\ balances' \in Seq(Int) /\ n \in DOMAIN balances' /\ balances'[n] = x
        /\ balances' # <<>> /\ Len(balances') = n
        /\ Len(balances') = 1 => n = 1
        /\ balances = <<>> \/ Len(balances') # 1
    <3>1. Len(balances) \in Nat /\ (balances # <<>> => Len(balances) # 0)
      BY <1>t, EmptySeq
    <3>2. /\ balances' \in Seq(Int) /\ Len(balances') = n /\ n \in 1 .. Len(balances')
          /\ balances'[n] = x /\ DOMAIN balances' = 1 .. Len(balances')
      BY <1>t, <2>2, <2>3
    <3>3. balances' # <<>>
      BY <3>1, <3>2
    <3> QED
      BY <3>1, <3>2, <3>3
  <2> HIDE DEF n
  <2> QED
    BY <1>d, <2>1, <2>3, <2>4
<1>5. ASSUME NEW r \in Replicas, ResetBalance(r) PROVE OverlapInv'
  <2>1. lastReset' = Len(settled) /\ settled' = settled /\ DOMAIN settled = 1 .. Len(settled)
        /\ Len(settled) \in Nat
    BY <1>5, <1>t DEF ResetBalance
  <2>2. balances' = <<>> => balances = <<>>
    BY <1>5, <1>t DEF ResetBalance
  <2>3. \A p \in DOMAIN settled' : ~(lastReset' < p)
    BY <2>1
  <2> QED
    BY <2>1, <2>2, <2>3 DEF OverlapInv
<1>6. ASSUME NEW r \in Replicas, Refused(r) \/ Answered(r) \/ SpinFails(r) PROVE OverlapInv'
  <2>1. UNCHANGED <<balances, settled, lastReset>> /\ SpinEnds(r)
    BY <1>6 DEF Refused, Answered, SpinFails
  <2>2. /\ \A q \in Replicas : q # r => spin'[q] = spin[q]
        /\ spin'[r].at = "idle"
    BY <1>t, <2>1 DEF SpinEnds, TypeInv, NoSpin
  <2> QED
    BY <1>k, <2>1, <2>2 DEF SpinAt
<1>7. CASE BrokerDown \/ BrokerUp \/ (\E r \in Replicas : BrokerCloses(r)) \/ UNCHANGED engineVars
  <2>1. UNCHANGED <<balances, settled, lastReset, spin>>
    BY <1>7 DEF BrokerDown, BrokerUp, BrokerCloses, engineVars
  <2> QED
    BY <1>k, <2>1 DEF SpinAt
<1> QED
  BY <1>1, <1>2, <1>3, <1>4, <1>5, <1>6, <1>7 DEF EngineNext, Settle, NoSpinServed

\* A reset takes no more than has been won since.
LEMMA ResetTakes ==
  ASSUME BalanceInv, OverlapInv, [EngineNext]_engineVars,
         NEW r \in Replicas, NEW p \in DOMAIN settled,
         SpinAt(r, "reset"), SpinAt(r, "validate")', settled[p] = spin[r].game,
         lastReset < p, Len(balances) = 1, DefaultBalance + Net(settled[p]) >= 0
  PROVE  balances[1] <= balances'[1] + Since(p)
<1> USE DEF store, bus
<1>t. TypeInv /\ balances \in Seq(Int) /\ settled \in Seq(games)
  BY DEF BalanceInv, TypeInv
<1> DEFINE x == DefaultBalance + Net(spin[r].game)
<1>1. ResetBalance(r)
  <2>1. spin[r].at = "reset" /\ spin'[r].at = "validate"
    BY DEF SpinAt
  <2>2. ASSUME NEW q \in Replicas, NEW bet \in Bets, NEW outcome \in Outcomes,
               Calculate(q, bet, outcome)
        PROVE  FALSE
    BY <2>1, <2>2, <1>t DEF Calculate, TypeInv
  <2>3. ASSUME NEW q \in Replicas, q # r, NEW step, SpinGoto(q, step) PROVE FALSE
    BY <2>1, <2>3, <1>t DEF SpinGoto, TypeInv
  <2>4. ASSUME NEW q \in Replicas, SpinEnds(q) PROVE FALSE
    BY <2>1, <2>4, <1>t DEF SpinEnds, NoSpin, TypeInv
  <2>5. ASSUME NEW q \in Replicas, Settle(q) \/ Granted(q) PROVE ResetBalance(r)
    <3>1. CASE ResetBalance(q)
      BY <2>3, <3>1 DEF ResetBalance
    <3>2. CASE ~ResetBalance(q)
      <4>1. q # r
        BY <2>1, <2>5, <3>2 DEF Settle, Publish, UpdateBalance, NoBalance, UpsertBalance,
           Granted, SpinAt
      <4>2. \E step : SpinGoto(q, step)
        BY <2>5, <3>2 DEF Settle, Publish, UpdateBalance, NoBalance, UpsertBalance, Granted
      <4> QED
        BY <2>3, <4>1, <4>2
    <3> QED
      BY <3>1, <3>2
  <2>6. ASSUME NEW q \in Replicas, Refused(q) \/ Answered(q) \/ SpinFails(q) PROVE FALSE
    BY <2>4, <2>6 DEF Refused, Answered, SpinFails
  <2>7. spin' # spin
    BY <2>1
  <2> QED
    BY <2>2, <2>5, <2>6, <2>7 DEF EngineNext, NoSpinServed, BrokerDown, BrokerUp, BrokerCloses,
       engineVars
<1>2. x \in Int /\ x >= 0
  BY <1>t, NetType DEF TypeInv, SpinAt
<1>3. balances' = [balances EXCEPT ![1] = x] /\ balances[1] \in Int
  <2>1. PICK i \in DOMAIN balances : balances' = [balances EXCEPT ![i] = x]
    BY <1>1 DEF ResetBalance
  <2> HIDE DEF x
  <2>2. i = 1 /\ balances[1] \in Int
    BY <1>t, <2>1, OnlyBalance
  <2> QED
    BY <2>1, <2>2
<1>4. balances'[1] = x
  <2> HIDE DEF x
  <2> QED
    BY <1>t, <1>3, OnlyBalance
<1>5. balances[1] < Since(p)
  BY DEF OverlapInv
<1>6. Since(p) \in Int
  <2>1. SubSeq(settled, p + 1, Len(settled)) \in Seq(games)
    BY <1>t, SubSeqProperties
  <2> QED
    BY <1>t, <2>1, NetsType, SumsSteps DEF Since
<1> HIDE DEF x
<1> QED
  BY <1>2, <1>3, <1>4, <1>5, <1>6

\* For all stakes and any number of replicas: setting the balance to the default takes
\* from the player at most what overlapping spins won meanwhile, and nothing where
\* none overlaps (MongoBalanceRepository.update_balance, mongo_balance_repository.py:47).
THEOREM ResetsTakeOverlap == EngineSpec => ResetTakesOnlyOverlap
<1>1. EngineInit => SettledInv /\ OverlapInv
  BY SettledInit DEF EngineInit, OverlapInv
<1>2. BalanceInv /\ SettledInv /\ OverlapInv /\ [EngineNext]_engineVars
        => SettledInv' /\ OverlapInv'
  BY SettledNext, OverlapNext
<1>3. BalanceInv /\ OverlapInv /\ [EngineNext]_engineVars =>
        [\A r \in Replicas, p \in DOMAIN settled :
           /\ SpinAt(r, "reset") /\ SpinAt(r, "validate")'
           /\ settled[p] = spin[r].game /\ lastReset < p
           /\ Len(balances) = 1 /\ DefaultBalance + Net(settled[p]) >= 0
           => balances[1] <= balances'[1] + Since(p)]_engineVars
  BY ResetTakes
<1> QED
  BY <1>1, <1>2, <1>3, BalanceInvariant, PTL DEF EngineSpec, ResetTakesOnlyOverlap

------------------------------------------------------------------------------
(***************************************************************************)
(* Links.  A replica loses a result of a broker that is reachable when its *)
(* link is broken, which then is not.                                      *)
(***************************************************************************)
Broken == {r \in Replicas : link[r] = "broken"}

LinksInv ==
  /\ link \in [Replicas -> Links]
  /\ breaks \in Nat /\ missed \in Nat
  /\ missed + Cardinality(Broken) <= breaks

\* Sets of replicas have a number of elements.
LEMMA ReplicasCounted ==
  ASSUME NEW S, S \subseteq Replicas
  PROVE  IsFiniteSet(S) /\ Cardinality(S) \in Nat
  BY EngineAssumption, FS_Subset, FS_CardinalityType DEF EngineAssumption

\* Every step keeps the count of breaks ahead.
LEMMA LinksNext == LinksInv /\ [EngineNext]_engineVars => LinksInv'
<1> SUFFICES ASSUME LinksInv, [EngineNext]_engineVars PROVE LinksInv'
  OBVIOUS
<1>l. /\ link \in [Replicas -> Links] /\ breaks \in Nat /\ missed \in Nat
      /\ missed + Cardinality(Broken) <= breaks
      /\ IsFiniteSet(Broken) /\ Cardinality(Broken) \in Nat
  BY ReplicasCounted DEF LinksInv, Broken
<1>1. ASSUME NEW r \in Replicas, Publish(r) PROVE LinksInv'
  <2> DEFINE works == link[r] = "open" \/ (link[r] = "none" /\ broker)
  <2>1. /\ link' = [link EXCEPT ![r] = IF works THEN "open" ELSE "none"]
        /\ missed' = IF works \/ ~broker THEN missed ELSE missed + 1
        /\ breaks' = breaks
    BY <1>1 DEF Publish, LinkAfterError
  <2>2. link' \in [Replicas -> Links] /\ Broken' = Broken \ {r}
    BY <1>l, <2>1 DEF Links, Broken
  <2>3. /\ Cardinality(Broken') \in Nat
        /\ Cardinality(Broken') = IF r \in Broken THEN Cardinality(Broken) - 1
                                  ELSE Cardinality(Broken)
    BY <1>l, <2>2, FS_RemoveElement, FS_CardinalityType
  <2>4. missed' # missed => missed' = missed + 1 /\ r \in Broken
    BY <1>l, <2>1 DEF Broken, Links
  <2> HIDE DEF works
  <2>5. missed' \in Nat /\ missed' + Cardinality(Broken') <= breaks'
    BY <1>l, <2>1, <2>3, <2>4
  <2> QED
    BY <1>l, <2>1, <2>2, <2>5 DEF LinksInv
<1>2. CASE BrokerDown
  <2>1. PICK noticed \in SUBSET Replicas :
          link' = [r \in Replicas |-> IF link[r] = "none" \/ r \in noticed THEN "none"
                                      ELSE "broken"]
    BY <1>2 DEF BrokerDown
  <2>2. /\ link' \in [Replicas -> Links] /\ missed' = missed
        /\ breaks' = breaks + Cardinality(Breaking)
    BY <1>2, <2>1 DEF BrokerDown, Links
  <2>3. Broken' \subseteq Broken \cup Breaking
    BY <1>l, <2>1 DEF Broken, Breaking, Links
  <2>4. /\ IsFiniteSet(Breaking) /\ Cardinality(Breaking) \in Nat
        /\ Cardinality(Broken') \in Nat
    BY ReplicasCounted DEF Breaking, Broken
  <2>5. Cardinality(Broken') <= Cardinality(Broken) + Cardinality(Breaking)
    <3>1. Broken \cap Breaking = {}
      BY DEF Broken, Breaking
    <3>2. /\ IsFiniteSet(Broken \cup Breaking)
          /\ Cardinality(Broken \cup Breaking) = Cardinality(Broken) + Cardinality(Breaking)
      <4>1. /\ IsFiniteSet(Broken \cup Breaking)
            /\ Cardinality(Broken \cup Breaking) =
                 Cardinality(Broken) + Cardinality(Breaking) - Cardinality(Broken \cap Breaking)
        BY <1>l, <2>4, FS_Union
      <4>2. Cardinality(Broken \cap Breaking) = 0
        BY <3>1, FS_EmptySet
      <4> QED
        BY <1>l, <2>4, <4>1, <4>2
    <3> QED
      BY <2>3, <3>2, FS_Subset
  <2>6. breaks' \in Nat /\ missed' + Cardinality(Broken') <= breaks'
    BY <1>l, <2>2, <2>4, <2>5
  <2> QED
    BY <1>l, <2>2, <2>6 DEF LinksInv
<1>3. ASSUME NEW r \in Replicas, BrokerCloses(r) PROVE LinksInv'
  <2>1. /\ link' = [link EXCEPT ![r] = "broken"] /\ breaks' = breaks + 1 /\ missed' = missed
        /\ link[r] = "open"
    BY <1>3 DEF BrokerCloses
  <2>2. link' \in [Replicas -> Links] /\ Broken' = Broken \cup {r} /\ r \notin Broken
    BY <1>l, <2>1 DEF Links, Broken
  <2>3. Cardinality(Broken') = Cardinality(Broken) + 1
    BY <1>l, <2>2, FS_AddElement
  <2> QED
    BY <1>l, <2>1, <2>2, <2>3 DEF LinksInv
<1>4. CASE UNCHANGED <<link, breaks, missed>>
  BY <1>4 DEF LinksInv, Broken
<1>5. \/ \E r \in Replicas : Publish(r) \/ BrokerCloses(r)
      \/ BrokerDown
      \/ UNCHANGED <<link, breaks, missed>>
  BY DEF EngineNext, Settle, Calculate, UpdateBalance, NoBalance, UpsertBalance,
     ResetBalance, Granted, Refused, Answered, SpinFails, NoSpinServed, BrokerUp,
     engineVars, bus
<1> QED
  BY <1>1, <1>2, <1>3, <1>4, <1>5

\* While the broker is reachable every result is published, but for one of each
\* connection that broke, whether in an outage or because the broker closed it
\* (publish_game_result, rabbitmq_message_publisher.py:64).
THEOREM BreakIsCheap == EngineSpec => []BreakCostsOneResult
<1>1. EngineInit => LinksInv
  <2> SUFFICES ASSUME EngineInit PROVE LinksInv
    OBVIOUS
  <2>1. link \in [Replicas -> Links] /\ breaks = 0 /\ missed = 0
    BY DEF EngineInit, Links
  <2>2. Broken = {}
    BY DEF EngineInit, Broken
  <2> QED
    BY <2>1, <2>2, FS_EmptySet DEF LinksInv
<1>2. LinksInv => BreakCostsOneResult
  <2> SUFFICES ASSUME LinksInv PROVE BreakCostsOneResult
    OBVIOUS
  <2>1. Cardinality(Broken) \in Nat
    BY ReplicasCounted DEF Broken
  <2> QED
    BY <2>1 DEF LinksInv, BreakCostsOneResult
<1> QED
  BY <1>1, <1>2, LinksNext, PTL DEF EngineSpec

------------------------------------------------------------------------------
(***************************************************************************)
(* The composition.  Every step of the spin flow is a step of the engine,  *)
(* or leaves it alone, and the same of the wager service: what is proved   *)
(* of each holds where they meet.                                          *)
(***************************************************************************)

\* A step of the flow is a step of the engine or leaves the engine alone.
LEMMA FlowStepsEngine == [Next]_vars => [EngineNext]_engineVars
<1> SUFFICES ASSUME [Next]_vars PROVE [EngineNext]_engineVars
  OBVIOUS
<1>1. ASSUME NEW r \in Replicas, EngineStep(r) PROVE EngineNext
  BY <1>1 DEF EngineStep, EngineNext
<1>2. ASSUME NEW r \in Replicas, CallTimesOut(r) PROVE EngineNext
  BY <1>2 DEF CallTimesOut, EngineNext
<1>3. ASSUME NEW r \in Replicas, EngineFails(r) PROVE EngineNext
  BY <1>3 DEF EngineFails, EngineNext
<1>4. ASSUME NEW r \in Replicas, NEW w \in Workers,
             CallValidate(r, w) \/ RefuseStake(r, w) \/ CallPlace(r, w) \/ PlaceThrows(r, w)
      PROVE  [EngineNext]_engineVars
  BY <1>4 DEF CallValidate, RefuseStake, CallPlace, PlaceThrows, EngineNext
<1>5. ASSUME NEW w \in Workers, WorkerStep(w) PROVE [EngineNext]_engineVars
  BY <1>5 DEF WorkerStep, GoesOn, Replies, GrantReply, RefusalReply, PlaceReply, EngineNext
<1>6. ASSUME NEW w \in Workers, OtherRequest(w) \/ \E l \in late : ServeLate(l, w)
      PROVE  UNCHANGED engineVars
  BY <1>6 DEF OtherRequest, ServeLate
<1>7. CASE BrokerStep
  BY <1>7 DEF BrokerStep, EngineNext
<1>8. CASE Tick \/ UNCHANGED vars
  BY <1>8 DEF Tick, vars
<1> QED
  BY <1>1, <1>2, <1>3, <1>4, <1>5, <1>6, <1>7, <1>8 DEF Next

\* The replicas of the flow are the game engine: all that is proved of the engine
\* holds in front of the wager service.
THEOREM FlowIsEngine == Spec => EngineSpec
<1>1. Init => EngineInit
  BY DEF Init
<1> QED
  BY <1>1, FlowStepsEngine, PTL DEF Spec, EngineSpec
------------------------------------------------------------------------------
(***************************************************************************)
(* What replicas hold: games on record, each its own, that stake and pay   *)
(* what the wager service expects.                                         *)
(***************************************************************************)
HeldInv ==
  /\ IsFiniteSet(games) /\ \A g \in games : g.n \in Nat /\ g.n <= Cardinality(games)
  /\ \A g \in games : \E outcome \in Outcomes : g.payout = g.bet * outcome.multiplier
  /\ \A r \in Replicas : ~SpinAt(r, "idle") => spin[r].game \in games
  /\ \A q, r \in Replicas :
       ~SpinAt(q, "idle") /\ ~SpinAt(r, "idle") /\ spin[q].game = spin[r].game => q = r

\* No spin is under way at the start.
LEMMA HeldInit == EngineInit => HeldInv
<1>1. EngineInit => games = {} /\ \A r \in Replicas : SpinAt(r, "idle")
  BY DEF EngineInit, NoSpin, SpinAt
<1> QED
  BY <1>1, FS_EmptySet DEF HeldInv

\* No spin takes up a game that another one holds or held.
LEMMA HeldNext ==
  ASSUME TypeInv, HeldInv, [EngineNext]_engineVars
  PROVE  HeldInv'
<1> USE DEF store, bus
<1>g. ASSUME NEW r \in Replicas, NEW step, SpinGoto(r, step)
      PROVE  /\ spin'[r].at = step /\ spin'[r].game = spin[r].game
             /\ \A q \in Replicas : q # r => spin'[q] = spin[q]
  BY <1>g DEF SpinGoto, TypeInv
<1>1. ASSUME NEW r \in Replicas, NEW bet \in Bets, NEW outcome \in Outcomes,
             Calculate(r, bet, outcome)
      PROVE  HeldInv'
  <2>1. PICK g : g = NewGame(bet, outcome)
    OBVIOUS
  <2>2. /\ g.n = Cardinality(games) + 1 /\ Cardinality(games) \in Nat
        /\ g.payout = g.bet * outcome.multiplier
    BY <2>1, FS_CardinalityType DEF NewGame, HeldInv
  <2>3. /\ games' = games \cup {g}
        /\ spin'[r] = [at |-> "publish", game |-> g]
        /\ \A q \in Replicas : q # r => spin'[q] = spin[q]
    BY <1>1, <2>1 DEF Calculate, TypeInv
  <2>4. g \notin games
    BY <2>2 DEF HeldInv
  <2>5. /\ IsFiniteSet(games')
        /\ \A x \in games' : x.n \in Nat /\ x.n <= Cardinality(games')
    <3>1. IsFiniteSet(games') /\ Cardinality(games') = Cardinality(games) + 1
      BY <2>3, <2>4, FS_AddElement DEF HeldInv
    <3>2. \A x \in games : x.n \in Nat /\ x.n <= Cardinality(games)
      BY DEF HeldInv
    <3>3. \A x \in games' : x \in games \/ x.n = Cardinality(games) + 1
      BY <2>2, <2>3
    <3> QED
      BY <2>2, <3>1, <3>2, <3>3
  <2>6. \A x \in games' : \E o \in Outcomes : x.payout = x.bet * o.multiplier
    BY <2>2, <2>3 DEF HeldInv
  <2>7. \A q \in Replicas : q # r => (SpinAt(q, "idle")' <=> SpinAt(q, "idle"))
    BY <2>3 DEF SpinAt
  <2>8. \A q \in Replicas : ~SpinAt(q, "idle")' => spin'[q].game \in games'
    BY <2>3, <2>7 DEF HeldInv
  <2>9. \A p, q \in Replicas :
          ~SpinAt(p, "idle")' /\ ~SpinAt(q, "idle")' /\ spin'[p].game = spin'[q].game => p = q
    BY <2>3, <2>4, <2>7 DEF HeldInv
  <2> QED
    BY <2>5, <2>6, <2>8, <2>9 DEF HeldInv, SpinAt
<1>2. ASSUME games' = games,
             \A r \in Replicas : \/ SpinAt(r, "idle")'
                                 \/ ~SpinAt(r, "idle") /\ spin'[r].game = spin[r].game
      PROVE  HeldInv'
  BY <1>2 DEF HeldInv
<1>3. ASSUME NEW r \in Replicas, Settle(r) \/ Granted(r)
      PROVE  HeldInv'
  <2>1. games' = games /\ ~SpinAt(r, "idle") /\ \E step : SpinGoto(r, step)
    BY <1>3 DEF Settle, Publish, UpdateBalance, NoBalance, UpsertBalance, ResetBalance,
                Granted, SpinAt
  <2>2. \A q \in Replicas : \/ SpinAt(q, "idle")'
                            \/ ~SpinAt(q, "idle") /\ spin'[q].game = spin[q].game
    BY <1>g, <2>1 DEF SpinAt
  <2> QED
    BY <1>2, <2>1, <2>2
<1>4. ASSUME NEW r \in Replicas, Refused(r) \/ Answered(r) \/ SpinFails(r)
      PROVE  HeldInv'
  <2>1. games' = games /\ SpinEnds(r)
    BY <1>4 DEF Refused, Answered, SpinFails
  <2>2. \A q \in Replicas : \/ SpinAt(q, "idle")'
                            \/ ~SpinAt(q, "idle") /\ spin'[q].game = spin[q].game
    BY <2>1 DEF SpinEnds, NoSpin, SpinAt, TypeInv
  <2> QED
    BY <1>2, <2>1, <2>2
<1>5. CASE BrokerDown \/ BrokerUp \/ (\E r \in Replicas : BrokerCloses(r)) \/ UNCHANGED engineVars
  <2>1. UNCHANGED <<games, spin>>
    BY <1>5 DEF BrokerDown, BrokerUp, BrokerCloses, store, engineVars
  <2> QED
    BY <1>2, <2>1 DEF SpinAt
<1> QED
  BY <1>1, <1>3, <1>4, <1>5 DEF EngineNext, NoSpinServed

------------------------------------------------------------------------------
(***************************************************************************)
(* The numbers of validation data.  A number is given once; it is placed   *)
(* once, by one request, and recorded once.                                *)
(***************************************************************************)
PlaceSteps == {"place.insert", "place.update"}
ValidateSteps == {"validate.create", "validate.lock"}
Serving(w) == req[w].at \in PlaceSteps

\* x has the fields of a request.
Whole(x) == x = [at |-> x.at, doc |-> x.doc, amount |-> x.amount, ticket |-> x.ticket,
                 payout |-> x.payout, id |-> x.id]

NumbersInv ==
  /\ req = [w \in Workers |-> req[w]] /\ \A w \in Workers : Whole(req[w])
  /\ IsFiniteSet(issued) /\ tickets \subseteq issued
  /\ \A t \in issued : t.n \in Nat /\ t.n <= Cardinality(issued)
  /\ \A s, t \in issued : s.n = t.n => s = t
  /\ \A w \in Workers : Serving(w) => req[w].ticket \in issued \ tickets
  /\ \A v, w \in Workers : Serving(v) /\ Serving(w) /\ req[v].ticket = req[w].ticket => v = w
  /\ \A h \in history : \E t \in issued \ tickets :
       /\ t.n = h.n
       /\ \A w \in Workers : req[w].at = "place.insert" => req[w].ticket # t
  /\ \A h, k \in history : h.n = k.n => h = k

\* A worker without a request.
LEMMA IdleWhole == Whole(W!Idle) /\ W!Idle.at = "idle"
BY DEF W!Idle, Whole

\* A request that goes on to its next operation keeps its arguments.
LEMMA GoingOn ==
  ASSUME NumbersInv, NEW w \in Workers, NEW step, req' = [req EXCEPT ![w].at = step]
  PROVE  \E x : /\ req' = [req EXCEPT ![w] = x] /\ Whole(x) /\ x.at \in {step}
                /\ x.amount = req[w].amount /\ x.ticket = req[w].ticket
                /\ x.payout = req[w].payout
<1> DEFINE y == req[w]
           x == [y EXCEPT !.at = step]
<1>1. req' = [req EXCEPT ![w] = x]
  OBVIOUS
<1>2. Whole(y)
  BY DEF NumbersInv
<1> HIDE DEF y
<1>3. /\ Whole(x) /\ x.at = step
      /\ x.amount = y.amount /\ x.ticket = y.ticket /\ x.payout = y.payout
  <2>1. x = [at |-> step, doc |-> y.doc, amount |-> y.amount, ticket |-> y.ticket,
             payout |-> y.payout, id |-> y.id]
    BY <1>2 DEF Whole
  <2> HIDE DEF x
  <2> QED
    BY <2>1 DEF Whole
<1> HIDE DEF x
<1> QED
  BY <1>1, <1>3 DEF y

\* The wager service counts as this module does.
LEMMA SameCardinality == \A S : W!Cardinality(S) = Cardinality(S)
BY DEF W!Cardinality, Cardinality

\* Validation data as the lock returns it.
LEMMA Locking ==
  ASSUME NEW w \in Workers, W!ValidateLock(w)
  PROVE  \E t : /\ issued' = issued \cup {t} /\ tickets' = tickets \cup {t}
                /\ t.n = Cardinality(issued) + 1 /\ t.amount = req[w].amount
<1> DEFINE d == req[w].doc
           t == [n |-> Cardinality(issued) + 1, gen |-> gen, version |-> d.version,
                 amount |-> req[w].amount, bonusUsed |-> W!BonusUsed(d, req[w].amount),
                 realUsed |-> W!RealUsed(d, req[w].amount),
                 realBefore |-> d.real, bonusBefore |-> d.bonus]
<1>1. issued' = issued \cup {t} /\ tickets' = tickets \cup {t}
  BY SameCardinality DEF W!ValidateLock
<1>2. t.n = Cardinality(issued) + 1 /\ t.amount = req[w].amount
  OBVIOUS
<1> HIDE DEF t
<1> QED
  BY <1>1, <1>2

\* A request as placing begins it.
LEMMA Placing ==
  ASSUME NEW w \in Workers, NEW t, NEW payout, W!PlaceFind(w, t, payout)
  PROVE  \E x : /\ req' = [req EXCEPT ![w] = x] /\ Whole(x) /\ x.at = "place.insert"
                /\ x.ticket = t /\ x.payout = payout
<1> DEFINE x == [W!Idle EXCEPT !.at = "place.insert", !.doc = db, !.ticket = t,
                               !.payout = payout]
<1>1. req' = [req EXCEPT ![w] = x]
  BY DEF W!PlaceFind
<1>2. x \in [at : {"place.insert"}, doc : {db}, amount : {0}, ticket : {t},
             payout : {payout}, id : {0}]
  BY DEF W!Idle
<1> HIDE DEF x
<1>3. Whole(x) /\ x.at = "place.insert" /\ x.ticket = t /\ x.payout = payout
  BY <1>2 DEF Whole
<1> QED
  BY <1>1, <1>3

\* The record that placing inserts: the stake of its data, the payout it was called with.
LEMMA Inserting ==
  ASSUME NEW w \in Workers, W!PlaceInsert(w)
  PROVE  \E h : /\ history' = history \cup {h} /\ h.n = req[w].ticket.n
                /\ h.amount = req[w].ticket.amount /\ h.payout = req[w].payout
<1> DEFINE t == req[w].ticket
           d == req[w].doc
           e == W!Placed(d, t, req[w].payout)
           h == [n |-> t.n, amount |-> t.amount, payout |-> req[w].payout,
                 bonusId |-> d.active.id, bonusUsed |-> t.bonusUsed, realUsed |-> t.realUsed,
                 realBefore |-> t.realBefore, realAfter |-> e.real,
                 bonusBefore |-> t.bonusBefore, bonusAfter |-> e.bonus]
<1>1. history' = history \cup {h}
  BY DEF W!PlaceInsert
<1>2. h.n = t.n /\ h.amount = t.amount /\ h.payout = req[w].payout
  OBVIOUS
<1> HIDE DEF h
<1> QED
  BY <1>1, <1>2

\* Nothing is validated, placed or recorded at the start.
LEMMA NumbersInit == W!Init => NumbersInv
<1>1. W!Init => /\ issued = {} /\ tickets = {} /\ history = {}
                /\ req = [w \in Workers |-> W!Idle] /\ \A w \in Workers : req[w] = W!Idle
  BY DEF W!Init
<1>2. W!Idle.at = "idle"
  BY DEF W!Idle
<1> QED
  BY <1>1, <1>2, IdleWhole, FS_EmptySet DEF NumbersInv, Serving, PlaceSteps

\* A request that changes, but not to place a wager.
LEMMA OtherNumbers ==
  ASSUME NumbersInv, NEW w \in Workers, NEW x, req' = [req EXCEPT ![w] = x],
         Whole(x), x.at \notin PlaceSteps, UNCHANGED <<issued, tickets, history>>
  PROVE  NumbersInv'
<1>1. /\ req' = [v \in Workers |-> req'[v]] /\ req'[w] = x
      /\ \A v \in Workers : v # w => req'[v] = req[v]
  BY DEF NumbersInv
<1>4. \A v \in Workers : Whole(req'[v])
  BY <1>1 DEF NumbersInv
<1>2. \A v \in Workers : Serving(v)' => Serving(v) /\ req'[v] = req[v]
  BY <1>1 DEF Serving
<1>3. \A v \in Workers : req'[v].at = "place.insert" => req'[v] = req[v]
  BY <1>1 DEF PlaceSteps
<1> QED
  BY <1>1, <1>2, <1>3, <1>4 DEF NumbersInv

\* One more validation.
LEMMA LockNumbers ==
  ASSUME NumbersInv, NEW w \in Workers, W!ValidateLock(w)
  PROVE  /\ NumbersInv'
         /\ \E t : /\ issued' = issued \cup {t} /\ tickets' = tickets \cup {t}
                   /\ t \notin issued /\ t.n = Cardinality(issued) + 1
                   /\ t.amount = req[w].amount
                   /\ Cardinality(issued') = Cardinality(issued) + 1
<1>1. PICK t : /\ issued' = issued \cup {t} /\ tickets' = tickets \cup {t}
               /\ t.n = Cardinality(issued) + 1 /\ t.amount = req[w].amount
  BY Locking
<1>2. history' = history /\ req' = [req EXCEPT ![w] = W!Idle] /\ W!Idle.at = "idle"
  BY DEF W!ValidateLock, W!Finish, W!Idle
<1>3. Cardinality(issued) \in Nat
  BY FS_CardinalityType DEF NumbersInv
<1>4. t \notin issued
  BY <1>1, <1>3 DEF NumbersInv
<1>5. IsFiniteSet(issued') /\ Cardinality(issued') = Cardinality(issued) + 1
  BY <1>1, <1>4, FS_AddElement DEF NumbersInv
<1>6. \A s \in issued : s.n \in Nat /\ s.n <= Cardinality(issued)
  BY DEF NumbersInv
<1>7. \A s \in issued' : s.n \in Nat /\ s.n <= Cardinality(issued')
  BY <1>1, <1>3, <1>5, <1>6
<1>8. \A s, u \in issued' : s.n = u.n => s = u
  <2>1. \A s \in issued : s.n # t.n
    BY <1>1, <1>3, <1>6
  <2> QED
    BY <1>1, <2>1 DEF NumbersInv
<1>9. /\ req' = [v \in Workers |-> req'[v]] /\ \A v \in Workers : Whole(req'[v])
      /\ \A v \in Workers : Serving(v)' => Serving(v) /\ req'[v] = req[v]
      /\ \A v \in Workers : req'[v].at = "place.insert" => req'[v] = req[v]
  BY <1>2, IdleWhole DEF NumbersInv, Serving, PlaceSteps
<1>10. issued \ tickets = issued' \ tickets'
  BY <1>1, <1>4 DEF NumbersInv
<1>11. tickets' \subseteq issued'
  BY <1>1 DEF NumbersInv
<1>12. NumbersInv'
  BY <1>2, <1>5, <1>7, <1>8, <1>9, <1>10, <1>11 DEF NumbersInv
<1> QED
  BY <1>1, <1>4, <1>5, <1>12

\* Validation data that is being placed.
LEMMA PlaceNumbers ==
  ASSUME NumbersInv, NEW w \in Workers, NEW t, NEW payout, W!PlaceFind(w, t, payout)
  PROVE  NumbersInv'
<1>1. /\ t \in tickets /\ tickets' = tickets \ {t} /\ UNCHANGED <<issued, history>>
      /\ req[w].at = "idle"
  BY DEF W!PlaceFind, W!At, W!ghosts
<1>2. PICK x : /\ req' = [req EXCEPT ![w] = x] /\ Whole(x)
               /\ x.at = "place.insert" /\ x.ticket = t
  BY Placing
<1>3. /\ req' = [v \in Workers |-> req'[v]] /\ req'[w] = x
      /\ \A v \in Workers : (v # w => req'[v] = req[v]) /\ Whole(req'[v])
  BY <1>2 DEF NumbersInv
<1>4. t \in issued /\ \A v \in Workers : Serving(v) => req[v].ticket # t
  BY <1>1 DEF NumbersInv
<1>5. \A v \in Workers : Serving(v)' => req'[v].ticket \in issued' \ tickets'
  BY <1>1, <1>2, <1>3, <1>4 DEF NumbersInv, Serving
<1>6. \A u, v \in Workers : Serving(u)' /\ Serving(v)' /\ req'[u].ticket = req'[v].ticket
                              => u = v
  BY <1>2, <1>3, <1>4 DEF NumbersInv, Serving
<1>7. \A h \in history : \E s \in issued' \ tickets' :
        /\ s.n = h.n
        /\ \A v \in Workers : req'[v].at = "place.insert" => req'[v].ticket # s
  <2> SUFFICES ASSUME NEW h \in history
               PROVE  \E s \in issued' \ tickets' :
                        /\ s.n = h.n
                        /\ \A v \in Workers : req'[v].at = "place.insert" => req'[v].ticket # s
    OBVIOUS
  <2>1. PICK s \in issued \ tickets :
          /\ s.n = h.n
          /\ \A v \in Workers : req[v].at = "place.insert" => req[v].ticket # s
    BY DEF NumbersInv
  <2>2. s # t
    BY <1>1, <2>1
  <2> QED
    BY <1>1, <1>2, <1>3, <2>1, <2>2
<1> QED
  BY <1>1, <1>3, <1>5, <1>6, <1>7 DEF NumbersInv

\* A wager that is recorded, by the request that places it.
LEMMA InsertNumbers ==
  ASSUME NumbersInv, NEW w \in Workers, W!PlaceInsert(w)
  PROVE  NumbersInv'
<1> DEFINE t == req[w].ticket
<1>1. PICK h : history' = history \cup {h} /\ h.n = t.n
  BY Inserting
<1>2. /\ UNCHANGED <<issued, tickets>> /\ req[w].at = "place.insert"
      /\ req' = [req EXCEPT ![w].at = "place.update"]
  BY DEF W!PlaceInsert, W!At, W!Goto
<1> HIDE DEF t
<1>3. /\ req' = [v \in Workers |-> req'[v]]
      /\ req'[w].at = "place.update" /\ req'[w].ticket = t
      /\ \A v \in Workers : (v # w => req'[v] = req[v]) /\ Whole(req'[v])
  <2>1. req' = [req EXCEPT ![w].at = "place.update"]
    BY <1>2
  <2>2. PICK x : /\ req' = [req EXCEPT ![w] = x] /\ Whole(x) /\ x.at \in {"place.update"}
                 /\ x.amount = req[w].amount /\ x.ticket = req[w].ticket
                 /\ x.payout = req[w].payout
    BY <2>1, GoingOn
  <2>3. x.ticket = t
    BY <2>2 DEF t
  <2> QED
    BY <2>1, <2>2, <2>3 DEF NumbersInv
<1>4. \A v \in Workers : /\ Serving(v)' <=> Serving(v)
                         /\ Serving(v) => req'[v].ticket = req[v].ticket
                         /\ req'[v].at = "place.insert" => v # w /\ req'[v] = req[v]
  BY <1>2, <1>3 DEF Serving, PlaceSteps
<1>5. Serving(w) /\ t \in issued \ tickets
  BY <1>2 DEF t, NumbersInv, Serving, PlaceSteps
<1>6. \A v \in Workers : req'[v].at = "place.insert" => req'[v].ticket # t
  BY <1>4, <1>5 DEF t, NumbersInv, Serving, PlaceSteps
<1>7. \A k \in history : k.n # h.n
  <2> SUFFICES ASSUME NEW k \in history, k.n = t.n PROVE FALSE
    BY <1>1
  <2>1. PICK s \in issued \ tickets :
          s.n = k.n /\ \A v \in Workers : req[v].at = "place.insert" => req[v].ticket # s
    BY DEF NumbersInv
  <2>2. s # t /\ s.n = t.n
    BY <1>2, <2>1 DEF t
  <2> QED
    BY <1>5, <2>1, <2>2 DEF NumbersInv
<1> HIDE DEF t
<1>8. \A k, l \in history' : k.n = l.n => k = l
  BY <1>1, <1>7 DEF NumbersInv
<1>9. \A k \in history' : \E s \in issued' \ tickets' :
        /\ s.n = k.n
        /\ \A v \in Workers : req'[v].at = "place.insert" => req'[v].ticket # s
  <2>1. \A k \in history : \E s \in issued \ tickets :
          /\ s.n = k.n
          /\ \A v \in Workers : req'[v].at = "place.insert" => req'[v].ticket # s
    BY <1>4 DEF NumbersInv
  <2> QED
    BY <1>1, <1>2, <1>5, <1>6, <2>1
<1> QED
  BY <1>2, <1>3, <1>4, <1>8, <1>9 DEF NumbersInv

\* A validation begins.
LEMMA Finding ==
  ASSUME NEW w \in Workers, NEW amount, W!ValidateFind(w, amount)
  PROVE  \E x : /\ req' = [req EXCEPT ![w] = x] /\ Whole(x) /\ x.at \in ValidateSteps
                /\ x.amount = amount
<1>1. ASSUME NEW step, NEW doc, step \in ValidateSteps,
             req' = [req EXCEPT ![w] = [W!Idle EXCEPT !.at = step, !.doc = doc,
                                                     !.amount = amount]]
      PROVE  \E x : /\ req' = [req EXCEPT ![w] = x] /\ Whole(x) /\ x.at \in ValidateSteps
                    /\ x.amount = amount
  <2> DEFINE x == [W!Idle EXCEPT !.at = step, !.doc = doc, !.amount = amount]
  <2>1. x \in [at : {step}, doc : {doc}, amount : {amount}, ticket : {NoTicket},
               payout : {0}, id : {0}]
    BY DEF W!Idle
  <2>2. req' = [req EXCEPT ![w] = x]
    BY <1>1
  <2> HIDE DEF x
  <2>3. Whole(x) /\ x.at = step /\ x.amount = amount
    BY <2>1 DEF Whole
  <2> QED
    BY <1>1, <2>2, <2>3
<1>2. \E step, doc :
        /\ step \in ValidateSteps
        /\ req' = [req EXCEPT ![w] = [W!Idle EXCEPT !.at = step, !.doc = doc,
                                                    !.amount = amount]]
  <2>1. CASE db = NoDoc
    <3> WITNESS "validate.create", W!AutoCreated(second)
    <3> QED
      BY <2>1 DEF W!ValidateFind, ValidateSteps
  <2>2. CASE db # NoDoc
    <3> WITNESS "validate.lock", db
    <3> QED
      BY <2>2 DEF W!ValidateFind, ValidateSteps
  <2> QED
    BY <2>1, <2>2
<1> QED
  BY <1>1, <1>2

\* So does a claim, a progress request or a conversion.
LEMMA Beginning ==
  ASSUME NEW w \in Workers, NEW step, NEW doc, NEW id, step \notin PlaceSteps,
         \/ req' = [req EXCEPT ![w] = [W!Idle EXCEPT !.at = step, !.doc = doc]]
         \/ req' = [req EXCEPT ![w] = [W!Idle EXCEPT !.at = step, !.doc = doc, !.id = id]]
  PROVE  \E x : req' = [req EXCEPT ![w] = x] /\ Whole(x) /\ x.at \notin PlaceSteps
<1>1. ASSUME NEW x, x \in {[W!Idle EXCEPT !.at = step, !.doc = doc],
                          [W!Idle EXCEPT !.at = step, !.doc = doc, !.id = id]}
      PROVE  Whole(x) /\ x.at \notin PlaceSteps
  <2>1. x \in [at : {step}, doc : {doc}, amount : {0}, ticket : {NoTicket},
               payout : {0}, id : {0, id}]
    BY <1>1 DEF W!Idle
  <2> QED
    BY <2>1 DEF Whole
<1> QED
  BY <1>1

\* The operations that neither grant a validation nor place or record a wager.
LEMMA NoWager ==
  ASSUME NumbersInv, NEW w \in Workers,
         \/ \E amount \in Bets \ {0} : W!ValidateFind(w, amount)
         \/ W!ValidateCreate(w) \/ W!ValidateLockLost(w) \/ W!PlaceUpdate(w)
         \/ W!ClaimFind(w) \/ W!ClaimCreate(w) \/ W!ClaimUpdate(w)
         \/ W!ProgressFind(w) \/ W!ProgressCreate(w) \/ W!ConvertFind(w)
         \/ W!ConvertStats(w) \/ W!ConvertInsert(w) \/ W!ConvertUpdate(w)
         \/ W!RequestFails(w)
  PROVE  /\ UNCHANGED <<issued, tickets, history>>
         /\ \E x : req' = [req EXCEPT ![w] = x] /\ Whole(x) /\ x.at \notin PlaceSteps
<1> USE DEF W!ghosts
<1>1. UNCHANGED <<issued, tickets, history>>
  BY DEF W!ValidateFind, W!ValidateCreate, W!ValidateLockLost, W!PlaceUpdate,
     W!ClaimFind, W!ClaimCreate, W!ClaimUpdate, W!ProgressFind, W!ProgressCreate,
     W!ConvertFind, W!ConvertStats, W!ConvertInsert, W!ConvertUpdate, W!RequestFails,
     W!Upsert
<1>2. \E x : req' = [req EXCEPT ![w] = x] /\ Whole(x) /\ x.at \notin PlaceSteps
  <2>1. CASE \E amount \in Bets \ {0} : W!ValidateFind(w, amount)
    <3>1. PICK amount \in Bets \ {0} : W!ValidateFind(w, amount)
      BY <2>1
    <3> QED
      BY <3>1, Finding DEF ValidateSteps, PlaceSteps
  <2>2. ASSUME NEW step, step \notin PlaceSteps, req' = [req EXCEPT ![w].at = step]
        PROVE  \E x : req' = [req EXCEPT ![w] = x] /\ Whole(x) /\ x.at \notin PlaceSteps
    <3>1. PICK x : /\ req' = [req EXCEPT ![w] = x] /\ Whole(x) /\ x.at \in {step}
                   /\ x.amount = req[w].amount /\ x.ticket = req[w].ticket
                   /\ x.payout = req[w].payout
      BY <2>2, GoingOn
    <3> QED
      BY <2>2, <3>1
  <2>3. ASSUME W!Finish(w)
        PROVE  \E x : req' = [req EXCEPT ![w] = x] /\ Whole(x) /\ x.at \notin PlaceSteps
    BY <2>3, IdleWhole DEF W!Finish, PlaceSteps
  <2>5. CASE W!ValidateCreate(w) \/ W!ConvertStats(w) \/ W!ConvertInsert(w)
    <3>1. /\ "validate.lock" \notin PlaceSteps
          /\ "convert.insert" \notin PlaceSteps
          /\ "convert.update" \notin PlaceSteps
      BY DEF PlaceSteps
    <3>2. \/ W!Finish(w) \/ W!Goto(w, "validate.lock") \/ W!Goto(w, "convert.insert")
          \/ W!Goto(w, "convert.update")
      BY <2>5 DEF W!ValidateCreate, W!ConvertStats, W!ConvertInsert
    <3> QED
      BY <2>2, <2>3, <3>1, <3>2 DEF W!Goto
  <2>6. CASE W!ClaimFind(w) \/ W!ProgressFind(w) \/ W!ConvertFind(w)
    <3>1. CASE W!ClaimFind(w) /\ db = NoDoc
      <4>1. req' = [req EXCEPT ![w] = [W!Idle EXCEPT !.at = "claim.create",
                                                  !.doc = W!Claimed(W!NewUser, second)]]
        BY <3>1 DEF W!ClaimFind
      <4>2. "claim.create" \notin PlaceSteps
        BY DEF PlaceSteps
      <4> QED
        BY <4>1, <4>2, Beginning
    <3>2. CASE W!ClaimFind(w) /\ db # NoDoc
      <4>1. req' = [req EXCEPT ![w] = [W!Idle EXCEPT !.at = "claim.update",
                                                  !.doc = db, !.id = second]]
        BY <3>2 DEF W!ClaimFind
      <4>2. "claim.update" \notin PlaceSteps
        BY DEF PlaceSteps
      <4> QED
        BY <4>1, <4>2, Beginning
    <3>3. CASE W!ProgressFind(w)
      <4>1. req' = [req EXCEPT ![w] = [W!Idle EXCEPT !.at = "progress.create",
                                                  !.doc = W!AutoCreated(second)]]
        BY <3>3 DEF W!ProgressFind
      <4>2. "progress.create" \notin PlaceSteps
        BY DEF PlaceSteps
      <4> QED
        BY <4>1, <4>2, Beginning
    <3>4. CASE W!ConvertFind(w)
      <4>1. req' = [req EXCEPT ![w] = [W!Idle EXCEPT !.at = "convert.stats",
                                                  !.doc = db]]
        BY <3>4 DEF W!ConvertFind
      <4>2. "convert.stats" \notin PlaceSteps
        BY DEF PlaceSteps
      <4> QED
        BY <4>1, <4>2, Beginning
    <3> QED
      BY <2>6, <3>1, <3>2, <3>3, <3>4
  <2>4. CASE \/ W!ValidateLockLost(w) \/ W!PlaceUpdate(w) \/ W!ClaimCreate(w)
             \/ W!ClaimUpdate(w) \/ W!ProgressCreate(w) \/ W!ConvertUpdate(w)
             \/ W!RequestFails(w)
    BY <2>4, IdleWhole DEF PlaceSteps, W!Finish, W!ValidateLockLost, W!PlaceUpdate, W!ClaimCreate,
       W!ClaimUpdate, W!ProgressCreate, W!ConvertUpdate, W!RequestFails
  <2> QED
    BY <2>1, <2>4, <2>5, <2>6
<1> QED
  BY <1>1, <1>2

\* Every step of the wager service keeps the numbers unique.
LEMMA NumbersNext ==
  ASSUME NumbersInv, [W!Next]_wagerVars
  PROVE  NumbersInv'
<1> USE DEF W!ghosts
<1>1. ASSUME NEW w \in Workers, W!ValidateLock(w) PROVE NumbersInv'
  BY <1>1, LockNumbers
<1>2. ASSUME NEW w \in Workers, NEW t, NEW payout, W!PlaceFind(w, t, payout) PROVE NumbersInv'
  BY <1>2, PlaceNumbers
<1>3. ASSUME NEW w \in Workers, W!PlaceInsert(w) PROVE NumbersInv'
  BY <1>3, InsertNumbers
<1>4. ASSUME NEW w \in Workers,
             \/ \E amount \in Bets \ {0} : W!ValidateFind(w, amount)
             \/ W!ValidateCreate(w) \/ W!ValidateLockLost(w) \/ W!PlaceUpdate(w)
             \/ W!ClaimFind(w) \/ W!ClaimCreate(w) \/ W!ClaimUpdate(w)
             \/ W!ProgressFind(w) \/ W!ProgressCreate(w) \/ W!ConvertFind(w)
             \/ W!ConvertStats(w) \/ W!ConvertInsert(w) \/ W!ConvertUpdate(w)
             \/ W!RequestFails(w)
      PROVE  NumbersInv'
  BY <1>4, NoWager, OtherNumbers
<1>5. CASE W!Tick \/ UNCHANGED wagerVars
  BY <1>5 DEF W!Tick, wagerVars, NumbersInv, Serving
<1> QED
  BY <1>1, <1>2, <1>3, <1>4, <1>5 DEF W!Next, W!Serve, W!ReadOnly, W!vars, wagerVars
------------------------------------------------------------------------------
(***************************************************************************)
(* Calls.  A worker serves the call of one replica at most, which waits for*)
(* it; who is answered gets what it asked for.                             *)
(***************************************************************************)
CallOK(r) == call[r] # NoWorker =>
  \/ /\ SpinAt(r, "validate") /\ req[call[r]].at \in ValidateSteps
     /\ req[call[r]].amount = spin[r].game.bet
  \/ SpinAt(r, "place") /\ Serving(call[r])

CallsInv ==
  /\ call \in [Replicas -> Workers \cup {NoWorker}]
  /\ data = [r \in Replicas |-> data[r]]
  /\ \A r \in Replicas : CallOK(r)
  /\ \A q, r \in Replicas : call[q] = call[r] /\ call[q] # NoWorker => q = r

\* Late calls are about games on record.
LateGames == \A l \in late : l.game \in games

\* A game on record stakes and pays what the wager service knows.
LEMMA GamesExpected ==
  ASSUME TypeInv, HeldInv, NEW g \in games
  PROVE  /\ g.bet \in Bets
         /\ g.payout \in {bet * outcome.multiplier : bet \in Bets, outcome \in Outcomes}
<1>1. g.bet \in Bets
  BY DEF TypeInv, Sound
<1>2. PICK outcome \in Outcomes : g.payout = g.bet * outcome.multiplier
  BY DEF HeldInv
<1> QED
  BY <1>1, <1>2

\* A step of the flow is a step of the wager service or leaves it alone.
LEMMA FlowStepsWager ==
  ASSUME TypeInv, HeldInv, LateGames, [Next]_vars
  PROVE  [W!Next]_wagerVars
<1>1. ASSUME NEW r \in Replicas,
             EngineStep(r) \/ CallTimesOut(r) \/ EngineFails(r)
             \/ (\E w \in Workers : RefuseStake(r, w) \/ PlaceThrows(r, w))
      PROVE  UNCHANGED wagerVars
  BY <1>1 DEF EngineStep, CallTimesOut, EngineFails, Abandon, RefuseStake, PlaceThrows
<1>2. ASSUME NEW r \in Replicas, NEW w \in Workers, CallValidate(r, w)
      PROVE  W!Next
  <2>1. /\ W!ValidateFind(w, spin[r].game.bet) /\ spin[r].game.bet # 0
        /\ spin[r].game \in games
    BY <1>2 DEF CallValidate, SpinAt, HeldInv
  <2>2. spin[r].game.bet \in Bets \ {0}
    BY <2>1, GamesExpected
  <2> QED
    BY <2>1, <2>2 DEF W!Next, W!Serve
<1>3. ASSUME NEW w \in Workers, NEW t, NEW g \in games, W!PlaceFind(w, t, g.payout)
      PROVE  W!Next
  <2>1. t \in tickets
    BY <1>3 DEF W!PlaceFind
  <2>2. g.payout \in {bet * outcome.multiplier : bet \in Bets, outcome \in Outcomes}
    BY GamesExpected
  <2> QED
    BY <1>3, <2>1, <2>2 DEF W!Next, W!Serve
<1>4. ASSUME NEW r \in Replicas, NEW w \in Workers, CallPlace(r, w)
      PROVE  W!Next
  BY <1>3, <1>4 DEF CallPlace, SpinAt, HeldInv
<1>5. ASSUME NEW w \in Workers, WorkerStep(w) \/ OtherRequest(w)
      PROVE  W!Next
  BY <1>5 DEF WorkerStep, Work, OtherRequest, W!Next, W!Serve
<1>6. ASSUME NEW w \in Workers, NEW l \in late, ServeLate(l, w)
      PROVE  W!Next
  <2>1. l.game \in games /\ l.game.bet \in Bets
    BY GamesExpected DEF LateGames
  <2>2. CASE l.game.bet # 0 /\ W!ValidateFind(w, l.game.bet)
    <3>1. l.game.bet \in Bets \ {0}
      BY <2>1, <2>2
    <3> QED
      BY <2>2, <3>1 DEF W!Next, W!Serve
  <2>3. CASE W!PlaceFind(w, l.ticket, l.game.payout)
    BY <1>3, <2>1, <2>3
  <2> QED
    BY <1>6, <2>2, <2>3 DEF ServeLate
<1>7. CASE Tick
  BY <1>7 DEF Tick, W!Next
<1>8. CASE BrokerStep \/ UNCHANGED vars
  BY <1>8 DEF BrokerStep, vars
<1> QED
  BY <1>1, <1>2, <1>4, <1>5, <1>6, <1>7, <1>8 DEF Next

\* Who waits for no worker, and every worker that serves nobody here, may do as
\* they please.
LEMMA CallsKept ==
  ASSUME CallsInv, call' \in [Replicas -> Workers \cup {NoWorker}],
         data' = [r \in Replicas |-> data'[r]],
         \A r \in Replicas : call'[r] # NoWorker => call'[r] = call[r] /\ CallOK(r)'
  PROVE  CallsInv'
BY DEF CallsInv, CallOK

\* A call that a worker that was idle takes up.
LEMMA CallTaken ==
  ASSUME CallsInv, NumbersInv, NEW r \in Replicas, NEW w \in Workers, W!At(w, "idle"),
         call[r] = NoWorker, call' = [call EXCEPT ![r] = w], UNCHANGED <<spin, data>>,
         NEW x, req' = [req EXCEPT ![w] = x],
         \/ SpinAt(r, "validate") /\ x.at \in ValidateSteps /\ x.amount = spin[r].game.bet
         \/ SpinAt(r, "place") /\ x.at \in PlaceSteps
  PROVE  CallsInv'
<1>1. \A q \in Replicas : call[q] # w
  <2> SUFFICES ASSUME NEW q \in Replicas, call[q] = w PROVE FALSE
    OBVIOUS
  <2>1. w # NoWorker /\ CallOK(q)
    BY FlowAssumption DEF CallsInv
  <2>2. req[w].at \in ValidateSteps \cup PlaceSteps
    BY <2>1 DEF CallOK, Serving
  <2> QED
    BY <2>2 DEF PlaceSteps, ValidateSteps, W!At
<1>2. /\ call' \in [Replicas -> Workers \cup {NoWorker}] /\ call'[r] = w
      /\ \A q \in Replicas : q # r => call'[q] = call[q]
  BY DEF CallsInv
<1>3. req'[w] = x /\ \A v \in Workers : v # w => req'[v] = req[v]
  BY DEF NumbersInv
<1>4. CallOK(r)'
  BY <1>2, <1>3 DEF CallOK, Serving, SpinAt
<1>5. \A q \in Replicas : q # r => CallOK(q)'
  <2> SUFFICES ASSUME NEW q \in Replicas, q # r, call[q] # NoWorker
               PROVE  CallOK(q)'
    BY <1>2 DEF CallOK
  <2>1. call[q] \in Workers /\ call[q] # w /\ CallOK(q)
    BY <1>1 DEF CallsInv
  <2> QED
    BY <1>2, <1>3, <2>1 DEF CallOK, Serving, SpinAt
<1> QED
  BY <1>1, <1>2, <1>4, <1>5 DEF CallsInv

------------------------------------------------------------------------------
\* Who goes on, and who ends, moves no other replica.
LEMMA SpinMoves ==
  ASSUME TypeInv, NEW r \in Replicas
  PROVE  /\ \A step : SpinGoto(r, step) =>
              spin'[r].at \in {step} /\ spin'[r].game = spin[r].game
         /\ SpinEnds(r) => spin'[r].at = "idle"
         /\ SpinEnds(r) \/ (\E step : SpinGoto(r, step)) =>
              \A q \in Replicas : q # r => spin'[q] = spin[q]
<1>1. \A step : SpinGoto(r, step) =>
        spin'[r].at \in {step} /\ spin'[r].game = spin[r].game
  <2> TAKE step
  <2>1. HAVE SpinGoto(r, step)
  <2>2. spin'[r] = [spin[r] EXCEPT !.at = step]
    BY <2>1 DEF SpinGoto, TypeInv
  <2>3. spin[r] \in [at : EngineSteps, game : games \cup {NoGame}]
    BY DEF TypeInv
  <2> QED
    BY <2>2, <2>3
<1>2. SpinEnds(r) => spin'[r].at = "idle"
  BY DEF SpinEnds, NoSpin, TypeInv
<1>3. SpinEnds(r) \/ (\E step : SpinGoto(r, step)) =>
        \A q \in Replicas : q # r => spin'[q] = spin[q]
  BY DEF SpinEnds, SpinGoto, TypeInv
<1> QED
  BY <1>1, <1>2, <1>3

\* What the engine does on its own: a new game, or a step of a spin that has not
\* come to the wager service.
LEMMA OwnSteps ==
  ASSUME TypeInv, HeldInv, NEW r \in Replicas, EngineStep(r)
  PROVE  /\ UNCHANGED <<wagerVars, call, data, late, validated>> /\ games \subseteq games'
         /\ \A q \in Replicas : q # r => spin'[q] = spin[q]
         /\ \/ spin'[r] = spin[r]
            \/ /\ SpinAt(r, "idle") /\ ~SpinAt(r, "place")' /\ spin'[r].game \notin games
            \/ /\ spin[r].at \notin {"idle", "validate", "place"} /\ ~SpinAt(r, "place")'
               /\ spin'[r].game = spin[r].game
<1> USE DEF store, bus
<1>0. UNCHANGED <<wagerVars, call, data, late, validated>>
  BY DEF EngineStep
<1>1. ASSUME NEW bet \in Bets, NEW outcome \in Outcomes, Calculate(r, bet, outcome)
      PROVE  /\ games \subseteq games' /\ \A q \in Replicas : q # r => spin'[q] = spin[q]
             /\ SpinAt(r, "idle") /\ ~SpinAt(r, "place")' /\ spin'[r].game \notin games
  <2>1. PICK g : g = NewGame(bet, outcome)
    OBVIOUS
  <2>2. g.n = Cardinality(games) + 1 /\ Cardinality(games) \in Nat
    BY <2>1, FS_CardinalityType DEF NewGame, HeldInv
  <2>3. /\ games' = games \cup {g} /\ SpinAt(r, "idle")
        /\ spin'[r] = [at |-> "publish", game |-> g]
        /\ \A q \in Replicas : q # r => spin'[q] = spin[q]
    BY <1>1, <2>1 DEF Calculate, TypeInv
  <2>4. g \notin games
    BY <2>2 DEF HeldInv
  <2> QED
    BY <2>3, <2>4 DEF SpinAt
<1>2. CASE Settle(r)
  <2>1. /\ games' = games
        /\ \E step : SpinGoto(r, step) /\ step # "place"
        /\ spin[r].at \notin {"idle", "validate", "place"}
    BY <1>2 DEF Settle, Publish, UpdateBalance, NoBalance, UpsertBalance, ResetBalance,
                SpinAt, AfterBalance
  <2>2. PICK step : SpinGoto(r, step) /\ step # "place"
    BY <2>1
  <2>3. /\ spin'[r].at \in {step} /\ spin'[r].game = spin[r].game
        /\ \A q \in Replicas : q # r => spin'[q] = spin[q]
    BY <2>2, SpinMoves
  <2> QED
    BY <1>0, <2>1, <2>2, <2>3 DEF SpinAt
<1>3. CASE NoSpinServed(r)
  BY <1>0, <1>3 DEF NoSpinServed, engineVars
<1> QED
  BY <1>0, <1>1, <1>2, <1>3 DEF EngineStep

\* A spin that ends leaves the games and the other replicas alone.
LEMMA Ending ==
  ASSUME TypeInv, NEW r \in Replicas, Refused(r) \/ Answered(r) \/ SpinFails(r)
  PROVE  /\ games' = games /\ spin'[r].at = "idle" /\ ~SpinAt(r, "idle")
         /\ \A q \in Replicas : q # r => spin'[q] = spin[q]
BY SpinMoves DEF Refused, Answered, SpinFails, store, SpinAt

\* So does one whose wager is validated, which goes on to place it.
LEMMA Granting ==
  ASSUME TypeInv, NEW r \in Replicas, Granted(r)
  PROVE  /\ games' = games /\ SpinAt(r, "validate")
         /\ spin'[r].at = "place" /\ spin'[r].game = spin[r].game
         /\ \A q \in Replicas : q # r => spin'[q] = spin[q]
<1>1. SpinGoto(r, "place") /\ games' = games /\ SpinAt(r, "validate")
  BY DEF Granted, store
<1>2. spin'[r].at \in {"place"} /\ spin'[r].game = spin[r].game
  BY <1>1, SpinMoves
<1>3. \A q \in Replicas : q # r => spin'[q] = spin[q]
  BY <1>1, SpinMoves
<1> QED
  BY <1>1, <1>2, <1>3

\* A worker's next operation on a wager: it ends the request, or goes on with the
\* stake, or with the data and the payout, that it began with.
LEMMA Working ==
  ASSUME NumbersInv, NEW w \in Workers, Work(w)
  PROVE  \E x : /\ req' = [req EXCEPT ![w] = x]
                /\ \/ x = W!Idle
                   \/ /\ req[w].at \in ValidateSteps /\ x.at \in ValidateSteps
                      /\ x.amount = req[w].amount
                   \/ /\ Serving(w) /\ x.at \in PlaceSteps
                      /\ x.ticket = req[w].ticket /\ x.payout = req[w].payout
<1>1. CASE W!Finish(w)
  BY <1>1 DEF W!Finish
<1>2. CASE W!ValidateCreate(w) /\ W!Goto(w, "validate.lock")
  <2>1. req[w].at = "validate.create" /\ req' = [req EXCEPT ![w].at = "validate.lock"]
    BY <1>2 DEF W!ValidateCreate, W!At, W!Goto
  <2>2. req' = [req EXCEPT ![w].at = "validate.lock"]
    BY <2>1
  <2>3. PICK x : /\ req' = [req EXCEPT ![w] = x] /\ Whole(x) /\ x.at \in {"validate.lock"}
                 /\ x.amount = req[w].amount /\ x.ticket = req[w].ticket
                 /\ x.payout = req[w].payout
    BY <2>2, GoingOn
  <2> QED
    BY <2>1, <2>3 DEF ValidateSteps
<1>3. CASE W!PlaceInsert(w)
  <2>1. req[w].at = "place.insert" /\ req' = [req EXCEPT ![w].at = "place.update"]
    BY <1>3 DEF W!PlaceInsert, W!At, W!Goto
  <2>2. req' = [req EXCEPT ![w].at = "place.update"]
    BY <2>1
  <2>3. PICK x : /\ req' = [req EXCEPT ![w] = x] /\ Whole(x) /\ x.at \in {"place.update"}
                 /\ x.amount = req[w].amount /\ x.ticket = req[w].ticket
                 /\ x.payout = req[w].payout
    BY <2>2, GoingOn
  <2> QED
    BY <2>1, <2>3 DEF PlaceSteps, Serving
<1> QED
  BY <1>1, <1>2, <1>3 DEF Work, W!ValidateCreate, W!ValidateLock, W!ValidateLockLost,
     W!PlaceUpdate, W!RequestFails

\* Claims, progress and conversions are no calls of the engine.
LEMMA Elsewhere ==
  ASSUME NumbersInv, NEW w \in Workers, OtherRequest(w)
  PROVE  /\ req[w].at \notin ValidateSteps \cup PlaceSteps
         /\ UNCHANGED <<issued, tickets, history>>
         /\ \E x : req' = [req EXCEPT ![w] = x] /\ x.at \notin PlaceSteps
<1>1. req[w].at \notin ValidateSteps \cup PlaceSteps
  BY DEF OtherRequest, W!ClaimFind, W!ClaimCreate, W!ClaimUpdate, W!ProgressFind,
     W!ProgressCreate, W!ConvertFind, W!ConvertStats, W!ConvertInsert, W!ConvertUpdate,
     W!At, ValidateSteps, PlaceSteps
<1> QED
  BY <1>1, NoWager DEF OtherRequest

\* A call goes on while its worker and its replica are where they were.
LEMMA CallGoesOn ==
  ASSUME CallsInv, NEW r \in Replicas, call[r] # NoWorker, call'[r] = call[r],
         spin'[r] = spin[r],
         \/ req'[call[r]] = req[call[r]]
         \/ /\ req[call[r]].at \in ValidateSteps /\ req'[call[r]].at \in ValidateSteps
            /\ req'[call[r]].amount = req[call[r]].amount
         \/ Serving(call[r]) /\ req'[call[r]].at \in PlaceSteps
  PROVE  CallOK(r)'
<1>1. CallOK(r)
  BY DEF CallsInv
<1> QED
  BY <1>1 DEF CallOK, Serving, SpinAt, ValidateSteps, PlaceSteps

\* Nobody calls at the start.
LEMMA CallsInit == Init => CallsInv
BY DEF Init, CallsInv, CallOK

\* Every step keeps each call with the replica that made it.
LEMMA CallsNext ==
  ASSUME TypeInv, HeldInv, NumbersInv, CallsInv, [Next]_vars
  PROVE  CallsInv'
<1>a. \A r \in Replicas : call[r] # NoWorker => call[r] \in Workers /\ Calling(r)
  BY DEF CallsInv, CallOK, Calling, SpinAt
<1>b. ASSUME UNCHANGED <<call, data>>,
             \A r \in Replicas : call[r] # NoWorker => spin'[r] = spin[r],
             \A r \in Replicas : call[r] # NoWorker => req'[call[r]] = req[call[r]]
      PROVE  CallsInv'
  <2>1. \A r \in Replicas : call'[r] # NoWorker => call'[r] = call[r] /\ CallOK(r)'
    BY <1>b, CallGoesOn
  <2> QED
    BY <1>b, <2>1, CallsKept DEF CallsInv
\* who hangs up
<1>c. ASSUME NEW r \in Replicas, HangUp(r), data' = [q \in Replicas |-> data'[q]],
             \A q \in Replicas : q # r => spin'[q] = spin[q],
             \A q \in Replicas : q # r /\ call[q] # NoWorker => req'[call[q]] = req[call[q]]
      PROVE  CallsInv'
  <2>1. /\ call' \in [Replicas -> Workers \cup {NoWorker}] /\ call'[r] = NoWorker
        /\ \A q \in Replicas : q # r => call'[q] = call[q]
    BY <1>c DEF HangUp, CallsInv
  <2>2. \A q \in Replicas : call'[q] # NoWorker => call'[q] = call[q] /\ CallOK(q)'
    BY <1>c, <2>1, CallGoesOn
  <2> QED
    BY <1>c, <2>1, <2>2, CallsKept
<1>1. ASSUME NEW r \in Replicas, EngineStep(r) PROVE CallsInv'
  <2>1. UNCHANGED <<call, data, req>>
    BY <1>1, OwnSteps DEF wagerVars
  <2>2. \A q \in Replicas : call[q] # NoWorker => spin'[q] = spin[q]
    BY <1>1, <1>a, OwnSteps DEF Calling, SpinAt
  <2> QED
    BY <1>b, <2>1, <2>2
<1>2. ASSUME NEW r \in Replicas, CallTimesOut(r) \/ EngineFails(r) PROVE CallsInv'
  <2>1. \A q \in Replicas : q # r => spin'[q] = spin[q]
    BY <1>2, Ending DEF CallTimesOut, EngineFails
  <2>2. HangUp(r) /\ Forget(r) /\ req' = req
    BY <1>2 DEF CallTimesOut, EngineFails, Abandon, wagerVars
  <2>3. data' = [q \in Replicas |-> data'[q]]
    BY <2>2 DEF Forget, CallsInv
  <2> QED
    BY <1>c, <2>1, <2>2, <2>3
<1>3. ASSUME NEW r \in Replicas, NEW w \in Workers, CallValidate(r, w) PROVE CallsInv'
  <2>1. /\ SpinAt(r, "validate") /\ call[r] = NoWorker /\ W!ValidateFind(w, spin[r].game.bet)
        /\ call' = [call EXCEPT ![r] = w] /\ UNCHANGED <<spin, data>>
    BY <1>3 DEF CallValidate, Waiting, engineVars
  <2>2. PICK x : /\ req' = [req EXCEPT ![w] = x] /\ Whole(x) /\ x.at \in ValidateSteps
                 /\ x.amount = spin[r].game.bet
    BY <2>1, Finding
  <2>3. W!At(w, "idle")
    BY <2>1 DEF W!ValidateFind
  <2> QED
    BY <2>1, <2>2, <2>3, CallTaken
<1>4. ASSUME NEW r \in Replicas, NEW w \in Workers, CallPlace(r, w) PROVE CallsInv'
  <2>1. /\ SpinAt(r, "place") /\ call[r] = NoWorker
        /\ W!PlaceFind(w, data[r], spin[r].game.payout)
        /\ call' = [call EXCEPT ![r] = w] /\ UNCHANGED <<spin, data>>
    BY <1>4 DEF CallPlace, Waiting, engineVars
  <2>2. PICK x : /\ req' = [req EXCEPT ![w] = x] /\ Whole(x) /\ x.at = "place.insert"
                 /\ x.ticket = data[r] /\ x.payout = spin[r].game.payout
    BY <2>1, Placing
  <2>3. W!At(w, "idle") /\ x.at \in PlaceSteps
    BY <2>1, <2>2 DEF W!PlaceFind, PlaceSteps
  <2> QED
    BY <2>1, <2>2, <2>3, CallTaken
<1>5. ASSUME NEW r \in Replicas, NEW w \in Workers, RefuseStake(r, w) \/ PlaceThrows(r, w)
      PROVE  CallsInv'
  <2>1. \A q \in Replicas : q # r => spin'[q] = spin[q]
    BY <1>5, Ending DEF RefuseStake, PlaceThrows
  <2>2. /\ call' = call /\ req' = req /\ call[r] = NoWorker
        /\ data' = data \/ Forget(r)
    BY <1>5 DEF RefuseStake, PlaceThrows, Waiting, wagerVars
  <2>3. data' = [q \in Replicas |-> data'[q]]
    BY <2>2 DEF Forget, CallsInv
  <2>4. HangUp(r)
    BY <2>2 DEF HangUp, CallsInv
  <2> QED
    BY <1>c, <2>1, <2>2, <2>3, <2>4
<1>6. ASSUME NEW w \in Workers, WorkerStep(w) PROVE CallsInv'
  <2>1. PICK x : /\ req' = [req EXCEPT ![w] = x]
                 /\ \/ x = W!Idle
                    \/ /\ req[w].at \in ValidateSteps /\ x.at \in ValidateSteps
                       /\ x.amount = req[w].amount
                    \/ /\ Serving(w) /\ x.at \in PlaceSteps
                       /\ x.ticket = req[w].ticket /\ x.payout = req[w].payout
    BY <1>6, Working DEF WorkerStep
  <2>2. req'[w] = x /\ \A v \in Workers : v # w => req'[v] = req[v]
    BY <2>1 DEF NumbersInv
  <2>3. CASE GoesOn(w)
    <3>1. UNCHANGED <<call, data, spin>> /\ (Callers(w) = {} \/ x # W!Idle)
      BY <2>2, <2>3 DEF GoesOn, engineVars
    <3>2. \A r \in Replicas : call'[r] # NoWorker => call'[r] = call[r] /\ CallOK(r)'
      <4> SUFFICES ASSUME NEW r \in Replicas, call[r] # NoWorker PROVE CallOK(r)'
        BY <3>1
      <4>1. CASE call[r] = w
        <5>1. x # W!Idle
          BY <3>1, <4>1 DEF Callers
        <5> QED
          BY <2>1, <2>2, <3>1, <4>1, <5>1, CallGoesOn
      <4>2. CASE call[r] # w
        BY <1>a, <2>2, <3>1, <4>2, CallGoesOn
      <4> QED
        BY <4>1, <4>2
    <3> QED
      BY <3>1, <3>2, CallsKept DEF CallsInv
  <2>4. ASSUME NEW r \in Replicas, Replies(r, w) PROVE CallsInv'
    <3>1. HangUp(r) /\ call[r] = w
      BY <2>4 DEF Replies
    <3>2. \A q \in Replicas : q # r => spin'[q] = spin[q]
      BY <2>4, Ending, Granting DEF Replies, GrantReply, RefusalReply, PlaceReply
    <3>3. data' = [q \in Replicas |-> data'[q]]
      BY <2>4 DEF Replies, GrantReply, RefusalReply, PlaceReply, Forget, CallsInv
    <3>4. \A q \in Replicas : q # r /\ call[q] # NoWorker => req'[call[q]] = req[call[q]]
      BY <1>a, <2>2, <3>1 DEF CallsInv
    <3> QED
      BY <1>c, <3>1, <3>2, <3>3, <3>4
  <2> QED
    BY <1>6, <2>3, <2>4 DEF WorkerStep
<1>7. ASSUME NEW w \in Workers, OtherRequest(w) PROVE CallsInv'
  <2>1. PICK x : req' = [req EXCEPT ![w] = x]
    BY <1>7, Elsewhere
  <2>2. \A v \in Workers : v # w => req'[v] = req[v]
    BY <2>1 DEF NumbersInv
  <2>3. \A r \in Replicas : call[r] # w
    <3> SUFFICES ASSUME NEW r \in Replicas, call[r] = w PROVE FALSE
      OBVIOUS
    <3>1. w # NoWorker /\ CallOK(r)
      BY FlowAssumption DEF CallsInv
    <3> QED
      BY <1>7, <3>1, Elsewhere DEF CallOK, Serving
  <2>4. UNCHANGED <<call, data, spin>>
    BY <1>7 DEF OtherRequest, engineVars
  <2> QED
    BY <1>a, <1>b, <2>2, <2>3, <2>4
<1>8. ASSUME NEW w \in Workers, NEW l \in late, ServeLate(l, w) PROVE CallsInv'
  <2>1. UNCHANGED <<call, data, spin>> /\ W!At(w, "idle") /\ \E x : req' = [req EXCEPT ![w] = x]
    BY <1>8, Finding, Placing DEF ServeLate, engineVars, W!ValidateFind, W!PlaceFind
  <2>2. \A v \in Workers : v # w => req'[v] = req[v]
    BY <2>1 DEF NumbersInv
  <2>3. \A r \in Replicas : call[r] # w
    <3> SUFFICES ASSUME NEW r \in Replicas, call[r] = w PROVE FALSE
      OBVIOUS
    <3>1. w # NoWorker /\ CallOK(r)
      BY FlowAssumption DEF CallsInv
    <3> QED
      BY <2>1, <3>1 DEF CallOK, Serving, W!At, ValidateSteps, PlaceSteps
  <2> QED
    BY <1>a, <1>b, <2>1, <2>2, <2>3
<1>9. CASE BrokerStep \/ Tick \/ UNCHANGED vars
  <2>1. UNCHANGED <<call, data, spin, req>>
    BY <1>9 DEF BrokerStep, BrokerDown, BrokerUp, BrokerCloses, Tick, W!Tick, vars,
                engineVars, wagerVars
  <2> QED
    BY <1>b, <2>1
<1> QED
  BY <1>1, <1>2, <1>3, <1>4, <1>5, <1>6, <1>7, <1>8, <1>9 DEF Next

------------------------------------------------------------------------------
(***************************************************************************)
(* Spins and validations.  Whoever holds validation data, a replica, a late*)
(* call or a worker, holds it for the game it was given for.               *)
(***************************************************************************)
IsFor(t, g) == [n |-> t.n, game |-> g] \in Given /\ t.amount = g.bet

Holds(r) == SpinAt(r, "place") /\ call[r] = NoWorker =>
              data[r] \in tickets /\ IsFor(data[r], spin[r].game)
Unvalidated(r) == spin[r].at \notin {"idle", "place"} =>
                    \A v \in Given : v.game # spin[r].game
LateOK(l) ==
  /\ l = [step |-> l.step, game |-> l.game, ticket |-> l.ticket]
  /\ l.step \in {"validate", "place"} /\ l.game \in games
  /\ l.step = "place" => l.ticket \in tickets /\ IsFor(l.ticket, l.game)
  /\ \A r \in Replicas : ~SpinAt(r, "idle") => l.game # spin[r].game
Served(w) == Serving(w) => \E v \in Given :
               /\ v.n = req[w].ticket.n
               /\ v.game.bet = req[w].ticket.amount /\ v.game.payout = req[w].payout
Known ==
  /\ validated \in Seq(Given)
  /\ \A v \in Given : /\ v = [n |-> v.n, game |-> v.game]
                          /\ v.n \in Nat /\ v.n <= Cardinality(issued) /\ v.game \in games
  /\ \A u, v \in Given : u.n = v.n \/ u.game = v.game => u = v
OnRecord(h) == \E v \in Given : IsRecordOf(h, v)

SpinsInv ==
  /\ Known
  /\ \A r \in Replicas : Holds(r) /\ Unvalidated(r)
  /\ \A l \in late : LateOK(l)
  /\ \A w \in Workers : Served(w)
  /\ \A h \in history : OnRecord(h)

\* Where nothing is validated nothing is given.
LEMMA SameGiven ==
  ASSUME validated' = validated
  PROVE  Given' = Given
BY DEF Given, Range

\* What one more validation gives.
LEMMA OneMore ==
  ASSUME NEW u, validated \in Seq(Given), validated' = Append(validated, u)
  PROVE  Given' = Given \cup {u} /\ validated' \in Seq(Given')
<1>1. /\ Len(validated') = Len(validated) + 1 /\ Len(validated) \in Nat
      /\ validated'[Len(validated) + 1] = u
      /\ \A i \in 1 .. Len(validated) : validated'[i] = validated[i]
      /\ DOMAIN validated = 1 .. Len(validated) /\ DOMAIN validated' = 1 .. Len(validated')
  OBVIOUS
<1>2. /\ Given = {validated[i] : i \in 1 .. Len(validated)}
      /\ Given' = {validated'[i] : i \in 1 .. Len(validated) + 1}
  BY <1>1 DEF Given, Range
<1>3. \A v : v \in Given' <=> v \in Given \cup {u}
  BY <1>1, <1>2
<1>4. validated' \in Seq(Given \cup {u})
  OBVIOUS
<1> QED
  BY <1>3, <1>4

\* Nobody holds validation data at the start.
LEMMA SpinsInit == Init => SpinsInv
<1> SUFFICES ASSUME Init PROVE SpinsInv
  OBVIOUS
<1>1. /\ \A r \in Replicas : spin[r].at = "idle"
      /\ validated = <<>> /\ Given = {} /\ late = {} /\ history = {}
  BY DEF Init, EngineInit, W!Init, NoSpin, Given, Range
<1>2. \A w \in Workers : req[w].at = "idle"
  BY DEF Init, W!Init, W!Idle
<1> QED
  BY <1>1, <1>2 DEF SpinsInv, Known, Holds, Unvalidated, Served, Serving, PlaceSteps, SpinAt

\* A replica that keeps to what it has.
StaysPut(r) ==
  \/ SpinAt(r, "idle")'
  \/ ~SpinAt(r, "place")' /\ spin'[r].game \notin games
  \/ /\ spin[r].at \notin {"idle", "place"} /\ ~SpinAt(r, "place")'
     /\ spin'[r].game = spin[r].game
  \/ /\ SpinAt(r, "place") /\ spin'[r] = spin[r]
     /\ call'[r] = NoWorker => /\ call[r] = NoWorker /\ data'[r] = data[r]
                               /\ data[r] \in tickets'

\* A step that validates nothing: it suffices to look at who has moved.
LEMMA SpinsKept ==
  ASSUME SpinsInv, validated' = validated, games \subseteq games',
         Cardinality(issued) \in Nat, Cardinality(issued') \in Nat,
         Cardinality(issued) <= Cardinality(issued'),
         \A r \in Replicas : StaysPut(r),
         \A l \in late' : \/ l \in late /\ (l.step = "place" => l.ticket \in tickets')
                          \/ LateOK(l)',
         \A w \in Workers : Served(w)',
         \A h \in history' : h \in history \/ OnRecord(h)
  PROVE  SpinsInv'
<1>0. Given' = Given
  BY SameGiven
<1>1. Known'
  BY <1>0 DEF SpinsInv, Known
<1>2. ASSUME NEW r \in Replicas PROVE Holds(r)'
  BY <1>0 DEF SpinsInv, Holds, StaysPut, SpinAt, IsFor
<1>3. ASSUME NEW r \in Replicas PROVE Unvalidated(r)'
  <2>1. \A v \in Given : v.game \in games
    BY DEF SpinsInv, Known
  <2> QED
    BY <1>0, <2>1 DEF SpinsInv, Unvalidated, StaysPut, SpinAt
<1>4. ASSUME NEW l \in late' PROVE LateOK(l)'
  <2> SUFFICES ASSUME l \in late, l.step = "place" => l.ticket \in tickets'
               PROVE  LateOK(l)'
    BY <1>4
  <2>1. LateOK(l)
    BY DEF SpinsInv
  <2>2. \A r \in Replicas : ~SpinAt(r, "idle")' => l.game # spin'[r].game
    BY <2>1 DEF StaysPut, LateOK, SpinAt
  <2>3. l.game \in games' /\ (l.step = "place" => l.ticket \in tickets' /\ IsFor(l.ticket, l.game)')
    BY <1>0, <2>1 DEF LateOK, IsFor
  <2>4. l = [step |-> l.step, game |-> l.game, ticket |-> l.ticket]
        /\ l.step \in {"validate", "place"}
    BY <2>1 DEF LateOK
  <2> QED
    BY <2>2, <2>3, <2>4 DEF LateOK
<1>5. \A h \in history' : OnRecord(h)'
  BY <1>0 DEF SpinsInv, OnRecord, IsRecordOf
<1> QED
  BY <1>1, <1>2, <1>3, <1>4, <1>5 DEF SpinsInv

\* A replica that nothing happens to, while validation data is only added.
LEMMA Untouched ==
  ASSUME NEW r \in Replicas, SpinsInv, spin'[r] = spin[r], call'[r] = call[r],
         data'[r] = data[r], tickets \subseteq tickets'
  PROVE  StaysPut(r)
<1>1. Holds(r)
  BY DEF SpinsInv
<1> QED
  BY <1>1 DEF StaysPut, Holds, SpinAt

\* The data a replica is to place is nobody else's.
LEMMA OneHolder ==
  ASSUME SpinsInv, HeldInv, NEW r \in Replicas, SpinAt(r, "place"), call[r] = NoWorker
  PROVE  /\ \A q \in Replicas : SpinAt(q, "place") /\ call[q] = NoWorker /\ q # r
                                  => data[q] # data[r]
         /\ \A l \in late : l.step = "place" => l.ticket # data[r]
<1>1. \A g, h : [n |-> data[r].n, game |-> g] \in Given
                /\ [n |-> data[r].n, game |-> h] \in Given => g = h
  <2> TAKE g, h
  <2> DEFINE u == [n |-> data[r].n, game |-> g]
             v == [n |-> data[r].n, game |-> h]
  <2> HAVE u \in Given /\ v \in Given
  <2>1. u.n = v.n /\ u.game = g /\ v.game = h
    OBVIOUS
  <2> HIDE DEF u, v
  <2> QED
    BY <2>1 DEF SpinsInv, Known
<1>2. IsFor(data[r], spin[r].game) /\ ~SpinAt(r, "idle")
  BY DEF SpinsInv, Holds, SpinAt
<1>3. \A q \in Replicas : SpinAt(q, "place") /\ call[q] = NoWorker /\ q # r
                            => data[q] # data[r]
  <2> SUFFICES ASSUME NEW q \in Replicas, SpinAt(q, "place"), call[q] = NoWorker,
                      data[q] = data[r]
               PROVE  q = r
    OBVIOUS
  <2>1. IsFor(data[r], spin[q].game) /\ ~SpinAt(q, "idle")
    BY DEF SpinsInv, Holds, SpinAt
  <2>2. spin[q].game = spin[r].game
    BY <1>1, <1>2, <2>1 DEF IsFor
  <2> QED
    BY <1>2, <2>1, <2>2 DEF HeldInv
<1>4. \A l \in late : l.step = "place" => l.ticket # data[r]
  <2> SUFFICES ASSUME NEW l \in late, l.step = "place", l.ticket = data[r]
               PROVE  FALSE
    OBVIOUS
  <2>1. LateOK(l)
    BY DEF SpinsInv
  <2>2. IsFor(data[r], l.game)
    BY <2>1 DEF LateOK
  <2>3. l.game = spin[r].game
    BY <1>1, <1>2, <2>2 DEF IsFor
  <2> QED
    BY <1>2, <2>1, <2>3 DEF LateOK
<1> QED
  BY <1>3, <1>4

\* So is the data of a late call.
LEMMA OneLate ==
  ASSUME SpinsInv, NEW l \in late, NEW k \in late, l.step = "place", k.step = "place",
         l.ticket = k.ticket
  PROVE  l = k
<1>1. /\ l = [step |-> l.step, game |-> l.game, ticket |-> l.ticket]
      /\ k = [step |-> k.step, game |-> k.game, ticket |-> k.ticket]
      /\ IsFor(l.ticket, l.game) /\ IsFor(l.ticket, k.game)
  BY DEF SpinsInv, LateOK
<1> DEFINE u == [n |-> l.ticket.n, game |-> l.game]
           v == [n |-> l.ticket.n, game |-> k.game]
<1>2. u \in Given /\ v \in Given
  BY <1>1 DEF IsFor
<1>3. u.n = v.n /\ u.game = l.game /\ v.game = k.game
  OBVIOUS
<1> HIDE DEF u, v
<1>4. l.game = k.game
  BY <1>2, <1>3 DEF SpinsInv, Known
<1> QED
  BY <1>1, <1>4

------------------------------------------------------------------------------
\* Numbers only go up.
LEMMA IssuedGrows ==
  ASSUME NumbersInv, NumbersInv', issued \subseteq issued'
  PROVE  /\ Cardinality(issued) \in Nat /\ Cardinality(issued') \in Nat
         /\ Cardinality(issued) <= Cardinality(issued')
BY FS_CardinalityType, FS_Subset DEF NumbersInv

\* A worker that ends, begins a validation, or goes on placing the same wager.
LEMMA ServedKept ==
  ASSUME SpinsInv, NumbersInv, Given \subseteq Given',
         NEW w \in Workers, NEW x, req' = [req EXCEPT ![w] = x],
         \/ x.at \notin PlaceSteps
         \/ Serving(w) /\ x.ticket = req[w].ticket /\ x.payout = req[w].payout
  PROVE  \A v \in Workers : Served(v)'
<1>1. req'[w] = x /\ \A v \in Workers : v # w => req'[v] = req[v]
  BY DEF NumbersInv
<1>2. \A v \in Workers : Served(v)
  BY DEF SpinsInv
<1> QED
  BY <1>1, <1>2 DEF Served, Serving

\* A worker that takes up validation data given for the spin of game g.
LEMMA ServedTaken ==
  ASSUME SpinsInv, NumbersInv, validated' = validated, NEW w \in Workers, NEW t, NEW g,
         IsFor(t, g), W!PlaceFind(w, t, g.payout)
  PROVE  \A v \in Workers : Served(v)'
<1>1. PICK x : /\ req' = [req EXCEPT ![w] = x] /\ Whole(x) /\ x.at = "place.insert"
               /\ x.ticket = t /\ x.payout = g.payout
  BY Placing
<1>2. req'[w] = x /\ \A v \in Workers : v # w => req'[v] = req[v]
  BY <1>1 DEF NumbersInv
<1>3. \A v \in Workers : Served(v)
  BY DEF SpinsInv
<1> DEFINE u == [n |-> t.n, game |-> g]
<1>4. u \in Given /\ u.n = t.n /\ u.game = g /\ g.bet = t.amount
  BY DEF IsFor
<1> HIDE DEF u
<1>5. Served(w)'
  BY <1>1, <1>2, <1>4, SameGiven DEF Served
<1> QED
  BY <1>2, <1>3, <1>5, SameGiven DEF Served, Serving

\* What a step of a worker does to the collections.
LEMMA WorkKeeps ==
  ASSUME SpinsInv, NumbersInv, NEW w \in Workers, Work(w)
  PROVE  /\ issued \subseteq issued' /\ tickets \subseteq tickets'
         /\ \A h \in history' : h \in history \/ OnRecord(h)
<1>1. CASE W!PlaceInsert(w)
  <2>1. issued' = issued /\ tickets' = tickets /\ Serving(w)
    BY <1>1 DEF W!PlaceInsert, W!At, Serving, PlaceSteps
  <2>2. PICK h : /\ history' = history \cup {h} /\ h.n = req[w].ticket.n
                 /\ h.amount = req[w].ticket.amount /\ h.payout = req[w].payout
    BY <1>1, Inserting
  <2>3. OnRecord(h)
    BY <2>1, <2>2 DEF SpinsInv, Served, OnRecord, IsRecordOf
  <2> QED
    BY <2>1, <2>2, <2>3
<1>2. CASE W!ValidateLock(w)
  <2>1. history' = history
    BY <1>2 DEF W!ValidateLock
  <2>2. PICK t : issued' = issued \cup {t} /\ tickets' = tickets \cup {t}
    BY <1>2, Locking
  <2> QED
    BY <2>1, <2>2
<1> QED
  BY <1>1, <1>2, NoWager DEF Work

\* A reply that grants a validation gives its data to the replica that asked.
LEMMA GrantSpins ==
  ASSUME TypeInv, HeldInv, NumbersInv, NumbersInv', CallsInv, SpinsInv,
         NEW w \in Workers, NEW r \in Replicas, Work(w), call[r] = w, HangUp(r),
         GrantReply(r), late' = late
  PROVE  SpinsInv'
<1>1. PICK t \in issued' \ issued :
        /\ data' = [data EXCEPT ![r] = t]
        /\ validated' = Append(validated, [n |-> t.n, game |-> spin[r].game])
  BY DEF GrantReply
<1>2. W!ValidateLock(w)
  BY <1>1, NoWager DEF Work, W!PlaceInsert
<1>3. /\ issued' = issued \cup {t} /\ tickets' = tickets \cup {t}
      /\ t.n = Cardinality(issued) + 1 /\ t.amount = req[w].amount
      /\ Cardinality(issued') = Cardinality(issued) + 1 /\ Cardinality(issued) \in Nat
  BY <1>1, <1>2, LockNumbers, FS_CardinalityType DEF NumbersInv
<1>4. /\ history' = history /\ req' = [req EXCEPT ![w] = W!Idle] /\ W!Idle.at \notin PlaceSteps
  BY <1>2 DEF W!ValidateLock, W!Finish, W!Idle, PlaceSteps
<1>5. /\ games' = games /\ SpinAt(r, "validate")
      /\ spin'[r].at = "place" /\ spin'[r].game = spin[r].game
      /\ \A q \in Replicas : q # r => spin'[q] = spin[q]
  BY Granting DEF GrantReply
<1>6. spin[r].game \in games /\ t.amount = spin[r].game.bet
  <2>1. CallOK(r) /\ w # NoWorker
    BY FlowAssumption DEF CallsInv
  <2>2. req[w].amount = spin[r].game.bet
    BY <1>5, <2>1 DEF CallOK, SpinAt
  <2> QED
    BY <1>3, <1>5, <2>2 DEF HeldInv, SpinAt
<1>7. /\ call'[r] = NoWorker /\ data'[r] = t
      /\ \A q \in Replicas : q # r => call'[q] = call[q] /\ data'[q] = data[q]
  BY <1>1 DEF HangUp, CallsInv
<1> DEFINE u == [n |-> t.n, game |-> spin[r].game]
<1>8. /\ u = [n |-> u.n, game |-> u.game] /\ u.n = t.n /\ u.game = spin[r].game
      /\ Given' = Given \cup {u} /\ validated' \in Seq(Given')
  <2>1. validated' = Append(validated, u) /\ validated \in Seq(Given)
    BY <1>1 DEF SpinsInv, Known
  <2>2. u = [n |-> u.n, game |-> u.game] /\ u.n = t.n /\ u.game = spin[r].game
    OBVIOUS
  <2> HIDE DEF u
  <2> QED
    BY <2>1, <2>2, OneMore
<1>9. IsFor(t, spin[r].game)'
  BY <1>5, <1>6, <1>8 DEF IsFor
<1> HIDE DEF u
<1>10. \A v \in Given : v.n # u.n /\ v.game # u.game
  <2>1. \A v \in Given : v.n \in Nat /\ v.n <= Cardinality(issued)
    BY DEF SpinsInv, Known
  <2>2. \A v \in Given : v.game # spin[r].game
    BY <1>5 DEF SpinsInv, Unvalidated, SpinAt
  <2> QED
    BY <1>3, <1>8, <2>1, <2>2
<1>11. Known'
  <2>1. \A v \in Given : /\ v = [n |-> v.n, game |-> v.game]
                             /\ v.n \in Nat /\ v.n <= Cardinality(issued) /\ v.game \in games
    BY DEF SpinsInv, Known
  <2>2. \A v \in Given' : /\ v = [n |-> v.n, game |-> v.game]
                              /\ v.n \in Nat /\ v.n <= Cardinality(issued') /\ v.game \in games'
    BY <1>3, <1>5, <1>6, <1>8, <2>1
  <2>3. \A v, x \in Given' : v.n = x.n \/ v.game = x.game => v = x
    BY <1>8, <1>10 DEF SpinsInv, Known
  <2> QED
    BY <1>8, <2>2, <2>3 DEF Known
<1>12. ASSUME NEW q \in Replicas PROVE Holds(q)'
  <2>1. CASE q = r
    BY <1>3, <1>5, <1>7, <1>9, <2>1 DEF Holds
  <2>2. CASE q # r
    BY <1>3, <1>5, <1>7, <1>8, <2>2 DEF SpinsInv, Holds, SpinAt, IsFor
  <2> QED
    BY <2>1, <2>2
<1>13. ASSUME NEW q \in Replicas PROVE Unvalidated(q)'
  <2>1. CASE q = r
    BY <1>5, <2>1 DEF Unvalidated
  <2>2. CASE q # r
    <3>1. spin[q].at # "idle" => spin[q].game # spin[r].game
      BY <1>5, <2>2 DEF HeldInv, SpinAt
    <3> QED
      BY <1>5, <1>8, <2>2, <3>1 DEF SpinsInv, Unvalidated
  <2> QED
    BY <2>1, <2>2
<1>14. ASSUME NEW l \in late PROVE LateOK(l)'
  <2>1. LateOK(l)
    BY DEF SpinsInv
  <2>2. \A q \in Replicas : ~SpinAt(q, "idle")' => l.game # spin'[q].game
    BY <1>5, <2>1 DEF LateOK, SpinAt
  <2> QED
    BY <1>3, <1>5, <1>8, <2>1, <2>2 DEF LateOK, IsFor
<1>15. \A v \in Workers : Served(v)'
  <2>1. Given \subseteq Given'
    BY <1>8
  <2> QED
    BY <1>4, <2>1, ServedKept
<1>16. \A h \in history' : OnRecord(h)'
  BY <1>4, <1>8 DEF SpinsInv, OnRecord, IsRecordOf
<1> QED
  BY <1>11, <1>12, <1>13, <1>14, <1>15, <1>16 DEF SpinsInv

------------------------------------------------------------------------------
\* What is known of late calls includes their games.
LEMMA LateGamesKnown == SpinsInv => LateGames
BY DEF SpinsInv, LateOK, LateGames

\* A spin whose call is cut off: the call that no worker has accepted stays behind.
LEMMA AbandonSpins ==
  ASSUME TypeInv, HeldInv, NumbersInv, CallsInv, SpinsInv, NEW r \in Replicas,
         Abandon(r), Refused(r) \/ Answered(r) \/ SpinFails(r)
  PROVE  SpinsInv'
<1>1. /\ games' = games /\ spin'[r].at = "idle" /\ ~SpinAt(r, "idle")
      /\ \A q \in Replicas : q # r => spin'[q] = spin[q]
  BY Ending
<1>2. /\ UNCHANGED <<history, tickets, issued, req, validated>>
      /\ \A q \in Replicas : q # r => call'[q] = call[q] /\ data'[q] = data[q]
  BY DEF Abandon, HangUp, Forget, CallsInv, wagerVars
<1>3. \A q \in Replicas : StaysPut(q)
  <2>1. StaysPut(r)
    BY <1>1 DEF StaysPut, SpinAt
  <2>2. ASSUME NEW q \in Replicas, q # r PROVE StaysPut(q)
    BY <1>1, <1>2, <2>2, Untouched
  <2> QED
    BY <2>1, <2>2
<1>4. ASSUME NEW l, Waiting(r), l = CallOf(r) PROVE LateOK(l)'
  <2>1. /\ l = [step |-> l.step, game |-> l.game, ticket |-> l.ticket]
        /\ l.step = spin[r].at /\ l.game = spin[r].game /\ l.ticket = data[r]
    BY <1>4 DEF CallOf
  <2>2. call[r] = NoWorker /\ l.step \in {"validate", "place"} /\ l.game \in games
    BY <1>1, <1>4, <2>1 DEF Waiting, Calling, HeldInv
  <2>3. l.step = "place" => l.ticket \in tickets /\ IsFor(l.ticket, l.game)
    BY <2>1, <2>2 DEF SpinsInv, Holds, SpinAt
  <2>4. \A q \in Replicas : ~SpinAt(q, "idle")' => l.game # spin'[q].game
    BY <1>1, <2>1 DEF HeldInv, SpinAt
  <2> QED
    BY <1>1, <1>2, <2>1, <2>2, <2>3, <2>4 DEF LateOK, IsFor, Given, Range
<1>5. \A l \in late' : \/ l \in late /\ (l.step = "place" => l.ticket \in tickets')
                       \/ LateOK(l)'
  <2> SUFFICES ASSUME NEW l \in late'
               PROVE  \/ l \in late /\ (l.step = "place" => l.ticket \in tickets')
                      \/ LateOK(l)'
    OBVIOUS
  <2>1. l \in late \/ (Waiting(r) /\ l = CallOf(r))
    BY DEF Abandon
  <2> QED
    BY <1>2, <1>4, <2>1 DEF SpinsInv, LateOK
<1>6. \A w \in Workers : Served(w)'
  BY <1>2, SameGiven DEF SpinsInv, Served, Serving
<1> QED
  BY <1>1, <1>2, <1>3, <1>5, <1>6, SpinsKept, FS_CardinalityType DEF NumbersInv

\* Every step keeps each spin to its validation.
LEMMA SpinsNext ==
  ASSUME TypeInv, HeldInv, NumbersInv, NumbersInv', CallsInv, SpinsInv, [Next]_vars
  PROVE  SpinsInv'
\* a step after which nobody holds less than before
<1>a. ASSUME games \subseteq games', validated' = validated,
             issued \subseteq issued', tickets \subseteq tickets', late' \subseteq late,
             \A r \in Replicas : StaysPut(r), \A w \in Workers : Served(w)',
             \A h \in history' : h \in history \/ OnRecord(h)
      PROVE  SpinsInv'
  <2>1. \A l \in late' : l \in late /\ (l.step = "place" => l.ticket \in tickets')
    BY <1>a DEF SpinsInv, LateOK
  <2> QED
    BY <1>a, <2>1, IssuedGrows, SpinsKept
\* a step that takes up data t, given for game g, that l or r held
<1>b. ASSUME NEW w \in Workers, NEW t, NEW g, IsFor(t, g), W!PlaceFind(w, t, g.payout),
             games' = games, validated' = validated,
             \A r \in Replicas : StaysPut(r),
             late' \subseteq late, \A l \in late' : l.step = "place" => l.ticket # t
      PROVE  SpinsInv'
  <2>1. UNCHANGED <<issued, history>> /\ tickets' = tickets \ {t}
    BY <1>b DEF W!PlaceFind, W!ghosts
  <2>2. \A l \in late' : l \in late /\ (l.step = "place" => l.ticket \in tickets')
    BY <1>b, <2>1 DEF SpinsInv, LateOK
  <2>3. \A v \in Workers : Served(v)'
    BY <1>b, ServedTaken
  <2> QED
    BY <1>b, <2>1, <2>2, <2>3, IssuedGrows, SpinsKept
<1>1. ASSUME NEW r \in Replicas, EngineStep(r) PROVE SpinsInv'
  <2>1. UNCHANGED <<issued, tickets, history, req, call, data, late, validated>>
    BY <1>1, OwnSteps DEF wagerVars
  <2>2. ASSUME NEW q \in Replicas PROVE StaysPut(q)
    <3>1. CASE spin'[q] = spin[q]
      BY <2>1, <3>1, Untouched
    <3>2. CASE spin'[q] # spin[q]
      BY <1>1, <3>2, OwnSteps DEF StaysPut, SpinAt
    <3> QED
      BY <3>1, <3>2
  <2>3. \A w \in Workers : Served(w)'
    BY <2>1, SameGiven DEF SpinsInv, Served, Serving
  <2>4. games \subseteq games'
    BY <1>1, OwnSteps
  <2> QED
    BY <1>a, <2>1, <2>2, <2>3, <2>4
<1>2. ASSUME NEW r \in Replicas, CallTimesOut(r) \/ EngineFails(r) PROVE SpinsInv'
  BY <1>2, AbandonSpins DEF CallTimesOut, EngineFails
<1>3. ASSUME NEW r \in Replicas, NEW w \in Workers, CallValidate(r, w) PROVE SpinsInv'
  <2>1. /\ SpinAt(r, "validate") /\ W!ValidateFind(w, spin[r].game.bet)
        /\ UNCHANGED <<games, spin, data, late, validated>>
        /\ \A q \in Replicas : q # r => call'[q] = call[q]
    BY <1>3 DEF CallValidate, engineVars, store, CallsInv
  <2>2. UNCHANGED <<issued, tickets, history>>
    BY <2>1 DEF W!ValidateFind, W!ghosts
  <2>3. \A q \in Replicas : StaysPut(q)
    <3>1. StaysPut(r)
      BY <2>1 DEF StaysPut, SpinAt
    <3>2. ASSUME NEW q \in Replicas, q # r PROVE StaysPut(q)
      BY <2>1, <2>2, <3>2, Untouched
    <3> QED
      BY <3>1, <3>2
  <2>4. PICK x : /\ req' = [req EXCEPT ![w] = x] /\ Whole(x) /\ x.at \in ValidateSteps
                 /\ x.amount = spin[r].game.bet
    BY <2>1, Finding
  <2>5. x.at \notin PlaceSteps /\ Given \subseteq Given'
    BY <2>1, <2>4, SameGiven DEF ValidateSteps, PlaceSteps
  <2>6. \A v \in Workers : Served(v)'
    BY <2>4, <2>5, ServedKept
  <2> QED
    BY <1>a, <2>1, <2>2, <2>3, <2>6
<1>4. ASSUME NEW r \in Replicas, NEW w \in Workers, CallPlace(r, w) PROVE SpinsInv'
  <2>1. /\ SpinAt(r, "place") /\ call[r] = NoWorker
        /\ W!PlaceFind(w, data[r], spin[r].game.payout)
        /\ UNCHANGED <<games, spin, data, late, validated>>
        /\ call'[r] = w /\ \A q \in Replicas : q # r => call'[q] = call[q]
    BY <1>4 DEF CallPlace, Waiting, engineVars, store, CallsInv
  <2>2. tickets' = tickets \ {data[r]} /\ w # NoWorker
    BY <2>1, FlowAssumption DEF W!PlaceFind
  <2>3. /\ \A q \in Replicas : SpinAt(q, "place") /\ call[q] = NoWorker /\ q # r
                                 => data[q] # data[r]
        /\ \A l \in late : l.step = "place" => l.ticket # data[r]
    BY <2>1, OneHolder
  <2>4. \A q \in Replicas : StaysPut(q)
    <3>1. StaysPut(r)
      BY <2>1, <2>2 DEF StaysPut
    <3>2. ASSUME NEW q \in Replicas, q # r PROVE StaysPut(q)
      <4>1. SpinAt(q, "place") /\ call[q] = NoWorker => data[q] \in tickets'
        BY <2>2, <2>3, <3>2 DEF SpinsInv, Holds
      <4> QED
        BY <2>1, <3>2, <4>1 DEF StaysPut, SpinAt
    <3> QED
      BY <3>1, <3>2
  <2>5. IsFor(data[r], spin[r].game)
    BY <2>1 DEF SpinsInv, Holds
  <2> QED
    BY <1>b, <2>1, <2>3, <2>4, <2>5
<1>5. ASSUME NEW r \in Replicas, NEW w \in Workers, RefuseStake(r, w) \/ PlaceThrows(r, w)
      PROVE  SpinsInv'
  <2>1. /\ games' = games /\ spin'[r].at = "idle" /\ ~SpinAt(r, "idle")
        /\ \A q \in Replicas : q # r => spin'[q] = spin[q]
    BY <1>5, Ending DEF RefuseStake, PlaceThrows
  <2>2. /\ UNCHANGED <<issued, tickets, history, req, late, validated, call>>
        /\ \A q \in Replicas : q # r => data'[q] = data[q]
    BY <1>5 DEF RefuseStake, PlaceThrows, Forget, wagerVars, CallsInv
  <2>3. \A q \in Replicas : StaysPut(q)
    <3>1. StaysPut(r)
      BY <2>1 DEF StaysPut, SpinAt
    <3>2. ASSUME NEW q \in Replicas, q # r PROVE StaysPut(q)
      BY <2>1, <2>2, <3>2, Untouched
    <3> QED
      BY <3>1, <3>2
  <2>4. \A v \in Workers : Served(v)'
    BY <2>2, SameGiven DEF SpinsInv, Served, Serving
  <2> QED
    BY <1>a, <2>1, <2>2, <2>3, <2>4
<1>6. ASSUME NEW w \in Workers, WorkerStep(w) PROVE SpinsInv'
  <2>1. /\ Work(w) /\ late' = late /\ issued \subseteq issued' /\ tickets \subseteq tickets'
        /\ \A h \in history' : h \in history \/ OnRecord(h)
    BY <1>6, WorkKeeps DEF WorkerStep
  <2>2. ASSUME validated' = validated PROVE \A v \in Workers : Served(v)'
    <3>1. PICK x : /\ req' = [req EXCEPT ![w] = x]
                   /\ \/ x = W!Idle
                      \/ /\ req[w].at \in ValidateSteps /\ x.at \in ValidateSteps
                         /\ x.amount = req[w].amount
                      \/ /\ Serving(w) /\ x.at \in PlaceSteps
                         /\ x.ticket = req[w].ticket /\ x.payout = req[w].payout
      BY <2>1, Working
    <3>2. \/ x.at \notin PlaceSteps
          \/ Serving(w) /\ x.ticket = req[w].ticket /\ x.payout = req[w].payout
      BY <3>1, IdleWhole DEF PlaceSteps, ValidateSteps
    <3> QED
      BY <2>2, <3>1, <3>2, SameGiven, ServedKept
  <2>3. CASE GoesOn(w)
    <3>1. UNCHANGED <<games, spin, call, data, validated>>
      BY <2>3 DEF GoesOn, engineVars, store
    <3>2. \A q \in Replicas : StaysPut(q)
      BY <2>1, <3>1, Untouched
    <3> QED
      BY <1>a, <2>1, <2>2, <3>1, <3>2
  <2>4. ASSUME NEW r \in Replicas, Replies(r, w) PROVE SpinsInv'
    <3>1. call[r] = w /\ HangUp(r) /\ \A q \in Replicas : q # r => call'[q] = call[q]
      BY <2>4 DEF Replies, HangUp, CallsInv
    <3>2. CASE GrantReply(r)
      BY <2>1, <3>1, <3>2, GrantSpins
    <3>3. CASE RefusalReply(r) \/ PlaceReply(r)
      <4>1. /\ games' = games /\ spin'[r].at = "idle"
            /\ \A q \in Replicas : q # r => spin'[q] = spin[q]
        BY <3>3, Ending DEF RefusalReply, PlaceReply
      <4>2. validated' = validated /\ \A q \in Replicas : q # r => data'[q] = data[q]
        BY <3>3 DEF RefusalReply, PlaceReply, Forget, CallsInv
      <4>3. \A q \in Replicas : StaysPut(q)
        <5>1. StaysPut(r)
          BY <4>1 DEF StaysPut, SpinAt
        <5>2. ASSUME NEW q \in Replicas, q # r PROVE StaysPut(q)
          BY <2>1, <3>1, <4>1, <4>2, <5>2, Untouched
        <5> QED
          BY <5>1, <5>2
      <4> QED
        BY <1>a, <2>1, <2>2, <4>1, <4>2, <4>3
    <3> QED
      BY <2>4, <3>2, <3>3 DEF Replies
  <2> QED
    BY <1>6, <2>3, <2>4 DEF WorkerStep
<1>7. ASSUME NEW w \in Workers, OtherRequest(w) PROVE SpinsInv'
  <2>1. UNCHANGED <<games, spin, call, data, late, validated>>
    BY <1>7 DEF OtherRequest, engineVars, store
  <2>2. UNCHANGED <<issued, tickets, history>>
    BY <1>7, Elsewhere
  <2>3. PICK x : req' = [req EXCEPT ![w] = x] /\ x.at \notin PlaceSteps
    BY <1>7, Elsewhere
  <2>4. \A v \in Workers : Served(v)'
    BY <2>1, <2>3, SameGiven, ServedKept
  <2>5. \A q \in Replicas : StaysPut(q)
    BY <2>1, <2>2, Untouched
  <2> QED
    BY <1>a, <2>1, <2>2, <2>4, <2>5
<1>8. ASSUME NEW w \in Workers, NEW l \in late, ServeLate(l, w) PROVE SpinsInv'
  <2>1. UNCHANGED <<games, spin, call, data, validated>> /\ late' = late \ {l}
    BY <1>8 DEF ServeLate, engineVars, store
  <2>2. CASE l.step = "validate"
    <3>1. W!ValidateFind(w, l.game.bet)
      BY <1>8, <2>2 DEF ServeLate
    <3>2. UNCHANGED <<issued, tickets, history>>
      BY <3>1 DEF W!ValidateFind, W!ghosts
    <3>3. PICK x : /\ req' = [req EXCEPT ![w] = x] /\ Whole(x) /\ x.at \in ValidateSteps
                   /\ x.amount = l.game.bet
      BY <3>1, Finding
    <3>4. x.at \notin PlaceSteps /\ Given \subseteq Given'
      BY <2>1, <3>3, SameGiven DEF ValidateSteps, PlaceSteps
    <3>5. \A v \in Workers : Served(v)'
      BY <3>3, <3>4, ServedKept
    <3>6. \A q \in Replicas : StaysPut(q)
      BY <2>1, <3>2, Untouched
    <3> QED
      BY <1>a, <2>1, <3>2, <3>5, <3>6
  <2>3. CASE l.step # "validate"
    <3>1. l.step = "place" /\ IsFor(l.ticket, l.game) /\ LateOK(l)
      BY <2>3 DEF SpinsInv, LateOK
    <3>2. W!PlaceFind(w, l.ticket, l.game.payout)
      BY <1>8, <2>3 DEF ServeLate
    <3>3. \A k \in late' : k.step = "place" => k.ticket # l.ticket
      BY <2>1, <3>1, OneLate
    <3>4. ASSUME NEW q \in Replicas PROVE StaysPut(q)
      <4>1. SpinAt(q, "place") /\ call[q] = NoWorker => data[q] \in tickets /\ data[q] # l.ticket
        BY <3>1, OneHolder DEF SpinsInv, Holds
      <4>2. tickets' = tickets \ {l.ticket}
        BY <3>2 DEF W!PlaceFind
      <4> QED
        BY <2>1, <4>1, <4>2 DEF StaysPut, SpinAt
    <3> QED
      BY <1>b, <2>1, <3>1, <3>2, <3>3, <3>4
  <2> QED
    BY <2>2, <2>3
<1>9. CASE BrokerStep \/ Tick \/ UNCHANGED vars
  <2>1. UNCHANGED <<games, spin, call, data, late, validated, issued, tickets, history, req>>
    BY <1>9 DEF BrokerStep, BrokerDown, BrokerUp, BrokerCloses, store, Tick, W!Tick, W!ghosts,
                vars, engineVars, wagerVars
  <2>2. \A q \in Replicas : StaysPut(q)
    BY <2>1, Untouched
  <2>3. \A v \in Workers : Served(v)'
    BY <2>1, SameGiven DEF SpinsInv, Served, Serving
  <2> QED
    BY <1>a, <2>1, <2>2, <2>3
<1> QED
  BY <1>1, <1>2, <1>3, <1>4, <1>5, <1>6, <1>7, <1>8, <1>9 DEF Next
------------------------------------------------------------------------------
(***************************************************************************)
(* The theorems of the composition.                                        *)
(***************************************************************************)
FlowInv == BalanceInv /\ HeldInv /\ NumbersInv /\ CallsInv /\ SpinsInv

\* All of it holds in every state of the flow.
LEMMA FlowInvariant == Spec => []FlowInv
<1>1. Init => FlowInv
  BY BalanceInit, HeldInit, NumbersInit, CallsInit, SpinsInit DEF Init, FlowInv
<1>2. FlowInv /\ [Next]_vars => FlowInv'
  <2> SUFFICES ASSUME FlowInv, [Next]_vars PROVE FlowInv'
    OBVIOUS
  <2> USE DEF FlowInv
  <2>0. TypeInv
    BY DEF BalanceInv
  <2>1. BalanceInv' /\ HeldInv'
    BY <2>0, FlowStepsEngine, BalanceNext, HeldNext
  <2>2. [W!Next]_wagerVars
    BY <2>0, LateGamesKnown, FlowStepsWager
  <2>3. NumbersInv'
    BY <2>2, NumbersNext
  <2>4. CallsInv'
    BY <2>0, CallsNext
  <2>5. SpinsInv'
    BY <2>0, <2>3, SpinsNext
  <2> QED
    BY <2>1, <2>3, <2>4, <2>5
<1> QED
  BY <1>1, <1>2, PTL DEF Spec

\* The flow is the wager service with an engine for its client: the engine only makes
\* the requests that WagerService allows a client, late calls included
\* (HttpWagerService, http_wager_service.py:19-63).
THEOREM FlowIsWager == Spec => W!Spec
<1>1. Init => W!Init
  BY DEF Init
<1>2. FlowInv /\ [Next]_vars => [W!Next]_wagerVars
  BY LateGamesKnown, FlowStepsWager DEF FlowInv, BalanceInv
<1>3. [W!Next]_wagerVars => [W!Next]_(W!vars)
  BY DEF wagerVars, W!vars, W!ghosts
<1> QED
  BY <1>1, <1>2, <1>3, FlowInvariant, PTL DEF Spec, W!Spec

\* Whatever times out or dies: validation data that is still to be placed has not
\* been placed, and is to be placed once.
THEOREM NothingPlacedTwice == Spec => []PlacedAtMostOnce
<1>1. FlowInv => PlacedAtMostOnce
  <2> HAVE FlowInv
  <2>1. SpinsInv
    BY DEF FlowInv
  <2> DEFINE calls == {CallOf(r) : r \in {s \in Replicas : SpinAt(s, "place") /\ Waiting(s)}}
                      \cup {l \in late : l.step = "place"}
  <2>2. \A c \in calls : c.ticket \in tickets /\ IsFor(c.ticket, c.game)
    <3>1. ASSUME NEW r \in Replicas, SpinAt(r, "place"), Waiting(r)
          PROVE  CallOf(r).ticket \in tickets /\ IsFor(CallOf(r).ticket, CallOf(r).game)
      BY <2>1, <3>1 DEF SpinsInv, Holds, Waiting, CallOf
    <3>2. ASSUME NEW l \in late, l.step = "place"
          PROVE  l.ticket \in tickets /\ IsFor(l.ticket, l.game)
      BY <2>1, <3>2 DEF SpinsInv, LateOK
    <3> QED
      BY <3>1, <3>2
  <2> HIDE DEF calls
  <2>3. \A c, d \in calls : c.ticket = d.ticket => c.game = d.game
    <3> SUFFICES ASSUME NEW c \in calls, NEW d \in calls, c.ticket = d.ticket
                 PROVE  c.game = d.game
      OBVIOUS
    <3> DEFINE u == [n |-> c.ticket.n, game |-> c.game]
               v == [n |-> c.ticket.n, game |-> d.game]
    <3>1. u \in Given /\ v \in Given
      BY <2>2 DEF IsFor
    <3>2. u.n = v.n /\ u.game = c.game /\ v.game = d.game
      OBVIOUS
    <3> HIDE DEF u, v
    <3> QED
      BY <2>1, <3>1, <3>2 DEF SpinsInv, Known
  <2>4. \A r \in Replicas : SpinAt(r, "place") /\ Waiting(r) => CallOf(r) \notin late
    <3> SUFFICES ASSUME NEW r \in Replicas, SpinAt(r, "place"), CallOf(r) \in late
                 PROVE  FALSE
      OBVIOUS
    <3>1. CallOf(r).game # spin[r].game
      BY <2>1 DEF SpinsInv, LateOK, SpinAt
    <3> QED
      BY <3>1 DEF CallOf
  <2> QED
    BY <2>2, <2>3, <2>4 DEF PlacedAtMostOnce, calls
<1> QED
  BY <1>1, FlowInvariant, PTL

\* Every record of the wager history is the record of the one spin that its
\* validation was for.
THEOREM RecordsOfSpins == Spec => []RecordsAreSpins
<1>1. FlowInv => RecordsAreSpins
  <2> HAVE FlowInv
  <2>1. \A h \in history : \E v \in Given : IsRecordOf(h, v) /\ v.game \in games
    BY DEF FlowInv, SpinsInv, OnRecord, Known
  <2>2. ASSUME NEW h \in history, NEW k \in history, NEW u \in Given, NEW v \in Given,
               IsRecordOf(h, u), IsRecordOf(k, v), u.game = v.game
        PROVE  h = k
    <3>1. u = v
      BY <2>2 DEF FlowInv, SpinsInv, Known
    <3> QED
      BY <2>2, <3>1 DEF FlowInv, NumbersInv, IsRecordOf
  <2> QED
    BY <2>1, <2>2 DEF RecordsAreSpins
<1> QED
  BY <1>1, FlowInvariant, PTL

\* Nor do the calls of the wager service, and what overlaps them, make a reset take
\* more than that: the engine's guarantee holds in the composition
\* (MongoBalanceRepository.update_balance, mongo_balance_repository.py:47).
THEOREM FlowResetsTakeOverlap == Spec => ResetTakesOnlyOverlap
BY FlowIsEngine, ResetsTakeOverlap

------------------------------------------------------------------------------
(***************************************************************************)
(* The books of one replica.  Its calls are served to the end before the   *)
(* next, so the document that placing found is the one it writes, whatever *)
(* claims and conversions overlap it.                                      *)
(***************************************************************************)

\* A document whose total is the sum of its balances, neither below zero, with a
\* bonus; and one that no wager has touched.
SoundDoc(d) == /\ d \in W!Doc /\ d.real >= 0 /\ d.bonus >= 0
               /\ d.total = d.real + d.bonus /\ d.active.kind = "whole"
Fresh(d) == SoundDoc(d) /\ d.lifetime = 0 /\ d.active.wagered = 0

\* The deduction t was computed from the balances of d, and takes no more than those.
Covers(t, d) == /\ t.bonusUsed \in 0 .. d.bonus /\ t.realUsed \in 0 .. d.real
                /\ t.bonusUsed + t.realUsed = t.amount
                /\ t.realBefore = d.real /\ t.bonusBefore = d.bonus

\* What each setter does to a document.
LEMMA FlowSetters ==
  ASSUME NEW d \in W!Doc, NEW x \in Int
  PROVE  /\ W!SetRealBalance(d, x) \in W!Doc /\ W!SetBonusBalance(d, x) \in W!Doc
         /\ W!SetRealBalance(d, x).real = x /\ W!SetRealBalance(d, x).bonus = d.bonus
         /\ W!SetRealBalance(d, x).total = x + d.bonus
         /\ W!SetBonusBalance(d, x).real = d.real /\ W!SetBonusBalance(d, x).bonus = x
         /\ W!SetBonusBalance(d, x).total = d.real + x
         /\ W!SetRealBalance(d, x).active = d.active
         /\ W!SetBonusBalance(d, x).active = d.active
         /\ W!SetRealBalance(d, x).lifetime = d.lifetime
         /\ W!SetBonusBalance(d, x).lifetime = d.lifetime
<1> DEFINE y == x + d.bonus
           z == d.real + x
<1>1. y \in Int /\ z \in Int /\ y = x + d.bonus /\ z = d.real + x
  BY DEF W!Doc
<1>2. W!SetRealBalance(d, x) = [d EXCEPT !.real = x, !.total = y]
  BY DEF W!SetRealBalance
<1>3. W!SetBonusBalance(d, x) = [d EXCEPT !.bonus = x, !.total = z]
  BY DEF W!SetBonusBalance
<1> HIDE DEF y, z
<1> QED
  BY <1>1, <1>2, <1>3 DEF W!Doc

\* setActiveBonus sets the bonus, and the bonus balance to its amount.
LEMMA FlowSetActive ==
  ASSUME NEW d \in W!Doc, NEW b \in W!Bonus
  PROVE  /\ W!SetActiveBonus(d, b) \in W!Doc /\ W!SetActiveBonus(d, b).active = b
         /\ W!SetActiveBonus(d, b).lifetime = d.lifetime
         /\ W!SetActiveBonus(d, b).real = d.real
         /\ W!SetActiveBonus(d, b).bonus = WelcomeBonus
<1> DEFINE e == W!SetBonusBalance(d, WelcomeBonus)
<1>1. e \in W!Doc /\ e.lifetime = d.lifetime /\ e.real = d.real /\ e.bonus = WelcomeBonus
  BY AmountsOfFlow, FlowSetters
<1>2. W!SetActiveBonus(d, b) = [e EXCEPT !.active = b]
  BY DEF W!SetActiveBonus
<1> HIDE DEF e
<1> QED
  BY <1>1, <1>2 DEF W!Doc

\* What is built at first sight, by a claim or by any other request, is fresh.
LEMMA FirstSight ==
  ASSUME NEW moment \in Nat
  PROVE  Fresh(W!AutoCreated(moment)) /\ Fresh(W!Claimed(W!NewUser, moment))
<1> DEFINE b == W!NewBonus(moment)
           n == W!NewUser
<1>1. b \in W!Bonus /\ b.kind = "whole" /\ b.wagered = 0
  BY DEF W!NewBonus, W!Bonus
<1>2. n \in W!Doc /\ n.lifetime = 0 /\ n.real = 0
  BY DEF W!NewUser, W!NoBonus, W!Bonus, W!Doc
<1>a. /\ StartBalance \in Int /\ StartBalance >= 0
      /\ WelcomeBonus \in Int /\ WelcomeBonus >= 0 /\ WelcomeBonus + WelcomeBonus \in Int
      /\ WelcomeBonus + WelcomeBonus >= 0
  BY AmountsOfFlow
<1>3. ASSUME NEW g \in W!Doc, NEW d, d = [g EXCEPT !.claimed = @ + 1],
             g.lifetime = 0, g.active = b, g.real >= 0, g.bonus >= 0,
             g.total = g.real + g.bonus
      PROVE  Fresh(d)
  <2> HIDE DEF b
  <2>1. /\ d.real = g.real /\ d.bonus = g.bonus /\ d.total = g.total /\ d.active = b
        /\ d.lifetime = 0 /\ d \in W!Doc
    BY <1>3 DEF W!Doc
  <2> QED
    BY <1>1, <1>3, <2>1 DEF Fresh, SoundDoc
<1>4. Fresh(W!AutoCreated(moment))
  <2> DEFINE d1 == W!SetRealBalance(n, StartBalance)
             d2 == W!SetActiveBonus(d1, b)
             d3 == W!SetBonusBalance(d2, WelcomeBonus)
             d == W!AutoCreated(moment)
  <2>1. d1 \in W!Doc /\ d1.lifetime = 0 /\ d1.real = StartBalance
    BY <1>2, <1>a, FlowSetters
  <2>2. d = [d3 EXCEPT !.claimed = @ + 1]
    BY DEF W!AutoCreated
  <2> HIDE DEF n, b, d1
  <2>3. d2 \in W!Doc /\ d2.lifetime = 0 /\ d2.real = StartBalance /\ d2.active = b
    BY <1>1, <2>1, FlowSetActive
  <2> HIDE DEF d2
  <2>4. /\ d3 \in W!Doc /\ d3.lifetime = 0 /\ d3.active = b /\ d3.real = StartBalance
        /\ d3.bonus = WelcomeBonus /\ d3.total = StartBalance + WelcomeBonus
    BY <1>a, <2>3, FlowSetters
  <2> HIDE DEF d3, d
  <2>5. Fresh(d)
    BY <1>3, <1>a, <2>2, <2>4
  <2> QED
    BY <2>5 DEF d
<1>5. Fresh(W!Claimed(n, moment))
  <2> DEFINE e == W!SetActiveBonus(n, b)
             x == e.bonus + WelcomeBonus
             g == W!SetBonusBalance(e, x)
             d == W!Claimed(n, moment)
  <2>1. d = [g EXCEPT !.claimed = @ + 1]
    BY DEF W!Claimed
  <2> HIDE DEF n, b
  <2>2. e \in W!Doc /\ e.lifetime = 0 /\ e.real = 0 /\ e.active = b /\ e.bonus = WelcomeBonus
    BY <1>1, <1>2, FlowSetActive
  <2> HIDE DEF e
  <2>3. x = WelcomeBonus + WelcomeBonus /\ x \in Int /\ x >= 0
    BY <1>a, <2>2
  <2> HIDE DEF x
  <2>4. /\ g \in W!Doc /\ g.lifetime = e.lifetime /\ g.active = e.active /\ g.real = e.real
        /\ g.bonus = x /\ g.total = e.real + x
    BY <2>2, <2>3, FlowSetters
  <2> HIDE DEF g, d
  <2>5. g.real >= 0 /\ g.bonus >= 0 /\ g.total = g.real + g.bonus
    BY <2>2, <2>3, <2>4
  <2>6. Fresh(d)
    BY <1>3, <2>1, <2>2, <2>4, <2>5
  <2> QED
    BY <2>6 DEF d
<1> QED
  BY <1>4, <1>5

\* A stake that can be wagered is split over the balances that cover it.
LEMMA StakeCovered ==
  ASSUME NEW d, SoundDoc(d), NEW amount \in Nat, W!CanWager(d, amount)
  PROVE  /\ W!BonusUsed(d, amount) \in 0 .. d.bonus /\ W!RealUsed(d, amount) \in 0 .. d.real
         /\ W!BonusUsed(d, amount) + W!RealUsed(d, amount) = amount
BY DEF SoundDoc, W!Doc, W!BonusUsed, W!RealUsed, W!CanWager

\* Placing a wager moves the stake and the payout, and keeps the document sound.
LEMMA FlowPlaced ==
  ASSUME NEW d, SoundDoc(d), NEW t, Covers(t, d), t.amount \in Nat, NEW payout \in Nat
  PROVE  /\ SoundDoc(W!Placed(d, t, payout))
         /\ W!Placed(d, t, payout).real = d.real - t.realUsed + payout
         /\ W!Placed(d, t, payout).bonus = d.bonus - t.bonusUsed
         /\ W!Placed(d, t, payout).lifetime = d.lifetime + t.amount
         /\ W!Placed(d, t, payout).active.id = d.active.id
<1>1. /\ d \in W!Doc /\ d.active.kind = "whole" /\ d.active \in W!Bonus
      /\ d.real \in Int /\ d.bonus \in Int /\ d.lifetime \in Nat
      /\ t.bonusUsed \in Int /\ t.realUsed \in Int
  BY DEF SoundDoc, W!Doc, Covers
<1>2. PICK x \in Int : x = d.bonus - t.bonusUsed
  BY <1>1
<1>3. PICK y \in Int : y = d.real - t.realUsed + payout
  BY <1>1
<1>4. x >= 0 /\ y >= 0
  BY <1>1, <1>2, <1>3 DEF Covers, SoundDoc
<1> DEFINE e == W!SetBonusBalance(d, x)
           g == W!SetRealBalance(e, y)
           c == W!Placed(d, t, payout)
           b == W!AddWageringProgress(d.active, t.amount)
<1>5. /\ e \in W!Doc /\ e.real = d.real /\ e.bonus = x /\ e.active = d.active
      /\ e.lifetime = d.lifetime
  BY <1>1, <1>2, FlowSetters
<1>6. c = [g EXCEPT !.lifetime = @ + t.amount,
                    !.active = IF @.kind = "none" THEN @
                               ELSE W!AddWageringProgress(@, t.amount)]
  BY <1>2, <1>3, <1>5 DEF W!Placed
<1> HIDE DEF e
<1>7. /\ g \in W!Doc /\ g.real = y /\ g.bonus = x /\ g.total = y + x /\ g.active = d.active
      /\ g.lifetime = d.lifetime
  BY <1>3, <1>5, FlowSetters
<1>8. b \in W!Bonus /\ b.kind = "whole" /\ b.id = d.active.id
  <2> DEFINE z == d.active.wagered + t.amount
             s == IF z >= W!Required THEN "completed" ELSE d.active.status
  <2>1. z \in Nat /\ s \in {"active", "completed"}
    BY <1>1 DEF W!Bonus
  <2>2. b = [d.active EXCEPT !.wagered = z, !.status = s]
    BY DEF W!AddWageringProgress
  <2> HIDE DEF z, s, b
  <2> QED
    BY <1>1, <2>1, <2>2 DEF W!Bonus
<1> HIDE DEF g, c
<1>9. c = [g EXCEPT !.lifetime = d.lifetime + t.amount, !.active = b]
  BY <1>1, <1>6, <1>7
<1> HIDE DEF b
<1>10. d.lifetime + t.amount \in Nat
  BY <1>1
<1>11. /\ c \in W!Doc /\ c.real = y /\ c.bonus = x /\ c.total = y + x
       /\ c.lifetime = d.lifetime + t.amount /\ c.active = b
  BY <1>7, <1>8, <1>9, <1>10 DEF W!Doc
<1>12. SoundDoc(c)
  BY <1>4, <1>8, <1>11 DEF SoundDoc
<1> QED
  BY <1>2, <1>3, <1>8, <1>11, <1>12 DEF c

\* A flush of a document that is still the one in the database writes it as it is.
LEMMA FlowFlush ==
  ASSUME NEW d, SoundDoc(d), NEW e, SoundDoc(e), e.active.id = d.active.id
  PROVE  W!Flushed(d, d, e) = e
<1> DEFINE b == W!FlushedBonus(d.active, d.active, e.active)
<1>1. /\ d.active \in W!Bonus /\ e.active \in W!Bonus
      /\ d.active.kind = "whole" /\ e.active.kind = "whole" /\ e \in W!Doc
  BY DEF SoundDoc, W!Doc
<1>2. b = e.active
  BY <1>1 DEF W!FlushedBonus, W!Changed, W!Bonus
<1> HIDE DEF b
<1>3. W!Flushed(d, d, e) =
        [real |-> e.real, bonus |-> e.bonus, total |-> e.total,
         claimed |-> e.claimed, completed |-> e.completed,
         lifetime |-> e.lifetime, version |-> e.version, active |-> e.active]
  BY <1>2 DEF W!Flushed, W!Changed, b
<1> QED
  BY <1>1, <1>3 DEF W!Doc

------------------------------------------------------------------------------
\* The stakes and the results of a sequence of validations are integers.
LEMMA SumsType ==
  ASSUME TypeInv, Known, NEW s \in Seq(Given)
  PROVE  /\ Stakes(s) \in Seq(Int) /\ Len(Stakes(s)) = Len(s) /\ Sum(Stakes(s)) \in Int
         /\ Results(s) \in Seq(Int) /\ Len(Results(s)) = Len(s) /\ Sum(Results(s)) \in Int
<1>1. \A v \in Given : v.game.bet \in Int /\ Net(v.game) \in Int
  BY NetType, EngineAssumption DEF TypeInv, Known, Sound
<1>2. /\ Stakes(s) \in Seq(Int) /\ Len(Stakes(s)) = Len(s)
      /\ Results(s) \in Seq(Int) /\ Len(Results(s)) = Len(s)
  BY <1>1 DEF Stakes, Results
<1> QED
  BY <1>2, SumsSteps

\* One more validation adds its stake and its result.
LEMMA SumsOneMore ==
  ASSUME TypeInv, Known, NEW u, u.game \in games
  PROVE  /\ Sum(Stakes(Append(validated, u))) = Sum(Stakes(validated)) + u.game.bet
         /\ Sum(Results(Append(validated, u))) = Sum(Results(validated)) + Net(u.game)
<1> DEFINE s == validated
           t == Append(s, u)
<1>1. u.game.bet \in Int /\ Net(u.game) \in Int
  <2>1. Sound(u.game)
    BY DEF TypeInv
  <2>2. u.game.bet \in Nat
    BY <2>1, AmountsOfFlow DEF AmountsOfFlow, Sound
  <2>3. Net(u.game) \in Int
    BY <2>1, NetType
  <2> QED
    BY <2>2, <2>3
<1>2. /\ s \in Seq(Given) /\ Len(s) \in Nat
      /\ Stakes(s) \in Seq(Int) /\ Len(Stakes(s)) = Len(s)
      /\ Results(s) \in Seq(Int) /\ Len(Results(s)) = Len(s)
  BY SumsType DEF Known
<1>3. /\ DOMAIN t = 1 .. Len(s) + 1 /\ t[Len(s) + 1] = u
      /\ \A i \in 1 .. Len(s) : t[i] = s[i] /\ i \in DOMAIN s
  BY <1>2
<1> HIDE DEF s, t
<1>4. Stakes(t) = Append(Stakes(s), u.game.bet)
  <2>1. /\ Append(Stakes(s), u.game.bet) \in Seq(Int)
        /\ DOMAIN Append(Stakes(s), u.game.bet) = 1 .. Len(s) + 1
        /\ Append(Stakes(s), u.game.bet)[Len(s) + 1] = u.game.bet
        /\ \A i \in 1 .. Len(s) : Append(Stakes(s), u.game.bet)[i] = Stakes(s)[i]
    BY <1>1, <1>2
  <2>2. \A i \in 1 .. Len(s) + 1 : Append(Stakes(s), u.game.bet)[i] = t[i].game.bet
    BY <1>2, <1>3, <2>1 DEF Stakes
  <2> QED
    BY <1>3, <2>1, <2>2 DEF Stakes
<1>5. Results(t) = Append(Results(s), Net(u.game))
  <2>1. /\ Append(Results(s), Net(u.game)) \in Seq(Int)
        /\ DOMAIN Append(Results(s), Net(u.game)) = 1 .. Len(s) + 1
        /\ Append(Results(s), Net(u.game))[Len(s) + 1] = Net(u.game)
        /\ \A i \in 1 .. Len(s) : Append(Results(s), Net(u.game))[i] = Results(s)[i]
    BY <1>1, <1>2
  <2>2. \A i \in 1 .. Len(s) + 1 : Append(Results(s), Net(u.game))[i] = Net(t[i].game)
    BY <1>2, <1>3, <2>1 DEF Results
  <2> QED
    BY <1>3, <2>1, <2>2 DEF Results
<1>6. /\ Sum(Stakes(t)) = Sum(Stakes(s)) + u.game.bet
      /\ Sum(Results(t)) = Sum(Results(s)) + Net(u.game)
  BY <1>1, <1>2, <1>4, <1>5, SumAppend
<1> QED
  BY <1>6 DEF s, t

\* Nothing validated sums to nothing.
LEMMA NothingGiven == Sum(Stakes(<<>>)) = 0 /\ Sum(Results(<<>>)) = 0
<1>1. Stakes(<<>>) = <<>> /\ Results(<<>>) = <<>>
  BY DEF Stakes, Results
<1> QED
  BY <1>1, SumEmpty

------------------------------------------------------------------------------
\* The other workers keep to what they have.
Others(w) == \A v \in Workers : v # w => req'[v] = req[v]

\* A request that begins.
LEMMA Begun ==
  ASSUME NumbersInv, NEW w \in Workers, NEW step, NEW doc, NEW amount, NEW id,
         NEW x \in {[W!Idle EXCEPT !.at = step, !.doc = doc],
                    [W!Idle EXCEPT !.at = step, !.doc = doc, !.id = id],
                    [W!Idle EXCEPT !.at = step, !.doc = doc, !.amount = amount]},
         req' = [req EXCEPT ![w] = x]
  PROVE  /\ Others(w) /\ req'[w].at = step /\ req'[w].doc = doc
         /\ x = [W!Idle EXCEPT !.at = step, !.doc = doc, !.amount = amount]
              => req'[w].amount = amount
<1>1. req'[w] = x /\ Others(w)
  BY DEF NumbersInv, Others
<1>2. x.at = step /\ x.doc = doc
  BY DEF W!Idle
<1>3. [W!Idle EXCEPT !.at = step, !.doc = doc, !.amount = amount].amount = amount
  BY DEF W!Idle
<1> QED
  BY <1>1, <1>2, <1>3

\* A request that goes on, and one that ends.
LEMMA Moved ==
  ASSUME NumbersInv, NEW w \in Workers, NEW step, W!Goto(w, step)
  PROVE  /\ Others(w) /\ req'[w].at = step
         /\ req'[w].doc = req[w].doc /\ req'[w].amount = req[w].amount
         /\ req'[w].ticket = req[w].ticket /\ req'[w].payout = req[w].payout
<1> DEFINE y == req[w]
           x == [y EXCEPT !.at = step]
<1>1. req'[w] = x /\ Others(w)
  BY DEF NumbersInv, Others, W!Goto
<1>2. Whole(y)
  BY DEF NumbersInv
<1> HIDE DEF y
<1>3. x = [at |-> step, doc |-> y.doc, amount |-> y.amount, ticket |-> y.ticket,
           payout |-> y.payout, id |-> y.id]
  BY <1>2 DEF Whole
<1> HIDE DEF x
<1>4. /\ x.at = step /\ x.doc = y.doc /\ x.amount = y.amount
      /\ x.ticket = y.ticket /\ x.payout = y.payout
  BY <1>3
<1> QED
  BY <1>1, <1>4 DEF y

\* One that ends gives up its operation.
LEMMA Finished ==
  ASSUME NumbersInv, NEW w \in Workers, W!Finish(w)
  PROVE  Others(w) /\ req'[w] = W!Idle /\ req'[w].at = "idle"
BY IdleWhole DEF NumbersInv, Others, W!Finish

\* How a validation begins.
LEMMA ValidateBegun ==
  ASSUME NumbersInv, NEW w \in Workers, NEW amount, W!ValidateFind(w, amount)
  PROVE  /\ Others(w) /\ req'[w].amount = amount
         /\ \/ /\ db = NoDoc /\ req'[w].at = "validate.create"
               /\ req'[w].doc = W!AutoCreated(second)
            \/ /\ db # NoDoc /\ W!CanWager(db, amount)
               /\ req'[w].at = "validate.lock" /\ req'[w].doc = db
         /\ UNCHANGED <<db, history, second, gen, credited, issued>>
<1>1. UNCHANGED <<db, history, second, gen, credited, issued>>
  BY DEF W!ValidateFind, W!ghosts
<1>2. CASE db = NoDoc
  <2>1. req' = [req EXCEPT ![w] = [W!Idle EXCEPT !.at = "validate.create",
                                     !.doc = W!AutoCreated(second), !.amount = amount]]
    BY <1>2 DEF W!ValidateFind
  <2> QED
    BY <1>1, <1>2, <2>1, Begun
<1>3. CASE db # NoDoc
  <2>1. /\ req' = [req EXCEPT ![w] = [W!Idle EXCEPT !.at = "validate.lock",
                                        !.doc = db, !.amount = amount]]
        /\ W!CanWager(db, amount)
    BY <1>3 DEF W!ValidateFind
  <2> QED
    BY <1>1, <1>3, <2>1, Begun
<1> QED
  BY <1>2, <1>3

\* How placing a wager begins.
LEMMA PlaceBegun ==
  ASSUME NumbersInv, NEW w \in Workers, NEW t, NEW payout, W!PlaceFind(w, t, payout)
  PROVE  /\ Others(w) /\ req'[w].at = "place.insert" /\ req'[w].doc = db
         /\ req'[w].ticket = t /\ req'[w].payout = payout
         /\ UNCHANGED <<db, history, second, gen, credited, issued>>
<1> DEFINE x == [W!Idle EXCEPT !.at = "place.insert", !.doc = db, !.ticket = t,
                               !.payout = payout]
<1>1. req' = [req EXCEPT ![w] = x] /\ UNCHANGED <<db, history, second, gen, credited, issued>>
  BY DEF W!PlaceFind, W!ghosts
<1>2. x.at = "place.insert" /\ x.doc = db /\ x.ticket = t /\ x.payout = payout
  BY DEF W!Idle
<1> HIDE DEF x
<1>3. req'[w] = x /\ Others(w)
  BY <1>1 DEF NumbersInv, Others
<1> QED
  BY <1>1, <1>2, <1>3

\* What an operation on a wager does, when requests do not fail.
LEMMA WorkMoves ==
  ASSUME NumbersInv, ~Failures, NEW w \in Workers, Work(w)
  PROVE  /\ Others(w) /\ second' = second
         /\ \/ /\ req[w].at = "validate.create" /\ W!Upsert(req[w].doc)
               /\ UNCHANGED <<history, issued>>
               /\ \/ req'[w] = W!Idle
                  \/ /\ req'[w].at = "validate.lock" /\ req'[w].doc = req[w].doc
                     /\ req'[w].amount = req[w].amount
                     /\ W!CanWager(req[w].doc, req[w].amount)
            \/ W!ValidateLock(w) /\ req[w].at = "validate.lock" /\ req'[w] = W!Idle
            \/ /\ req[w].at = "validate.lock" /\ req'[w] = W!Idle
               /\ UNCHANGED <<db, history, gen, credited, issued>>
            \/ /\ W!PlaceInsert(w) /\ req[w].at = "place.insert" /\ req'[w].at = "place.update"
               /\ req'[w].doc = req[w].doc /\ req'[w].ticket = req[w].ticket
               /\ req'[w].payout = req[w].payout
            \/ W!PlaceUpdate(w) /\ req[w].at = "place.update" /\ req'[w] = W!Idle
<1>1. CASE W!ValidateCreate(w)
  <2>1. /\ req[w].at = "validate.create" /\ W!Upsert(req[w].doc)
        /\ UNCHANGED <<history, issued, second>>
    BY <1>1 DEF W!ValidateCreate, W!At
  <2>2. CASE W!CanWager(req[w].doc, req[w].amount)
    <3>1. W!Goto(w, "validate.lock")
      BY <1>1, <2>2 DEF W!ValidateCreate
    <3> QED
      BY <2>1, <2>2, <3>1, Moved
  <2>3. CASE ~W!CanWager(req[w].doc, req[w].amount)
    <3>1. W!Finish(w)
      BY <1>1, <2>3 DEF W!ValidateCreate
    <3> QED
      BY <2>1, <3>1, Finished
  <2> QED
    BY <2>2, <2>3
<1>2. CASE W!ValidateLock(w)
  <2>1. W!Finish(w) /\ req[w].at = "validate.lock" /\ second' = second
    BY <1>2 DEF W!ValidateLock, W!At
  <2> QED
    BY <1>2, <2>1, Finished
<1>3. CASE W!ValidateLockLost(w)
  <2>1. /\ W!Finish(w) /\ req[w].at = "validate.lock"
        /\ UNCHANGED <<db, history, gen, credited, issued, second>>
    BY <1>3 DEF W!ValidateLockLost, W!At, W!ghosts
  <2> QED
    BY <2>1, Finished
<1>4. CASE W!PlaceInsert(w)
  <2>1. W!Goto(w, "place.update") /\ req[w].at = "place.insert" /\ second' = second
    BY <1>4 DEF W!PlaceInsert, W!At
  <2> QED
    BY <1>4, <2>1, Moved
<1>5. CASE W!PlaceUpdate(w)
  <2>1. W!Finish(w) /\ req[w].at = "place.update" /\ second' = second
    BY <1>5 DEF W!PlaceUpdate, W!At
  <2> QED
    BY <1>5, <2>1, Finished
<1> QED
  BY <1>1, <1>2, <1>3, <1>4, <1>5 DEF Work, W!RequestFails

\* What claims, progress and conversion requests do.
Building(w) == /\ req'[w].at \in {"claim.create", "progress.create"}
               /\ req'[w].doc \in {W!Claimed(W!NewUser, second), W!AutoCreated(second)}
               /\ db = NoDoc /\ UNCHANGED <<db, gen, credited>>
Creation(w) == /\ req[w].at \in {"claim.create", "progress.create"}
               /\ W!Upsert(req[w].doc) /\ req'[w].at = "idle"
Asking(w) == /\ req'[w].at = "convert.stats" /\ req'[w].doc = db
             /\ W!Convertible(db) /\ db # NoDoc /\ UNCHANGED <<db, gen, credited>>
Counting(w) == /\ req[w].at = "convert.stats" /\ UNCHANGED <<db, gen, credited>>
               /\ \/ req'[w].at = "idle"
                  \/ /\ req'[w].at = "convert.insert"
                     /\ \A h \in history : h.bonusId # req[w].doc.active.id
Reclaiming(w) == /\ req'[w].at = "claim.update" /\ db # NoDoc /\ db.active.kind = "none"
                 /\ UNCHANGED <<db, gen, credited>>
Changing(w) == /\ req[w].at \in {"claim.update", "convert.insert", "convert.update"}
               /\ req'[w].at \in {"idle", "convert.update"} /\ gen' = gen

\* A request that is no wager's leaves the replicas and the wagers of others alone, and
\* moves in one of these ways when requests do not fail.
LEMMA OtherMoves ==
  ASSUME NumbersInv, NEW w \in Workers, OtherRequest(w)
  PROVE  /\ Others(w) /\ req[w].at \notin ValidateSteps \cup PlaceSteps
         /\ UNCHANGED <<history, second, issued>>
         /\ \/ Building(w) \/ Creation(w) \/ Asking(w) \/ Counting(w)
            \/ Reclaiming(w) \/ Changing(w)
<1>0. req[w].at \notin ValidateSteps \cup PlaceSteps /\ UNCHANGED <<history, issued>>
  BY Elsewhere
<1>1. CASE W!ClaimFind(w)
  <2>1. UNCHANGED <<db, gen, credited, second>>
    BY <1>1 DEF W!ClaimFind, W!ghosts
  <2>2. CASE db = NoDoc
    <3>1. req' = [req EXCEPT ![w] = [W!Idle EXCEPT !.at = "claim.create",
                                       !.doc = W!Claimed(W!NewUser, second)]]
      BY <1>1, <2>2 DEF W!ClaimFind
    <3>2. /\ Others(w) /\ req'[w].at = "claim.create"
          /\ req'[w].doc = W!Claimed(W!NewUser, second)
      BY <3>1, Begun
    <3> QED
      BY <1>0, <2>1, <2>2, <3>2 DEF Building
  <2>3. CASE db # NoDoc
    <3>1. /\ req' = [req EXCEPT ![w] = [W!Idle EXCEPT !.at = "claim.update",
                                          !.doc = db, !.id = second]]
          /\ db.active.kind = "none"
      BY <1>1, <2>3 DEF W!ClaimFind
    <3>2. Others(w) /\ req'[w].at = "claim.update"
      BY <3>1, Begun
    <3> QED
      BY <1>0, <2>1, <2>3, <3>1, <3>2 DEF Reclaiming
  <2> QED
    BY <2>2, <2>3
<1>2. CASE W!ClaimCreate(w) \/ W!ProgressCreate(w)
  <2>1. /\ W!Finish(w) /\ W!Upsert(req[w].doc) /\ second' = second
        /\ req[w].at \in {"claim.create", "progress.create"}
    BY <1>2 DEF W!ClaimCreate, W!ProgressCreate, W!At
  <2> QED
    BY <1>0, <2>1, Finished DEF Creation
<1>3. CASE W!ProgressFind(w)
  <2>1. /\ req' = [req EXCEPT ![w] = [W!Idle EXCEPT !.at = "progress.create",
                                        !.doc = W!AutoCreated(second)]]
        /\ db = NoDoc /\ UNCHANGED <<db, gen, credited, second>>
    BY <1>3 DEF W!ProgressFind, W!ghosts
  <2>2. /\ Others(w) /\ req'[w].at = "progress.create"
        /\ req'[w].doc = W!AutoCreated(second)
    BY <2>1, Begun
  <2> QED
    BY <1>0, <2>1, <2>2 DEF Building
<1>4. CASE W!ConvertFind(w)
  <2>1. /\ req' = [req EXCEPT ![w] = [W!Idle EXCEPT !.at = "convert.stats", !.doc = db]]
        /\ W!Convertible(db) /\ db # NoDoc /\ UNCHANGED <<db, gen, credited, second>>
    BY <1>4 DEF W!ConvertFind, W!ghosts
  <2>2. Others(w) /\ req'[w].at = "convert.stats" /\ req'[w].doc = db
    BY <2>1, Begun
  <2> QED
    BY <1>0, <2>1, <2>2 DEF Asking
<1>5. CASE W!ConvertStats(w)
  <2>1. req[w].at = "convert.stats" /\ UNCHANGED <<db, gen, credited, second>>
    BY <1>5 DEF W!ConvertStats, W!At, W!ghosts
  <2>2. CASE W!WagersOf(req[w].doc.active.id) = {}
    <3>1. W!Goto(w, "convert.insert")
      BY <1>5, <2>2 DEF W!ConvertStats
    <3>2. Others(w) /\ req'[w].at = "convert.insert"
      BY <3>1, Moved
    <3>3. \A h \in history : h.bonusId # req[w].doc.active.id
      BY <2>2 DEF W!WagersOf
    <3> QED
      BY <1>0, <2>1, <3>2, <3>3 DEF Counting
  <2>3. CASE W!WagersOf(req[w].doc.active.id) # {}
    <3>1. W!Finish(w)
      BY <1>5, <2>3 DEF W!ConvertStats
    <3> QED
      BY <1>0, <2>1, <3>1, Finished DEF Counting
  <2> QED
    BY <2>2, <2>3
<1>6. CASE W!ConvertInsert(w)
  <2>1. /\ W!Goto(w, "convert.update") /\ req[w].at = "convert.insert"
        /\ UNCHANGED <<gen, second>>
    BY <1>6 DEF W!ConvertInsert, W!At, W!ghosts
  <2>2. Others(w) /\ req'[w].at = "convert.update"
    BY <2>1, Moved
  <2> QED
    BY <1>0, <2>1, <2>2 DEF Changing
<1>7. CASE W!ClaimUpdate(w) \/ W!ConvertUpdate(w)
  <2>1. /\ W!Finish(w) /\ req[w].at \in {"claim.update", "convert.update"}
        /\ UNCHANGED <<gen, second>>
    BY <1>7 DEF W!ClaimUpdate, W!ConvertUpdate, W!At
  <2> QED
    BY <1>0, <2>1, Finished DEF Changing
<1> QED
  BY <1>1, <1>2, <1>3, <1>4, <1>5, <1>6, <1>7 DEF OtherRequest

------------------------------------------------------------------------------
\* One replica, whose calls neither time out nor fail: only its workers serve a
\* wager, and they place what its spin is to be placed with.
OneCaller(r) ==
  /\ late = {}
  /\ \A w \in Workers : req[w].at \in ValidateSteps \cup PlaceSteps => call[r] = w
  /\ SpinAt(r, "place") /\ call[r] # NoWorker =>
       /\ req[call[r]].ticket.amount = spin[r].game.bet
       /\ req[call[r]].payout = spin[r].game.payout

\* A worker's next operation on a wager either goes on, or ends the call of the
\* replica.
LEMMA Answers ==
  ASSUME NumbersInv, ~Failures, NEW r, Replicas = {r}, OneCaller(r), CallsInv,
         NEW w \in Workers, WorkerStep(w)
  PROVE  /\ call[r] = w
         /\ \/ req'[w] # W!Idle /\ UNCHANGED <<games, spin, call, data, validated, late>>
            \/ /\ req'[w] = W!Idle /\ call'[r] = NoWorker /\ late' = late
               /\ GrantReply(r) \/ RefusalReply(r) \/ PlaceReply(r)
<1>1. Work(w) /\ late' = late /\ (GoesOn(w) \/ Replies(r, w))
  BY DEF WorkerStep
<1>2. req[w].at \in ValidateSteps \cup PlaceSteps
  BY <1>1, WorkMoves DEF ValidateSteps, PlaceSteps
<1>3. call[r] = w
  BY <1>2 DEF OneCaller
<1>4. CASE GoesOn(w)
  BY <1>1, <1>3, <1>4 DEF GoesOn, Callers, engineVars, store
<1>5. CASE Replies(r, w)
  BY <1>1, <1>3, <1>5 DEF Replies, HangUp, CallsInv
<1> QED
  BY <1>1, <1>3, <1>4, <1>5

\* Nobody calls at the start.
LEMMA OneCallerInit ==
  ASSUME NEW r, Replicas = {r}, Init
  PROVE  OneCaller(r)
<1>1. /\ late = {} /\ call[r] = NoWorker
      /\ \A w \in Workers : req[w] = W!Idle
  BY DEF Init, W!Init
<1> QED
  BY <1>1, IdleWhole DEF OneCaller, ValidateSteps, PlaceSteps

\* No step lets a second worker serve a wager.
LEMMA OneCallerNext ==
  ASSUME NEW r, Replicas = {r}, ~Timeouts, ~Failures, FlowInv, OneCaller(r), [Next]_vars
  PROVE  OneCaller(r)'
<1>a. TypeInv /\ HeldInv /\ NumbersInv /\ CallsInv /\ SpinsInv
  BY DEF FlowInv, BalanceInv
<1>b. NoWorker \notin Workers /\ r \in Replicas
  BY FlowAssumption
\* a step that leaves the workers on wagers, and the call, alone
<1>c. ASSUME late' = late, call'[r] = call[r],
             \A w \in Workers : \/ req'[w] = req[w]
                                \/ /\ req'[w].at \notin ValidateSteps \cup PlaceSteps
                                   /\ call[r] # w,
             SpinAt(r, "place")' => spin'[r] = spin[r]
      PROVE  OneCaller(r)'
  <2>1. \A w \in Workers : req'[w].at \in ValidateSteps \cup PlaceSteps => call'[r] = w
    BY <1>c DEF OneCaller
  <2>2. call[r] # NoWorker => call[r] \in Workers
    BY <1>a, <1>b DEF CallsInv
  <2>3. ASSUME SpinAt(r, "place")', call'[r] # NoWorker
        PROVE  /\ req'[call'[r]].ticket.amount = spin'[r].game.bet
               /\ req'[call'[r]].payout = spin'[r].game.payout
    <3>1. /\ call[r] \in Workers /\ req'[call[r]] = req[call[r]]
          /\ spin'[r] = spin[r] /\ SpinAt(r, "place")
      BY <1>c, <2>2, <2>3 DEF SpinAt
    <3> QED
      BY <1>c, <2>3, <3>1 DEF OneCaller
  <2> QED
    BY <1>c, <2>1, <2>3 DEF OneCaller
<1>1. CASE EngineStep(r)
  <2>1. UNCHANGED <<req, call, data, late>>
    BY <1>1, <1>a, <1>b, OwnSteps DEF wagerVars
  <2>2. SpinAt(r, "place")' => spin'[r] = spin[r]
    BY <1>1, <1>a, <1>b, OwnSteps
  <2> QED
    BY <1>c, <2>1, <2>2
<1>2. ASSUME CallTimesOut(r) \/ EngineFails(r) PROVE OneCaller(r)'
  BY <1>2 DEF CallTimesOut, EngineFails, SpinFails
<1>3. ASSUME NEW w \in Workers, CallValidate(r, w) PROVE OneCaller(r)'
  <2>1. /\ SpinAt(r, "validate") /\ call[r] = NoWorker /\ call'[r] = w /\ late' = late
        /\ W!ValidateFind(w, spin[r].game.bet) /\ spin' = spin
    BY <1>3, <1>a, <1>b DEF CallValidate, Waiting, engineVars, CallsInv
  <2>2. Others(w)
    BY <2>1, <1>a, ValidateBegun
  <2>3. \A v \in Workers : req'[v].at \in ValidateSteps \cup PlaceSteps => v = w
    BY <1>b, <2>1, <2>2 DEF OneCaller, Others
  <2> QED
    BY <2>1, <2>3 DEF OneCaller, SpinAt
<1>4. ASSUME NEW w \in Workers, CallPlace(r, w) PROVE OneCaller(r)'
  <2>1. /\ SpinAt(r, "place") /\ call[r] = NoWorker /\ call'[r] = w /\ late' = late
        /\ W!PlaceFind(w, data[r], spin[r].game.payout) /\ spin' = spin
    BY <1>4, <1>a, <1>b DEF CallPlace, Waiting, engineVars, CallsInv
  <2>2. Others(w) /\ req'[w].ticket = data[r] /\ req'[w].payout = spin[r].game.payout
    BY <2>1, <1>a, PlaceBegun
  <2>3. \A v \in Workers : req'[v].at \in ValidateSteps \cup PlaceSteps => v = w
    BY <1>b, <2>1, <2>2 DEF OneCaller, Others
  <2>4. data[r].amount = spin[r].game.bet
    BY <1>a, <1>b, <2>1 DEF SpinsInv, Holds, IsFor
  <2> QED
    BY <2>1, <2>2, <2>3, <2>4 DEF OneCaller, SpinAt
<1>5. ASSUME NEW w \in Workers, RefuseStake(r, w) \/ PlaceThrows(r, w) PROVE OneCaller(r)'
  <2>1. UNCHANGED <<req, call, late>> /\ ~SpinAt(r, "place")'
    BY <1>5, <1>a, <1>b, Ending DEF RefuseStake, PlaceThrows, wagerVars, SpinAt
  <2> QED
    BY <1>c, <2>1
<1>6. ASSUME NEW w \in Workers, WorkerStep(w) PROVE OneCaller(r)'
  <2>1. /\ call[r] = w
        /\ \/ req'[w] # W!Idle /\ UNCHANGED <<games, spin, call, data, validated, late>>
           \/ req'[w] = W!Idle /\ call'[r] = NoWorker /\ late' = late
    BY <1>6, <1>a, Answers
  <2>2. Work(w) /\ Others(w)
    BY <1>6, <1>a, WorkMoves DEF WorkerStep
  <2>3. \A v \in Workers : v # w => req'[v].at \notin ValidateSteps \cup PlaceSteps
    BY <2>1, <2>2 DEF OneCaller, Others
  <2>4. CASE req'[w] = W!Idle /\ call'[r] = NoWorker /\ late' = late
    <3>1. \A v \in Workers : req'[v].at \notin ValidateSteps \cup PlaceSteps
      BY <2>3, <2>4, IdleWhole DEF ValidateSteps, PlaceSteps
    <3> QED
      BY <2>4, <3>1 DEF OneCaller
  <2>5. CASE req'[w] # W!Idle /\ UNCHANGED <<games, spin, call, data, validated, late>>
    <3>1. ASSUME SpinAt(r, "place")
          PROVE  req'[w].ticket = req[w].ticket /\ req'[w].payout = req[w].payout
      <4>1. Serving(w)
        BY <1>a, <1>b, <2>1, <3>1 DEF CallsInv, CallOK, SpinAt
      <4> QED
        BY <1>a, <2>2, <2>5, <4>1, WorkMoves DEF Serving, PlaceSteps
    <3> QED
      BY <2>1, <2>3, <2>5, <3>1 DEF OneCaller, SpinAt
  <2> QED
    BY <2>1, <2>4, <2>5
<1>7. ASSUME NEW w \in Workers, OtherRequest(w) PROVE OneCaller(r)'
  <2>1. UNCHANGED <<call, late, spin>>
    BY <1>7 DEF OtherRequest, engineVars
  <2>2. /\ Others(w) /\ req[w].at \notin ValidateSteps \cup PlaceSteps
        /\ req'[w].at \notin ValidateSteps \cup PlaceSteps
    BY <1>7, <1>a, OtherMoves DEF Building, Creation, Asking, Counting, Reclaiming, Changing,
       ValidateSteps, PlaceSteps
  <2>3. call[r] # w
    BY <1>a, <1>b, <2>2 DEF CallsInv, CallOK, Serving
  <2> QED
    BY <1>c, <2>1, <2>2, <2>3 DEF Others
<1>8. ASSUME NEW w \in Workers, NEW l \in late, ServeLate(l, w) PROVE OneCaller(r)'
  BY DEF OneCaller
<1>9. CASE BrokerStep \/ Tick \/ UNCHANGED vars
  <2>1. UNCHANGED <<spin, call, late, req>>
    BY <1>9 DEF BrokerStep, BrokerDown, BrokerUp, BrokerCloses, Tick, W!Tick, vars,
                engineVars, wagerVars
  <2> QED
    BY <1>c, <2>1
<1> QED
  BY <1>1, <1>2, <1>3, <1>4, <1>5, <1>6, <1>7, <1>8, <1>9 DEF Next

------------------------------------------------------------------------------
\* Documents to be created are fresh, and creations are counted.
CreateSteps == {"validate.create", "claim.create", "progress.create"}

FirstDocs ==
  /\ gen \in Nat /\ second \in Nat
  /\ \A w \in Workers : req[w].at \in CreateSteps => Fresh(req[w].doc)

\* Nothing is about to be created at the start.
LEMMA FirstDocsInit == Init => FirstDocs
<1> SUFFICES ASSUME Init PROVE FirstDocs
  OBVIOUS
<1>1. gen = 0 /\ second = 1 /\ \A w \in Workers : req[w] = W!Idle
  BY DEF Init, W!Init
<1> QED
  BY <1>1, IdleWhole DEF FirstDocs, CreateSteps

\* Every step that is about to create a document holds one that no wager has touched.
LEMMA FirstDocsNext ==
  ASSUME NEW r, Replicas = {r}, ~Timeouts, ~Failures, FlowInv, OneCaller(r), FirstDocs,
         [Next]_vars
  PROVE  FirstDocs' /\ gen' \in {gen, gen + 1}
<1>a. NumbersInv
  BY DEF FlowInv
<1>b. second \in Nat /\ gen \in Nat
  BY DEF FirstDocs
\* a step that counts, and whose only new document to be created is fresh
<1>c. ASSUME gen' \in {gen, gen + 1}, second' \in {second, second + 1},
             \A w \in Workers : \/ req'[w] = req[w] \/ req'[w].at \notin CreateSteps
                                \/ Fresh(req'[w].doc)
      PROVE  FirstDocs' /\ gen' \in {gen, gen + 1}
  BY <1>b, <1>c DEF FirstDocs
<1>1. CASE EngineStep(r) \/ \E w \in Workers : RefuseStake(r, w) \/ PlaceThrows(r, w)
  <2>1. UNCHANGED <<gen, second, req>>
    BY <1>1 DEF EngineStep, RefuseStake, PlaceThrows, wagerVars
  <2> QED
    BY <1>c, <2>1
<1>2. ASSUME CallTimesOut(r) \/ EngineFails(r) PROVE FALSE
  BY <1>2 DEF CallTimesOut, EngineFails, SpinFails
<1>3. ASSUME NEW w \in Workers, CallValidate(r, w)
      PROVE  FirstDocs' /\ gen' \in {gen, gen + 1}
  <2>1. W!ValidateFind(w, spin[r].game.bet)
    BY <1>3 DEF CallValidate
  <2>2. /\ Others(w) /\ UNCHANGED <<gen, second>>
        /\ \/ req'[w].doc = W!AutoCreated(second)
           \/ req'[w].at = "validate.lock"
    BY <2>1, <1>a, ValidateBegun
  <2>3. req'[w].at \notin CreateSteps \/ Fresh(req'[w].doc)
    BY <2>2, <1>b, FirstSight DEF CreateSteps
  <2> QED
    BY <1>c, <2>2, <2>3 DEF Others
<1>4. ASSUME NEW w \in Workers, CallPlace(r, w)
      PROVE  FirstDocs' /\ gen' \in {gen, gen + 1}
  <2>1. W!PlaceFind(w, data[r], spin[r].game.payout)
    BY <1>4 DEF CallPlace
  <2>2. Others(w) /\ UNCHANGED <<gen, second>> /\ req'[w].at = "place.insert"
    BY <2>1, <1>a, PlaceBegun
  <2> QED
    BY <1>c, <2>2 DEF Others, CreateSteps
<1>5. ASSUME NEW w \in Workers, WorkerStep(w)
      PROVE  FirstDocs' /\ gen' \in {gen, gen + 1}
  <2>1. /\ Work(w) /\ Others(w) /\ second' = second
        /\ req'[w] = W!Idle \/ req'[w].at \in {"validate.lock", "place.update"}
    BY <1>5, <1>a, WorkMoves DEF WorkerStep
  <2>2. req'[w].at \notin CreateSteps
    BY <2>1, IdleWhole DEF CreateSteps
  <2>3. gen' \in {gen, gen + 1}
    BY <2>1 DEF Work, W!ValidateCreate, W!Upsert, W!ValidateLock, W!ValidateLockLost,
       W!PlaceInsert, W!PlaceUpdate, W!RequestFails, W!ghosts
  <2> QED
    BY <1>c, <2>1, <2>2, <2>3 DEF Others
<1>6. ASSUME NEW w \in Workers, OtherRequest(w)
      PROVE  FirstDocs' /\ gen' \in {gen, gen + 1}
  <2>1. /\ Others(w) /\ second' = second
        /\ \/ Building(w) \/ Creation(w) \/ Asking(w) \/ Counting(w)
           \/ Reclaiming(w) \/ Changing(w)
    BY <1>6, <1>a, OtherMoves
  <2>2. req'[w].at \notin CreateSteps \/ Fresh(req'[w].doc)
    BY <2>1, <1>b, FirstSight DEF CreateSteps, Building, Creation, Asking, Counting,
       Reclaiming, Changing
  <2>3. gen' \in {gen, gen + 1}
    BY <2>1 DEF Building, Creation, Asking, Counting, Reclaiming, Changing, W!Upsert
  <2> QED
    BY <1>c, <2>1, <2>2, <2>3 DEF Others
<1>7. ASSUME NEW w \in Workers, NEW l \in late, ServeLate(l, w) PROVE FALSE
  BY DEF OneCaller
<1>8. CASE BrokerStep \/ Tick \/ UNCHANGED vars
  <2>1. req' = req /\ gen' = gen /\ second' \in {second, second + 1}
    BY <1>8 DEF BrokerStep, Tick, W!Tick, W!ghosts, vars, wagerVars
  <2> QED
    BY <1>c, <2>1
<1> QED
  BY <1>1, <1>2, <1>3, <1>4, <1>5, <1>6, <1>7, <1>8 DEF Next

------------------------------------------------------------------------------
\* What the history shows of a bonus, and what a request may hold of a document as
\* long as the player was created once: no claim and no conversion gets anywhere, and
\* who locks or places has the document as it is.
Recorded(b) == \E h \in history : h.bonusId = b.id

Course(w) ==
  /\ req[w].at \notin {"claim.update", "convert.insert", "convert.update"}
  /\ req[w].at = "convert.stats" => Recorded(req[w].doc.active)
  /\ req[w].at = "validate.lock" \/ Serving(w) => gen # 0 /\ req[w].doc = db
  /\ req[w].at = "validate.lock" => W!CanWager(db, req[w].amount)
  /\ Serving(w) => Covers(req[w].ticket, db)
  /\ req[w].at = "place.update" => Recorded(db.active)

\* The books, but for the spin that is validated and not yet booked.
Books(r) ==
  IF SpinAt(r, "place")
  THEN /\ db.lifetime + spin[r].game.bet = Sum(Stakes(validated))
       /\ db.real + db.bonus + Net(spin[r].game) = credited + Sum(Results(validated))
  ELSE Booked

\* What the books of a created player's document say, with the replica's deduction.
Account(r) ==
  /\ SoundDoc(db) /\ credited \in Int
  /\ db.active.wagered > 0 => Recorded(db.active)
  /\ SpinAt(r, "place") /\ call[r] = NoWorker => Covers(data[r], db)
  /\ Books(r)

\* All that stays so until the player is created a second time.
Steady(r) ==
  /\ gen = 0 => db = NoDoc /\ validated = <<>> /\ credited = 0
  /\ gen = 1 => Account(r)
  /\ gen <= 1 => /\ \A w \in Workers : Course(w)
                 /\ \A h \in history : Coherent(h)

\* A player who was created has a document.
LEMMA Created ==
  ASSUME NEW r, Steady(r), FirstDocs, gen <= 1
  PROVE  (db = NoDoc) <=> (gen = 0)
<1>1. gen = 0 \/ gen = 1
  BY DEF FirstDocs
<1> QED
  BY <1>1, AmountsOfFlow DEF Steady, Account, SoundDoc

\* Before that nothing is validated, placed or recorded.
LEMMA Unstarted ==
  ASSUME NEW r, Replicas = {r}, FlowInv, Steady(r), gen = 0
  PROVE  history = {} /\ ~SpinAt(r, "place")
<1>1. Given = {}
  BY DEF Steady, Given, Range
<1>2. history = {}
  BY <1>1 DEF FlowInv, SpinsInv, OnRecord
<1>3. ASSUME SpinAt(r, "place") PROVE FALSE
  <2>1. CASE call[r] = NoWorker
    BY <1>1, <1>3, <2>1 DEF FlowInv, SpinsInv, Holds, IsFor
  <2>2. CASE call[r] # NoWorker
    <3>1. call[r] \in Workers /\ Serving(call[r])
      BY <1>3, <2>2 DEF FlowInv, CallsInv, CallOK, SpinAt
    <3> QED
      BY <1>1, <3>1 DEF FlowInv, SpinsInv, Served
  <2> QED
    BY <2>1, <2>2
<1> QED
  BY <1>2, <1>3

\* A step that leaves the document alone.
LEMMA SteadyKept ==
  ASSUME NEW r, Steady(r), gen <= 1, UNCHANGED <<gen, db, credited, validated>>,
         history \subseteq history', \A h \in history' : h \in history \/ Coherent(h),
         SpinAt(r, "place")' <=> SpinAt(r, "place"),
         SpinAt(r, "place") => spin'[r] = spin[r],
         SpinAt(r, "place") /\ call'[r] = NoWorker => call[r] = NoWorker /\ data'[r] = data[r],
         \A w \in Workers : req'[w] = req[w] \/ Course(w)'
  PROVE  Steady(r)'
<1>1. \A b : Recorded(b) => Recorded(b)'
  BY DEF Recorded
<1>2. ASSUME NEW w \in Workers PROVE Course(w)'
  BY <1>1 DEF Steady, Course, Serving
<1>3. ASSUME gen = 1 PROVE Account(r)'
  <2>1. Account(r)
    BY <1>3 DEF Steady
  <2>2. Books(r)'
    BY <2>1 DEF Account, Books, Booked
  <2>3. SpinAt(r, "place")' /\ call'[r] = NoWorker => Covers(data'[r], db')
    BY <2>1 DEF Account
  <2> QED
    BY <1>1, <2>1, <2>2, <2>3 DEF Account
<1>4. \A h \in history' : Coherent(h)
  BY DEF Steady
<1> QED
  BY <1>2, <1>3, <1>4 DEF Steady, Coherent

\* The first creation, whoever makes it.
LEMMA SteadyCreated ==
  ASSUME NEW r, Replicas = {r}, FlowInv, FirstDocs, Steady(r), gen <= 1, gen' <= 1,
         NEW w \in Workers, req[w].at \in CreateSteps, W!Upsert(req[w].doc), Others(w),
         UNCHANGED <<history, validated>>, ~SpinAt(r, "place")',
         req'[w].at = "idle" \/ /\ req'[w].at = "validate.lock" /\ req'[w].doc = req[w].doc
                                /\ W!CanWager(req'[w].doc, req'[w].amount)
  PROVE  Steady(r)'
<1> DEFINE d == req[w].doc
<1>1. gen = 0 /\ gen' = 1 /\ db' = d /\ credited' = credited + d.total
  BY DEF W!Upsert, FirstDocs
<1>2. Fresh(d)
  BY DEF FirstDocs
<1>3. /\ db = NoDoc /\ validated = <<>> /\ credited = 0 /\ history = {}
      /\ \A v \in Workers : Course(v)
  BY <1>1, Unstarted DEF Steady
<1> HIDE DEF d
<1>4. /\ SoundDoc(db') /\ db'.lifetime = 0 /\ db'.active.wagered = 0
      /\ db'.total \in Int /\ db'.total = db'.real + db'.bonus
  BY <1>1, <1>2 DEF Fresh, SoundDoc, W!Doc
<1>5. credited' = db'.total /\ credited' \in Int
  BY <1>1, <1>3, <1>4
<1>6. Books(r)'
  <2>1. validated' = <<>>
    BY <1>3
  <2>2. Sum(Stakes(validated')) = 0 /\ Sum(Results(validated')) = 0
    BY <2>1, NothingGiven
  <2>3. db'.real + db'.bonus = credited' + 0
    BY <1>4, <1>5
  <2> QED
    BY <1>4, <2>2, <2>3 DEF Books, Booked
<1>7. Account(r)'
  BY <1>4, <1>5, <1>6 DEF Account
<1>8. ASSUME NEW v \in Workers PROVE Course(v)'
  <2>1. CASE v # w
    <3>1. Course(v) /\ req'[v] = req[v]
      BY <1>3, <2>1 DEF Others
    <3>2. req[v].at # "validate.lock" /\ ~Serving(v)
      BY <1>1, <3>1 DEF Course
    <3>3. req[v].at # "place.update"
      BY <3>2 DEF Serving, PlaceSteps
    <3> QED
      BY <3>1, <3>2, <3>3 DEF Course, Serving, Recorded
  <2>2. CASE v = w
    BY <1>1, <2>2 DEF Course, Serving, PlaceSteps, d
  <2> QED
    BY <2>1, <2>2
<1> QED
  BY <1>1, <1>3, <1>7, <1>8 DEF Steady

\* Validation data as it is computed from the document, with what else the lock does.
LEMMA LockedData ==
  ASSUME NEW w \in Workers, W!ValidateLock(w), NEW d, d = req[w].doc,
         NEW amount, amount = req[w].amount
  PROVE  \E t : /\ issued' = issued \cup {t} /\ t.n = Cardinality(issued) + 1
                /\ t.amount = amount /\ t.bonusUsed = W!BonusUsed(d, amount)
                /\ t.realUsed = W!RealUsed(d, amount)
                /\ t.realBefore = d.real /\ t.bonusBefore = d.bonus
                /\ db' = [db EXCEPT !.version = @ + 1]
                /\ UNCHANGED <<history, gen, credited>>
<1> DEFINE t == [n |-> Cardinality(issued) + 1, gen |-> gen, version |-> d.version,
                 amount |-> amount, bonusUsed |-> W!BonusUsed(d, amount),
                 realUsed |-> W!RealUsed(d, amount),
                 realBefore |-> d.real, bonusBefore |-> d.bonus]
<1>1. issued' = issued \cup {t} /\ db' = [db EXCEPT !.version = @ + 1]
      /\ UNCHANGED <<history, gen, credited>>
  BY SameCardinality DEF W!ValidateLock
<1>2. /\ t.n = Cardinality(issued) + 1
      /\ t.amount = amount /\ t.bonusUsed = W!BonusUsed(d, amount)
      /\ t.realUsed = W!RealUsed(d, amount)
      /\ t.realBefore = d.real /\ t.bonusBefore = d.bonus
  OBVIOUS
<1> HIDE DEF t
<1> QED
  BY <1>1, <1>2

\* The worker at the lock has the document, so the stake is covered and owed from
\* then on.
LEMMA SteadyLocked ==
  ASSUME NEW r, Replicas = {r}, ~Failures, FlowInv, OneCaller(r), FirstDocs, Steady(r), gen <= 1,
         NEW w \in Workers, WorkerStep(w), W!ValidateLock(w), req[w].at = "validate.lock",
         req'[w] = W!Idle, Others(w)
  PROVE  Steady(r)'
<1>a. TypeInv /\ HeldInv /\ NumbersInv /\ CallsInv /\ SpinsInv /\ Known
  BY DEF FlowInv, BalanceInv, SpinsInv
<1>b. NoWorker \notin Workers /\ r \in Replicas
  BY FlowAssumption
<1>1. /\ call[r] = w /\ call'[r] = NoWorker
      /\ GrantReply(r) \/ RefusalReply(r) \/ PlaceReply(r)
  BY <1>a, Answers
<1>2. /\ Course(w) /\ gen = 1 /\ Account(r) /\ req[w].doc = db
      /\ W!CanWager(db, req[w].amount)
  BY DEF Steady, Course, FirstDocs
<1>3. SpinAt(r, "validate") /\ req[w].amount = spin[r].game.bet /\ spin[r].game \in games
  BY <1>a, <1>b, <1>1 DEF CallsInv, CallOK, Serving, PlaceSteps, HeldInv, SpinAt
<1>4. PICK t : /\ issued' = issued \cup {t} /\ t.n = Cardinality(issued) + 1
               /\ t.amount = req[w].amount /\ t.bonusUsed = W!BonusUsed(db, req[w].amount)
               /\ t.realUsed = W!RealUsed(db, req[w].amount)
               /\ t.realBefore = db.real /\ t.bonusBefore = db.bonus
               /\ db' = [db EXCEPT !.version = @ + 1]
               /\ UNCHANGED <<history, gen, credited>>
  BY <1>2, LockedData
<1>5. t \notin issued
  <2>1. Cardinality(issued) \in Nat /\ \A s \in issued : s.n <= Cardinality(issued)
    BY <1>a, FS_CardinalityType DEF NumbersInv
  <2> QED
    BY <1>4, <2>1
<1>6. GrantReply(r)
  <2>1. ~RefusalReply(r)
    BY <1>4, <1>5 DEF RefusalReply
  <2>2. ~PlaceReply(r)
    BY <1>3 DEF PlaceReply, Answered, SpinAt
  <2> QED
    BY <1>1, <2>1, <2>2
<1> DEFINE u == [n |-> t.n, game |-> spin[r].game]
<1>7. data'[r] = t /\ validated' = Append(validated, u)
  <2>1. PICK s \in issued' \ issued : /\ data' = [data EXCEPT ![r] = s]
                                      /\ validated' = Append(validated, [n |-> s.n, game |-> spin[r].game])
    BY <1>6 DEF GrantReply
  <2>2. s = t
    BY <1>4, <2>1
  <2> QED
    BY <1>a, <1>b, <2>1, <2>2 DEF CallsInv
<1>8. u.game = spin[r].game
  OBVIOUS
<1> HIDE DEF u
<1>9. SpinAt(r, "place")' /\ spin'[r].game = spin[r].game
  BY <1>a, <1>b, <1>6, Granting DEF GrantReply, SpinAt
<1>10. /\ SoundDoc(db) /\ credited \in Int /\ (db.active.wagered > 0 => Recorded(db.active))
       /\ Booked
  BY <1>2, <1>3 DEF Account, Books, SpinAt
<1>11. spin[r].game.bet \in Nat /\ Net(spin[r].game) \in Int
  <2>1. Sound(spin[r].game)
    BY <1>a, <1>3 DEF TypeInv
  <2>2. spin[r].game.bet \in Nat
    BY <2>1, AmountsOfFlow DEF AmountsOfFlow, Sound
  <2> QED
    BY <2>1, <2>2, NetType
<1>12. /\ SoundDoc(db') /\ db'.real = db.real /\ db'.bonus = db.bonus
       /\ db'.active = db.active /\ db'.lifetime = db.lifetime
  BY <1>4, <1>10 DEF SoundDoc, W!Doc
<1>13. Covers(data'[r], db')
  <2>1. req[w].amount \in Nat
    BY <1>3, <1>11
  <2> QED
    BY <1>2, <1>4, <1>7, <1>10, <1>12, <2>1, StakeCovered DEF Covers
<1>14. Books(r)'
  <2>1. /\ Sum(Stakes(validated')) = Sum(Stakes(validated)) + spin[r].game.bet
        /\ Sum(Results(validated')) = Sum(Results(validated)) + Net(spin[r].game)
    BY <1>a, <1>3, <1>7, <1>8, SumsOneMore
  <2>2. Sum(Stakes(validated)) \in Int /\ Sum(Results(validated)) \in Int
    BY <1>a, SumsType DEF Known
  <2>3. db.lifetime \in Int /\ db.real \in Int /\ db.bonus \in Int
    BY <1>10 DEF SoundDoc, W!Doc
  <2>4. db'.lifetime + spin[r].game.bet = Sum(Stakes(validated'))
    BY <1>10, <1>11, <1>12, <2>1, <2>2, <2>3 DEF Booked
  <2>5. db'.real + db'.bonus + Net(spin[r].game) = credited + Sum(Results(validated'))
    BY <1>10, <1>11, <1>12, <2>1, <2>2, <2>3 DEF Booked
  <2> QED
    BY <1>4, <1>9, <2>4, <2>5 DEF Books
<1>15. Account(r)'
  BY <1>1, <1>4, <1>10, <1>12, <1>13, <1>14 DEF Account, Recorded
<1>16. ASSUME NEW v \in Workers PROVE Course(v)'
  <2>1. CASE v = w
    BY <2>1, IdleWhole DEF Course, Serving, PlaceSteps
  <2>2. CASE v # w
    <3>1. Course(v) /\ req'[v] = req[v]
      BY <2>2 DEF Steady, Others
    <3>2. req[v].at \notin ValidateSteps \cup PlaceSteps
      BY <1>1, <2>2 DEF OneCaller
    <3> QED
      BY <1>4, <3>1, <3>2 DEF Course, Serving, PlaceSteps, ValidateSteps, Recorded
  <2> QED
    BY <2>1, <2>2
<1>17. \A h \in history' : Coherent(h)
  BY <1>4 DEF Steady
<1> QED
  BY <1>2, <1>4, <1>15, <1>16, <1>17 DEF Steady, Coherent

\* The record that placing inserts, field by field.
LEMMA InsertedRecord ==
  ASSUME NEW w \in Workers, W!PlaceInsert(w), NEW d, d = req[w].doc, NEW t, t = req[w].ticket,
         NEW payout, payout = req[w].payout
  PROVE  \E h : /\ history' = history \cup {h} /\ h.bonusId = d.active.id
                /\ h.realBefore = t.realBefore /\ h.realUsed = t.realUsed
                /\ h.bonusBefore = t.bonusBefore /\ h.bonusUsed = t.bonusUsed
                /\ h.payout = payout /\ h.realAfter = W!Placed(d, t, payout).real
                /\ h.bonusAfter = W!Placed(d, t, payout).bonus
<1> DEFINE e == W!Placed(d, t, payout)
           h == [n |-> t.n, amount |-> t.amount, payout |-> payout,
                 bonusId |-> d.active.id, bonusUsed |-> t.bonusUsed, realUsed |-> t.realUsed,
                 realBefore |-> t.realBefore, realAfter |-> e.real,
                 bonusBefore |-> t.bonusBefore, bonusAfter |-> e.bonus]
<1>1. history' = history \cup {h}
  BY DEF W!PlaceInsert
<1>2. /\ h.bonusId = d.active.id
      /\ h.realBefore = t.realBefore /\ h.realUsed = t.realUsed
      /\ h.bonusBefore = t.bonusBefore /\ h.bonusUsed = t.bonusUsed
      /\ h.payout = payout /\ h.realAfter = e.real /\ h.bonusAfter = e.bonus
  OBVIOUS
<1> HIDE DEF h
<1> QED
  BY <1>1, <1>2

\* What the worker that places the spin's wager has: the document, a deduction it
\* covers, and the spin's own stake and payout.
LEMMA PlacingWorker ==
  ASSUME NEW r, Replicas = {r}, FlowInv, OneCaller(r), FirstDocs, Steady(r), gen <= 1,
         NEW w \in Workers, Serving(w)
  PROVE  /\ gen = 1 /\ Account(r) /\ SoundDoc(db) /\ req[w].doc = db
         /\ Covers(req[w].ticket, db) /\ call[r] = w /\ SpinAt(r, "place")
         /\ req[w].ticket.amount = spin[r].game.bet /\ req[w].payout = spin[r].game.payout
         /\ spin[r].game.bet \in Nat /\ spin[r].game.payout \in Nat
<1>a. TypeInv /\ HeldInv /\ CallsInv
  BY DEF FlowInv, BalanceInv
<1>b. NoWorker \notin Workers /\ r \in Replicas
  BY FlowAssumption
<1>1. gen = 1 /\ Account(r) /\ req[w].doc = db /\ Covers(req[w].ticket, db)
  BY DEF Steady, Course, FirstDocs
<1>2. call[r] = w
  BY DEF OneCaller, Serving
<1>3. SpinAt(r, "place") /\ spin[r].game \in games
  BY <1>a, <1>b, <1>2 DEF CallsInv, CallOK, Serving, PlaceSteps, ValidateSteps, HeldInv, SpinAt
<1>4. req[w].ticket.amount = spin[r].game.bet /\ req[w].payout = spin[r].game.payout
  BY <1>b, <1>2, <1>3 DEF OneCaller
<1>5. spin[r].game.bet \in Nat /\ spin[r].game.payout \in Nat
  <2>1. Sound(spin[r].game)
    BY <1>a, <1>3 DEF TypeInv
  <2>2. spin[r].game.bet \in Nat
    BY <2>1, AmountsOfFlow DEF AmountsOfFlow, Sound
  <2> QED
    BY <2>1, <2>2 DEF Sound
<1> QED
  BY <1>1, <1>2, <1>3, <1>4, <1>5 DEF Account

\* The record of a wager is coherent.
LEMMA SteadyRecorded ==
  ASSUME NEW r, Replicas = {r}, ~Failures, FlowInv, OneCaller(r), FirstDocs, Steady(r), gen <= 1,
         NEW w \in Workers, WorkerStep(w), W!PlaceInsert(w), req[w].at = "place.insert",
         req'[w].at = "place.update", req'[w].doc = req[w].doc,
         req'[w].ticket = req[w].ticket, req'[w].payout = req[w].payout, Others(w)
  PROVE  Steady(r)'
<1>1. Serving(w)
  BY DEF Serving, PlaceSteps
<1>2. /\ gen = 1 /\ SoundDoc(db) /\ req[w].doc = db
      /\ Covers(req[w].ticket, db) /\ call[r] = w /\ SpinAt(r, "place")
      /\ req[w].ticket.amount \in Nat /\ req[w].payout \in Nat
  BY <1>1, PlacingWorker
<1>3. PICK h : /\ history' = history \cup {h} /\ h.bonusId = db.active.id
               /\ h.realBefore = req[w].ticket.realBefore
               /\ h.realUsed = req[w].ticket.realUsed
               /\ h.bonusBefore = req[w].ticket.bonusBefore
               /\ h.bonusUsed = req[w].ticket.bonusUsed /\ h.payout = req[w].payout
               /\ h.realAfter = W!Placed(db, req[w].ticket, req[w].payout).real
               /\ h.bonusAfter = W!Placed(db, req[w].ticket, req[w].payout).bonus
  BY <1>2, InsertedRecord
<1>4. /\ h.realAfter = db.real - req[w].ticket.realUsed + req[w].payout
      /\ h.bonusAfter = db.bonus - req[w].ticket.bonusUsed
  BY <1>2, <1>3, FlowPlaced
<1>5. Coherent(h)
  BY <1>2, <1>3, <1>4 DEF Coherent, Covers
<1>6. UNCHANGED <<gen, db, credited>>
  BY DEF W!PlaceInsert
<1>7. UNCHANGED <<spin, call, data, validated>>
  <2>1. req'[w] # W!Idle
    BY IdleWhole
  <2> QED
    BY <2>1, Answers DEF FlowInv
<1>8. Course(w)'
  BY <1>2, <1>3, <1>6 DEF Course, Serving, PlaceSteps, Recorded
<1> QED
  BY <1>3, <1>5, <1>6, <1>7, <1>8, SteadyKept DEF Others, SpinAt

\* The flush of a wager books its stake and its payout.
LEMMA SteadyPlaced ==
  ASSUME NEW r, Replicas = {r}, ~Failures, FlowInv, OneCaller(r), FirstDocs, Steady(r), gen <= 1,
         NEW w \in Workers, WorkerStep(w), W!PlaceUpdate(w), req[w].at = "place.update",
         req'[w] = W!Idle, Others(w)
  PROVE  Steady(r)'
<1>a. TypeInv /\ NumbersInv /\ CallsInv /\ Known /\ r \in Replicas
  BY DEF FlowInv, BalanceInv, SpinsInv
<1> DEFINE t == req[w].ticket
           payout == req[w].payout
           g == spin[r].game
           e == W!Placed(db, t, payout)
<1>1. Serving(w)
  BY DEF Serving, PlaceSteps
<1>2. /\ gen = 1 /\ Account(r) /\ SoundDoc(db) /\ req[w].doc = db
      /\ Covers(t, db) /\ call[r] = w /\ SpinAt(r, "place")
      /\ t.amount = g.bet /\ payout = g.payout /\ g.bet \in Nat /\ g.payout \in Nat
  BY <1>1, PlacingWorker
<1>3. /\ SoundDoc(e) /\ e.real = db.real - t.realUsed + payout
      /\ e.bonus = db.bonus - t.bonusUsed /\ e.lifetime = db.lifetime + t.amount
      /\ e.active.id = db.active.id
  BY <1>2, FlowPlaced
<1>4. db' = e /\ UNCHANGED <<history, gen, credited, issued>>
  <2>1. db' = W!Flushed(db, db, e) /\ UNCHANGED <<history, gen, credited, issued>>
    BY <1>2 DEF W!PlaceUpdate, W!Flush, W!ghosts
  <2> HIDE DEF e
  <2> QED
    BY <1>2, <1>3, <2>1, FlowFlush
<1> HIDE DEF e, t, payout, g
<1>5. validated' = validated /\ ~SpinAt(r, "place")'
  <2>1. /\ call[r] = w /\ call'[r] = NoWorker
        /\ GrantReply(r) \/ RefusalReply(r) \/ PlaceReply(r)
    BY <1>a, Answers
  <2>2. ~GrantReply(r) /\ ~RefusalReply(r)
    BY <1>2 DEF GrantReply, Granted, RefusalReply, Refused, SpinAt
  <2>3. PlaceReply(r)
    BY <2>1, <2>2
  <2> QED
    BY <1>a, <2>3, Ending DEF PlaceReply, SpinAt
<1>6. Recorded(db.active)
  BY DEF Steady, Course
<1>7. Books(r)'
  <2>1. /\ db.lifetime + g.bet = Sum(Stakes(validated))
        /\ db.real + db.bonus + Net(g) = credited + Sum(Results(validated))
    BY <1>2 DEF Account, Books, g
  <2>2. Net(g) = payout - t.amount
    BY <1>2 DEF Net
  <2>3. /\ db.real \in Int /\ db.bonus \in Int /\ db.lifetime \in Int
        /\ t.realUsed \in Int /\ t.bonusUsed \in Int /\ t.bonusUsed + t.realUsed = t.amount
        /\ t.amount \in Int /\ payout \in Int
    BY <1>2 DEF SoundDoc, W!Doc, Covers
  <2>4. e.real + e.bonus = db.real + db.bonus + Net(g)
    BY <1>3, <2>2, <2>3
  <2>5. e.lifetime = db.lifetime + g.bet
    BY <1>2, <1>3
  <2> QED
    BY <1>4, <1>5, <2>1, <2>4, <2>5 DEF Books, Booked
<1>8. Account(r)'
  <2>1. Recorded(db.active)'
    BY <1>3, <1>4, <1>6 DEF Recorded
  <2>2. credited \in Int
    BY <1>2 DEF Account
  <2> QED
    BY <1>3, <1>4, <1>5, <1>7, <2>1, <2>2 DEF Account
<1>9. ASSUME NEW v \in Workers PROVE Course(v)'
  <2>1. CASE v = w
    BY <2>1, IdleWhole DEF Course, Serving, PlaceSteps
  <2>2. CASE v # w
    <3>1. Course(v) /\ req'[v] = req[v]
      BY <2>2 DEF Steady, Others
    <3>2. req[v].at \notin ValidateSteps \cup PlaceSteps
      BY <1>2, <2>2 DEF OneCaller
    <3> QED
      BY <1>4, <3>1, <3>2 DEF Course, Serving, PlaceSteps, ValidateSteps, Recorded
  <2> QED
    BY <2>1, <2>2
<1>10. \A h \in history' : Coherent(h)
  BY <1>4 DEF Steady
<1> QED
  BY <1>2, <1>4, <1>8, <1>9, <1>10 DEF Steady, Coherent

\* At the start there is no player.
LEMMA SteadyInit ==
  ASSUME NEW r, Init
  PROVE  Steady(r)
<1>1. /\ db = NoDoc /\ gen = 0 /\ credited = 0 /\ validated = <<>> /\ history = {}
      /\ \A w \in Workers : req[w] = W!Idle
  BY DEF Init, W!Init
<1> QED
  BY <1>1, IdleWhole DEF Steady, Course, Serving, PlaceSteps

\* Every step keeps the books, until the player is created a second time.
LEMMA SteadyNext ==
  ASSUME NEW r, Replicas = {r}, ~Timeouts, ~Failures, FlowInv, OneCaller(r), FirstDocs,
         Steady(r), [Next]_vars
  PROVE  Steady(r)'
<1>a. TypeInv /\ HeldInv /\ NumbersInv /\ CallsInv /\ SpinsInv /\ r \in Replicas
  BY DEF FlowInv, BalanceInv
<1>b. gen \in Nat /\ gen' \in {gen, gen + 1}
  BY FirstDocsNext DEF FirstDocs
<1> SUFFICES ASSUME gen' <= 1 PROVE Steady(r)'
  <2>1. CASE gen' > 1
    BY <1>b, <2>1 DEF Steady
  <2> QED
    BY <1>b, <2>1
<1>c. gen <= 1 /\ (gen = 0 \/ gen = 1)
  BY <1>b
<1>1. CASE EngineStep(r)
  <2>1. UNCHANGED <<gen, db, credited, validated, history, req, call, data>>
    BY <1>1, <1>a, OwnSteps DEF wagerVars
  <2>2. /\ SpinAt(r, "place")' <=> SpinAt(r, "place")
        /\ SpinAt(r, "place") => spin'[r] = spin[r]
    BY <1>1, <1>a, OwnSteps DEF SpinAt
  <2> QED
    BY <1>c, <2>1, <2>2, SteadyKept
<1>2. ASSUME CallTimesOut(r) \/ EngineFails(r) PROVE FALSE
  BY <1>2 DEF CallTimesOut, EngineFails, SpinFails
<1>3. ASSUME NEW w \in Workers, CallValidate(r, w) PROVE Steady(r)'
  <2>1. /\ W!ValidateFind(w, spin[r].game.bet) /\ SpinAt(r, "validate")
        /\ UNCHANGED <<spin, data, validated>>
    BY <1>3 DEF CallValidate, engineVars
  <2>2. /\ Others(w) /\ req'[w].amount = spin[r].game.bet
        /\ \/ req'[w].at = "validate.create"
           \/ /\ db # NoDoc /\ W!CanWager(db, spin[r].game.bet)
              /\ req'[w].at = "validate.lock" /\ req'[w].doc = db
        /\ UNCHANGED <<db, history, gen, credited>>
    BY <2>1, <1>a, ValidateBegun
  <2>3. db # NoDoc => gen # 0
    BY <1>c, Created
  <2>4. Course(w)'
    BY <2>2, <2>3 DEF Course, Serving, PlaceSteps
  <2>5. ~SpinAt(r, "place") /\ ~SpinAt(r, "place")'
    BY <2>1 DEF SpinAt
  <2> QED
    BY <1>c, <2>1, <2>2, <2>4, <2>5, SteadyKept DEF Others
<1>4. ASSUME NEW w \in Workers, CallPlace(r, w) PROVE Steady(r)'
  <2>1. /\ W!PlaceFind(w, data[r], spin[r].game.payout) /\ SpinAt(r, "place")
        /\ call[r] = NoWorker /\ call'[r] = w /\ w # NoWorker
        /\ UNCHANGED <<spin, data, validated>>
    BY <1>4, <1>a, FlowAssumption DEF CallPlace, Waiting, CallsInv, engineVars
  <2>2. /\ Others(w) /\ req'[w].at = "place.insert" /\ req'[w].doc = db
        /\ req'[w].ticket = data[r] /\ UNCHANGED <<db, history, gen, credited>>
    BY <2>1, <1>a, PlaceBegun
  <2>3. gen = 1
    BY <1>c, <2>1, Unstarted
  <2>4. Covers(data[r], db)
    BY <2>1, <2>3 DEF Steady, Account
  <2>5. Course(w)'
    BY <2>2, <2>3, <2>4 DEF Course, Serving, PlaceSteps
  <2> QED
    BY <1>c, <2>1, <2>2, <2>5, SteadyKept DEF Others, SpinAt
<1>5. ASSUME NEW w \in Workers, RefuseStake(r, w) PROVE Steady(r)'
  <2>1. /\ UNCHANGED <<gen, db, credited, validated, history, req, call, data>>
        /\ Refused(r)
    BY <1>5 DEF RefuseStake, wagerVars
  <2>2. ~SpinAt(r, "place")
    BY <2>1 DEF Refused, SpinAt
  <2>3. ~SpinAt(r, "place")'
    BY <1>a, <2>1, Ending DEF SpinAt
  <2> QED
    BY <1>c, <2>1, <2>2, <2>3, SteadyKept
<1>6. ASSUME NEW w \in Workers, PlaceThrows(r, w) PROVE FALSE
  <2>1. SpinAt(r, "place") /\ db.active.kind = "partial"
    BY <1>6 DEF PlaceThrows
  <2>2. gen = 1
    BY <1>c, <2>1, Unstarted
  <2> QED
    BY <2>1, <2>2 DEF Steady, Account, SoundDoc
<1>7. ASSUME NEW w \in Workers, WorkerStep(w) PROVE Steady(r)'
  <2>1. Work(w) /\ Others(w)
    BY <1>7, <1>a, WorkMoves DEF WorkerStep
  <2>2. /\ call[r] = w
        /\ \/ req'[w] # W!Idle /\ UNCHANGED <<games, spin, call, data, validated, late>>
           \/ /\ req'[w] = W!Idle /\ call'[r] = NoWorker /\ late' = late
              /\ GrantReply(r) \/ RefusalReply(r) \/ PlaceReply(r)
    BY <1>7, <1>a, Answers
  \* a validation that ends, or goes on, without data
  <2>a. ASSUME req[w].at \in ValidateSteps, issued' = issued
        PROVE  ~SpinAt(r, "place") /\ ~SpinAt(r, "place")' /\ validated' = validated
    <3>1. SpinAt(r, "validate")
      BY <1>a, <2>2, <2>a, FlowAssumption DEF CallsInv, CallOK, Serving, ValidateSteps, PlaceSteps
    <3>2. CASE RefusalReply(r)
      <4>1. spin'[r].at = "idle" /\ validated' = validated
        BY <1>a, <3>2, Ending DEF RefusalReply
      <4> QED
        BY <3>1, <4>1 DEF SpinAt
    <3>3. ~GrantReply(r) /\ ~PlaceReply(r)
      BY <2>a, <3>1 DEF GrantReply, PlaceReply, Answered, SpinAt
    <3>4. CASE UNCHANGED <<games, spin, call, data, validated, late>>
      BY <3>1, <3>4 DEF SpinAt
    <3> QED
      BY <2>2, <3>2, <3>3, <3>4
  <2>3. CASE /\ req[w].at = "validate.create" /\ W!Upsert(req[w].doc)
             /\ UNCHANGED <<history, issued>>
             /\ \/ req'[w] = W!Idle
                \/ /\ req'[w].at = "validate.lock" /\ req'[w].doc = req[w].doc
                   /\ req'[w].amount = req[w].amount
                   /\ W!CanWager(req[w].doc, req[w].amount)
    <3>1. req[w].at \in CreateSteps /\ req[w].at \in ValidateSteps
      BY <2>3 DEF CreateSteps, ValidateSteps
    <3>2. ~SpinAt(r, "place")' /\ validated' = validated
      BY <2>3, <2>a, <3>1
    <3>3. req'[w].at = "idle" \/ /\ req'[w].at = "validate.lock" /\ req'[w].doc = req[w].doc
                                 /\ W!CanWager(req'[w].doc, req'[w].amount)
      BY <2>3, IdleWhole
    <3> QED
      BY <1>c, <2>1, <2>3, <3>1, <3>2, <3>3, SteadyCreated
  <2>4. CASE W!ValidateLock(w) /\ req[w].at = "validate.lock" /\ req'[w] = W!Idle
    BY <1>7, <1>c, <2>1, <2>4, SteadyLocked
  <2>5. CASE /\ req[w].at = "validate.lock" /\ req'[w] = W!Idle
             /\ UNCHANGED <<db, history, gen, credited, issued>>
    <3>1. ~SpinAt(r, "place") /\ ~SpinAt(r, "place")' /\ validated' = validated
      BY <2>5, <2>a DEF ValidateSteps
    <3>2. Course(w)'
      BY <2>5, IdleWhole DEF Course, Serving, PlaceSteps
    <3> QED
      BY <1>c, <2>1, <2>5, <3>1, <3>2, SteadyKept DEF Others
  <2>6. CASE /\ W!PlaceInsert(w) /\ req[w].at = "place.insert" /\ req'[w].at = "place.update"
             /\ req'[w].doc = req[w].doc /\ req'[w].ticket = req[w].ticket
             /\ req'[w].payout = req[w].payout
    BY <1>7, <1>c, <2>1, <2>6, SteadyRecorded
  <2>7. CASE W!PlaceUpdate(w) /\ req[w].at = "place.update" /\ req'[w] = W!Idle
    BY <1>7, <1>c, <2>1, <2>7, SteadyPlaced
  <2> QED
    BY <1>a, <2>1, <2>3, <2>4, <2>5, <2>6, <2>7, WorkMoves
<1>8. ASSUME NEW w \in Workers, OtherRequest(w) PROVE Steady(r)'
  <2>1. UNCHANGED <<spin, call, data, validated>>
    BY <1>8 DEF OtherRequest, engineVars
  <2>2. /\ Others(w) /\ UNCHANGED history
        /\ \/ Building(w) \/ Creation(w) \/ Asking(w) \/ Counting(w)
           \/ Reclaiming(w) \/ Changing(w)
    BY <1>8, <1>a, OtherMoves
  <2>3. SpinAt(r, "place")' <=> SpinAt(r, "place")
    BY <2>1 DEF SpinAt
  \* a request that begins, or asks, and leaves the document alone
  <2>a. ASSUME Course(w)', UNCHANGED <<db, gen, credited>> PROVE Steady(r)'
    BY <1>c, <2>1, <2>2, <2>3, <2>a, SteadyKept DEF Others
  <2>4. CASE Building(w)
    <3>1. Course(w)' /\ UNCHANGED <<db, gen, credited>>
      BY <2>4 DEF Building, Course, Serving, PlaceSteps
    <3> QED
      BY <2>a, <3>1
  <2>5. CASE Creation(w)
    <3>1. /\ req[w].at \in CreateSteps /\ W!Upsert(req[w].doc) /\ req'[w].at = "idle"
      BY <2>5 DEF Creation, CreateSteps
    <3>2. gen = 0
      BY <1>b, <3>1 DEF W!Upsert
    <3>3. ~SpinAt(r, "place")'
      BY <2>3, <3>2, Unstarted
    <3> QED
      BY <1>c, <2>1, <2>2, <3>1, <3>3, SteadyCreated
  <2>6. CASE Asking(w)
    <3>1. gen = 1 /\ UNCHANGED <<db, gen, credited>>
      BY <1>c, <2>6, Created DEF Asking
    <3>2. W!Required \in Nat \ {0}
      BY AmountsOfFlow DEF W!Required
    <3>3. db.active.wagered \in Nat /\ db.active.wagered >= W!Required
      BY <2>6, <3>1 DEF Asking, W!Convertible, W!IsComplete, Steady, Account, SoundDoc, W!Doc, W!Bonus
    <3>4. Recorded(db.active)
      BY <3>1, <3>2, <3>3 DEF Steady, Account
    <3>5. Course(w)'
      BY <2>2, <2>6, <3>4 DEF Asking, Course, Serving, PlaceSteps, Recorded
    <3> QED
      BY <2>a, <3>1, <3>5
  <2>7. CASE Counting(w)
    <3>1. Recorded(req[w].doc.active)
      BY <1>c, <2>7 DEF Counting, Steady, Course
    <3>2. req'[w].at = "idle" /\ UNCHANGED <<db, gen, credited>>
      BY <2>7, <3>1 DEF Counting, Recorded
    <3>3. Course(w)'
      BY <3>2 DEF Course, Serving, PlaceSteps
    <3> QED
      BY <2>a, <3>2, <3>3
  <2>8. ~Reclaiming(w)
    <3>1. ASSUME Reclaiming(w) PROVE FALSE
      <4>1. gen = 1 /\ db.active.kind = "none"
        BY <1>c, <3>1, Created DEF Reclaiming
      <4> QED
        BY <4>1 DEF Steady, Account, SoundDoc
    <3> QED
      BY <3>1
  <2>9. ~Changing(w)
    BY <1>c DEF Changing, Steady, Course
  <2> QED
    BY <2>2, <2>4, <2>5, <2>6, <2>7, <2>8, <2>9
<1>9. ASSUME NEW w \in Workers, NEW l \in late, ServeLate(l, w) PROVE FALSE
  BY DEF OneCaller
<1>10. CASE BrokerStep \/ Tick \/ UNCHANGED vars
  <2>1. UNCHANGED <<gen, db, credited, validated, history, req, call, data, spin>>
    BY <1>10 DEF BrokerStep, BrokerDown, BrokerUp, BrokerCloses, Tick, W!Tick, W!ghosts, vars,
       engineVars, wagerVars
  <2>2. SpinAt(r, "place")' <=> SpinAt(r, "place")
    BY <2>1 DEF SpinAt
  <2> QED
    BY <1>c, <2>1, <2>2, SteadyKept
<1> QED
  BY <1>1, <1>2, <1>3, <1>4, <1>5, <1>6, <1>7, <1>8, <1>9, <1>10 DEF Next

\* One replica whose calls neither time out nor fail: the wager service has booked
\* exactly the spins it validated, whatever claims, progress and conversion requests of
\* the player overlap them, as long as the player was created once
\* (WagerService::validateWager and placeWager, HttpWagerService.validate_wager).
THEOREM SpinsBooked ==
  ASSUME NEW r, Replicas = {r}, ~Timeouts, ~Failures
  PROVE  Spec => []ValidatedSpinsAreBooked
<1> DEFINE Inv == FlowInv /\ OneCaller(r) /\ FirstDocs /\ Steady(r)
<1>1. Init => OneCaller(r) /\ FirstDocs /\ Steady(r)
  BY OneCallerInit, FirstDocsInit, SteadyInit
<1>2. Inv /\ [Next]_vars => OneCaller(r)' /\ FirstDocs' /\ Steady(r)'
  BY OneCallerNext, FirstDocsNext, SteadyNext
<1>3. Inv => ValidatedSpinsAreBooked
  <2> SUFFICES ASSUME Inv, db # NoDoc, gen <= 1
               PROVE  /\ Quiet => Booked
                      /\ db.real >= 0 /\ db.bonus >= 0
                      /\ \A h \in history : Coherent(h)
    BY DEF ValidatedSpinsAreBooked
  <2>1. gen = 1
    BY Created DEF FirstDocs
  <2>2. Account(r) /\ \A h \in history : Coherent(h)
    BY <2>1 DEF Steady
  <2>3. Quiet => Booked
    <3>1. Quiet => ~SpinAt(r, "place")
      BY DEF Quiet, SpinAt
    <3> QED
      BY <2>2, <3>1 DEF Account, Books
  <2> QED
    BY <2>2, <2>3 DEF Account, SoundDoc
<1> HIDE DEF Inv
<1>4. FlowInv' /\ OneCaller(r)' /\ FirstDocs' /\ Steady(r)' => Inv'
  BY DEF Inv
<1>5. FlowInv /\ OneCaller(r) /\ FirstDocs /\ Steady(r) => Inv
  BY DEF Inv
<1> QED
  BY <1>1, <1>2, <1>3, <1>4, <1>5, FlowInvariant, PTL DEF Spec
==============================================================================
