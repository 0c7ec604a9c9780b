------------------------------ MODULE UserBonus ------------------------------
(***************************************************************************)
(* The documents of the wager service (Document/UserBonus.php) and the     *)
(* operations its services apply to them, as pure operators.  A balance is *)
(* a whole number of units; StartBalance, WelcomeBonus and Multiplier are  *)
(* the literals 1000.0, 1000.0 and 2 of the services.  Every bonus of the  *)
(* program is built with the same amount and multiplier, so a bonus does   *)
(* not carry them.                                                         *)
(*                                                                         *)
(* CountDown, CompleteLate, AllFromBonus and RealToo are faulty forms of   *)
(* the definition after them, no part of the specification.                *)
(***************************************************************************)
EXTENDS Integers

CONSTANTS StartBalance,   \* real balance of an auto-created user
          WelcomeBonus,   \* amount of the welcome bonus
          Multiplier      \* wagering multiplier

ASSUME AmountsAssumption ==
  /\ StartBalance \in Nat
  /\ WelcomeBonus \in Nat \ {0}
  /\ Multiplier \in Nat \ {0}

Required == WelcomeBonus * Multiplier

(***************************************************************************)
(* An embedded ActiveBonus.  Its id is 'welcome-bonus-' and the second it  *)
(* was built in: the second stands for it, 0 for a missing id.  "partial"  *)
(* is the sub-document a dotted $set leaves where there was none: it lacks *)
(* id, amount and wageringRequired, and reading those throws.              *)
(***************************************************************************)
Bonus == [kind : {"none", "whole", "partial"}, id : Nat, wagered : Nat,
          status : {"active", "completed"}]

NoBonus == [kind |-> "none", id |-> 0, wagered |-> 0, status |-> "active"]

NewBonus(second) ==
  [kind |-> "whole", id |-> second, wagered |-> 0, status |-> "active"]

CountDown(b, amount) == [b EXCEPT !.wagered = @ - amount]
CompleteLate(b, amount) ==
  [b EXCEPT !.wagered = @ + amount,
            !.status  = IF b.wagered >= Required THEN "completed" ELSE @]
AddWageringProgress(b, amount) ==
  [b EXCEPT !.wagered = @ + amount,
            !.status  = IF b.wagered + amount >= Required THEN "completed" ELSE @]

IsComplete(b) == b.wagered >= Required

(***************************************************************************)
(* The document of a user.  lastWagerTime is written and never read.       *)
(***************************************************************************)
Doc == [real : Int, bonus : Int, total : Int, claimed : Nat, completed : Nat,
        lifetime : Nat, version : Nat, active : Bonus]

NewUser == [real |-> 0, bonus |-> 0, total |-> 0, claimed |-> 0, completed |-> 0,
            lifetime |-> 0, version |-> 1, active |-> NoBonus]

SetRealBalance(d, x)  == [d EXCEPT !.real = x, !.total = x + d.bonus]
SetBonusBalance(d, x) == [d EXCEPT !.bonus = x, !.total = d.real + x]

\* Setting a bonus also sets the bonus balance to the bonus's amount.
SetActiveBonus(d, b) == [SetBonusBalance(d, WelcomeBonus) EXCEPT !.active = b]

\* The user every service creates on first sight: a start balance, the bonus.
AutoCreated(second) ==
  LET d == SetBonusBalance(SetActiveBonus(SetRealBalance(NewUser, StartBalance),
                                          NewBonus(second)), WelcomeBonus)
  IN  [d EXCEPT !.claimed = @ + 1]

\* A claim sets the bonus, and then adds its amount to the bonus balance.
Claimed(d, second) ==
  LET e == SetActiveBonus(d, NewBonus(second))
  IN  [SetBonusBalance(e, e.bonus + WelcomeBonus) EXCEPT !.claimed = @ + 1]

AllFromBonus(d, amount) == IF d.bonus > 0 THEN amount ELSE 0
BonusUsed(d, amount) == IF amount <= d.bonus THEN amount ELSE d.bonus
RealToo(d, amount) == amount
RealUsed(d, amount) == amount - BonusUsed(d, amount)

CanWager(d, amount) == /\ d.total >= amount
                       /\ RealUsed(d, amount) <= d.real

\* The deduction t that a validation computed, taken from the document d.
Placed(d, t, payout) ==
  LET e == SetBonusBalance(d, d.bonus - t.bonusUsed)
      f == SetRealBalance(e, e.real - t.realUsed + payout)
  IN  [f EXCEPT !.lifetime = @ + t.amount,
                !.active   = IF @.kind = "none" THEN @
                             ELSE AddWageringProgress(@, t.amount)]

Converted(d) ==
  LET e == SetBonusBalance(SetRealBalance(d, d.real + WelcomeBonus), 0)
  IN  [e EXCEPT !.active = NoBonus, !.completed = @ + 1]

(***************************************************************************)
(* What DocumentManager::flush writes.  A document built by this request   *)
(* has an assigned _id, so it is upserted and every field is set.  Of a    *)
(* document that was loaded, only the fields that changed since are set,   *)
(* to their new values; what the database holds by then is not compared.   *)
(***************************************************************************)
Changed(now, old, new) == IF new = old THEN now ELSE new

FlushedBonus(now, old, new) ==
  IF new.kind = "none" \/ old.kind = "none" \/ new = old
  THEN Changed(now, old, new)
  ELSE [kind    |-> IF now.kind = "none" THEN "partial" ELSE now.kind,
        id      |-> now.id,
        wagered |-> Changed(now.wagered, old.wagered, new.wagered),
        status  |-> Changed(now.status, old.status, new.status)]

Flushed(now, old, new) ==
  [real      |-> Changed(now.real, old.real, new.real),
   bonus     |-> Changed(now.bonus, old.bonus, new.bonus),
   total     |-> Changed(now.total, old.total, new.total),
   claimed   |-> Changed(now.claimed, old.claimed, new.claimed),
   completed |-> Changed(now.completed, old.completed, new.completed),
   lifetime  |-> Changed(now.lifetime, old.lifetime, new.lifetime),
   version   |-> Changed(now.version, old.version, new.version),
   active    |-> FlushedBonus(now.active, old.active, new.active)]
==============================================================================
