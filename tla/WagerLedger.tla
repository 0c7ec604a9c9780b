----------------------------- MODULE WagerLedger -----------------------------
(***************************************************************************)
(* What the wager service promises about one user: an account on which     *)
(* every operation is one indivisible step.  A wager is granted against    *)
(* the balances of the moment and settled later; a settlement moves the    *)
(* stake and the payout, counts towards the bonus and is recorded, all at  *)
(* once; a complete bonus may be converted.                                *)
(***************************************************************************)
EXTENDS UserBonus, FiniteSets

CONSTANTS Bets, Payouts, Seconds, NoAccount

VARIABLES account,   \* the user's document
          wagers,    \* settled wagers: number, stake, payout
          granted,   \* granted wagers that are not settled
          grants     \* how many were granted

vars == <<account, wagers, granted, grants>>

Init == /\ account = NoAccount
        /\ wagers = {} /\ granted = {} /\ grants = 0

Open(second) ==
  /\ account = NoAccount
  /\ account' \in {AutoCreated(second), Claimed(NewUser, second)}
  /\ UNCHANGED <<wagers, granted, grants>>

Grant(amount) ==
  /\ account # NoAccount
  /\ CanWager(account, amount)
  /\ account' = [account EXCEPT !.version = @ + 1]
  /\ grants' = grants + 1
  /\ granted' = granted \cup
       {[n |-> grants + 1, amount |-> amount, bonusUsed |-> BonusUsed(account, amount),
         realUsed |-> RealUsed(account, amount)]}
  /\ UNCHANGED wagers

Settle(t, payout) ==
  /\ account' = Placed(account, t, payout)
  /\ wagers' = wagers \cup {[n |-> t.n, amount |-> t.amount, payout |-> payout]}
  /\ granted' = granted \ {t}
  /\ UNCHANGED grants

Claim(second) ==
  /\ account # NoAccount
  /\ account.active.kind = "none"
  /\ account' = Claimed(account, second)
  /\ UNCHANGED <<wagers, granted, grants>>

Convert ==
  /\ account # NoAccount
  /\ account.active.kind = "whole"
  /\ IsComplete(account.active)
  /\ account' = Converted(account)
  /\ UNCHANGED <<wagers, granted, grants>>

Next ==
  \/ \E second \in Seconds : Open(second) \/ Claim(second)
  \/ \E amount \in Bets : Grant(amount)
  \/ \E t \in granted, payout \in Payouts : Settle(t, payout)
  \/ Convert

Spec == Init /\ [][Next]_vars
==============================================================================
