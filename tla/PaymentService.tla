---------------------------- MODULE PaymentService ----------------------------
(***************************************************************************)
(* The payment service (payment-service/src): one Node process that        *)
(* serves payments of ONE user.  Handlers interleave at every await.       *)
(* A payment changes the balance, then records a transaction, and then     *)
(* leaves an event to RabbitMQPublisher, which nobody awaits: the answer   *)
(* to the client does not depend on it.                                    *)
(*                                                                         *)
(* CreateOverwrites, ConnectAgain and RecordLate are faulty forms of the   *)
(* definition after them, no part of the specification.                    *)
(***************************************************************************)
EXTENDS Sums, FiniteSets, Functions

CONSTANTS Handlers,       \* payments being processed
          DefaultBalance, \* DEFAULT_BALANCE
          Nets,           \* payout less bet
          Failures,       \* whether a payment can end between two operations
          MaxPayments,    \* bound: payments begun
          MaxFaults,      \* bound: failed connects, closed connections, restarts
          NoUser          \* no document

ASSUME PaymentAssumption ==
  /\ IsFiniteSet(Handlers)
  /\ DefaultBalance \in Int /\ NoUser \notin Int
  /\ Nets \subseteq Int
  /\ Failures \in BOOLEAN
  /\ MaxPayments \in Nat /\ MaxFaults \in Nat

VARIABLES balance,      \* the user's balance in users, or NoUser
          transactions, \* the transactions collection
          pay,          \* what each handler is doing
          channel,      \* RabbitMQPublisher.channel
          connecting,   \* the payment whose event is making the connection, or 0
          events,       \* payments whose event was handed to a channel
          applied,      \* ghost: the changes of the balance, in order
          begun,        \* ghost: how many payments began
          cut,          \* ghost: how many ended with a balance changed, unrecorded
          connections,  \* ghost: connections to RabbitMQ begun
          faults        \* ghost: how many faults there were

books == <<balance, transactions, applied>>
ghosts == <<begun, cut>>
publisher == <<channel, connecting, events, connections, faults>>
vars == <<books, pay, ghosts, publisher>>

\* after is the balance that the payment's own operation left.
Payment == [at : {"idle", "create", "update", "record"}, n : Nat, net : Int, after : Int]

Transaction == [n : Nat, net : Int, balanceAfter : Int]

NoPayment == [at |-> "idle", n |-> 0, net |-> 0, after |-> 0]

\* "fresh": createChannel returned, and nobody listens for the close yet; "dead":
\* the connection closed in that state, so the field keeps a channel that throws.
Channels == {"none", "fresh", "open", "dead"}

Init ==
  /\ balance = NoUser /\ transactions = {} /\ applied = <<>>
  /\ pay = [h \in Handlers |-> NoPayment]
  /\ begun = 0 /\ cut = 0
  /\ channel = "none" /\ connecting = 0 /\ events = {}
  /\ connections = 0 /\ faults = 0

At(h, step) == pay[h].at = step
Finish(h) == pay' = [pay EXCEPT ![h] = NoPayment]
Unrecorded == {h \in Handlers : At(h, "record")}

------------------------------------------------------------------------------
\* findById decides which of the two writes comes next.
FindUser(h, net) ==
  /\ At(h, "idle")
  /\ begun < MaxPayments
  /\ begun' = begun + 1
  /\ pay' = [pay EXCEPT ![h] = [at |-> IF balance = NoUser THEN "create" ELSE "update",
                                n |-> begun + 1, net |-> net, after |-> 0]]
  /\ UNCHANGED <<books, cut, publisher>>

Apply(h, new) ==
  /\ balance' = new
  /\ applied' = Append(applied, pay[h].net)
  /\ pay' = [pay EXCEPT ![h].at = "record", ![h].after = new]
  /\ UNCHANGED <<transactions, ghosts, publisher>>

\* insertOne with the default balance and the change; a user another payment has
\* created since has the same _id, and the duplicate key ends this one.
CreateOverwrites(h) ==
  /\ At(h, "create")
  /\ Apply(h, DefaultBalance + pay[h].net)
CreateUser(h) ==
  /\ At(h, "create")
  /\ IF balance = NoUser THEN Apply(h, DefaultBalance + pay[h].net)
     ELSE Finish(h) /\ UNCHANGED <<books, ghosts, publisher>>

\* findOneAndUpdate with $inc, returning the document after it.
UpdateBalance(h) ==
  /\ At(h, "update")
  /\ Apply(h, balance + pay[h].net)

\* publishPaymentEvent of payment n, up to its first await: it publishes if there is
\* a channel.  If another event is making the connection, connect returns at once,
\* there is still no channel, and the event is lost; else this event makes it.
ConnectAgain(n) ==
  IF channel = "none"
  THEN connecting' = n /\ connections' = connections + 1 /\ UNCHANGED events
  ELSE events' = events \cup {n} /\ UNCHANGED <<connecting, connections>>

PublishEvent(n) ==
  \/ /\ channel \in {"fresh", "open"}
     /\ events' = events \cup {n}
     /\ UNCHANGED <<connecting, connections>>
  \/ /\ channel = "dead" \/ (channel = "none" /\ connecting # 0)
     /\ UNCHANGED <<events, connecting, connections>>
  \/ /\ channel = "none" /\ connecting = 0
     /\ connecting' = n
     /\ connections' = connections + 1
     /\ UNCHANGED events

RecordLate(h) ==
  /\ At(h, "record")
  /\ transactions' = transactions \cup
       {[n |-> pay[h].n, net |-> pay[h].net, balanceAfter |-> balance]}
  /\ PublishEvent(pay[h].n)
  /\ Finish(h)
  /\ UNCHANGED <<balance, applied, ghosts, channel, faults>>

\* The transaction is stored, its event is on its way, and the client is answered.
Record(h) ==
  /\ At(h, "record")
  /\ transactions' = transactions \cup
       {[n |-> pay[h].n, net |-> pay[h].net, balanceAfter |-> pay[h].after]}
  /\ PublishEvent(pay[h].n)
  /\ Finish(h)
  /\ UNCHANGED <<balance, applied, ghosts, channel, faults>>

------------------------------------------------------------------------------
\* connect, after its awaits: createChannel has returned, and then assertExchange
\* has too, the close listener is in place and the event that connected goes out.
ChannelCreated ==
  /\ connecting # 0 /\ channel = "none"
  /\ channel' = "fresh"
  /\ UNCHANGED <<books, pay, ghosts, connecting, events, connections, faults>>

Connected ==
  /\ connecting # 0 /\ channel = "fresh"
  /\ channel' = "open"
  /\ connecting' = 0
  /\ events' = events \cup {connecting}
  /\ UNCHANGED <<books, pay, ghosts, connections, faults>>

\* RabbitMQ refuses or goes away meanwhile; the error is caught and the event lost.
ConnectFails ==
  /\ faults < MaxFaults
  /\ connecting # 0
  /\ connecting' = 0
  /\ channel' = IF channel = "fresh" THEN "dead" ELSE "none"
  /\ faults' = faults + 1
  /\ UNCHANGED <<books, pay, ghosts, events, connections>>

\* The connection closes: the listener forgets the channel.
ConnectionCloses ==
  /\ faults < MaxFaults
  /\ channel = "open"
  /\ channel' = "none"
  /\ faults' = faults + 1
  /\ UNCHANGED <<books, pay, ghosts, connecting, events, connections>>

\* The pod is restarted, or an 'error' event without a listener ends the process.
Restart ==
  /\ Failures /\ faults < MaxFaults
  /\ pay' = [h \in Handlers |-> NoPayment]
  /\ channel' = "none" /\ connecting' = 0
  /\ faults' = faults + 1
  /\ cut' = cut + Cardinality(Unrecorded)
  /\ UNCHANGED <<books, begun, events, connections>>

\* MongoDB refuses an operation: the payment ends with an error.
PaymentFails(h) ==
  /\ Failures
  /\ ~At(h, "idle")
  /\ cut' = IF At(h, "record") THEN cut + 1 ELSE cut
  /\ Finish(h)
  /\ UNCHANGED <<books, begun, publisher>>

\* Requests that fail validation, metrics: nothing changes.
ReadOnly(h) == At(h, "idle") /\ UNCHANGED vars

Next ==
  \/ \E h \in Handlers :
       \/ \E net \in Nets : FindUser(h, net)
       \/ CreateUser(h) \/ UpdateBalance(h) \/ Record(h)
       \/ PaymentFails(h) \/ ReadOnly(h)
  \/ ChannelCreated \/ Connected \/ ConnectFails \/ ConnectionCloses \/ Restart

Spec == Init /\ [][Next]_vars

------------------------------------------------------------------------------
\* The balance is the default and every change ever applied: overlapping payments,
\* first ones included, lose none, and a failed one never undoes another's.
BalanceAddsUp == balance # NoUser => balance = DefaultBalance + Sum(applied)

\* The entries are a statement of account: each one's balance is the default and
\* the changes up to its own, in the order in which the balance saw them, and no
\* two entries are of the same change.
RunningTotal(entries) ==
  \E position \in [entries -> DOMAIN applied] :
    /\ IsInjective(position)
    /\ \A t \in entries :
         /\ applied[position[t]] = t.net
         /\ t.balanceAfter = DefaultBalance + Sums(applied)[position[t]]

\* Every change of the balance is on the statement, or about to be, unless its own
\* payment ended in between.
Complete == Cardinality(transactions) + Cardinality(Unrecorded) + cut = Len(applied)

\* The transactions are a running total and complete: a refused first payment leaves no
\* trace of itself, a payment that fails takes no other one's record with it, and
\* records stored in another order than the changes still add up.
StatementAddsUp == RunningTotal(transactions) /\ Complete

\* The publisher never has two connections: one is begun at most once per fault.
OneConnection == connections <= faults + 1
==============================================================================
