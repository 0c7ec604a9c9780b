------------------------- MODULE PaymentServiceProofs -------------------------
(***************************************************************************)
(* Theorems about the payment service, for every set of handlers, every    *)
(* default balance and every bound.                                        *)
(***************************************************************************)
EXTENDS PaymentService, SumsProofs, FiniteSetTheorems

------------------------------------------------------------------------------
(***************************************************************************)
(* The types.  A payment that increments a balance has seen one, and no    *)
(* operation removes it.                                                   *)
(***************************************************************************)
TypeInv ==
  /\ balance \in Int \cup {NoUser}
  /\ applied \in Seq(Int)
  /\ transactions \subseteq Transaction
  /\ pay \in [Handlers -> Payment]
  /\ channel \in Channels
  /\ connecting \in Nat /\ connections \in Nat /\ faults \in Nat
  /\ begun \in Nat
  /\ \A h \in Handlers : At(h, "update") => balance \in Int

\* An idle payment is a payment.
LEMMA NoPaymentOK == NoPayment \in Payment /\ NoPayment.at = "idle" /\ NoPayment.n = 0
  BY DEF NoPayment, Payment

\* Handing over an event keeps the types of the publisher.
LEMMA PublishTypes ==
  ASSUME TypeInv, NEW n \in Nat, PublishEvent(n)
  PROVE  connecting' \in Nat /\ connections' \in Nat
  BY DEF TypeInv, PublishEvent

\* A balance that is changed is an integer afterwards.
LEMMA ApplyTypes ==
  ASSUME TypeInv, NEW h \in Handlers, NEW new \in Int, Apply(h, new)
  PROVE  TypeInv'
<1>1. pay[h] \in Payment /\ pay[h].net \in Int
  BY DEF TypeInv, Payment
<1>2. [pay[h] EXCEPT !.at = "record", !.after = new] \in Payment
  BY <1>1 DEF Payment
<1>3. pay' = [pay EXCEPT ![h] = [pay[h] EXCEPT !.at = "record", !.after = new]]
  BY DEF Apply, TypeInv
<1>4. pay' \in [Handlers -> Payment]
  BY <1>2, <1>3 DEF TypeInv
<1>5. applied' \in Seq(Int) /\ balance' \in Int
  BY <1>1 DEF Apply, TypeInv
<1> QED
  BY <1>4, <1>5 DEF Apply, TypeInv, At, ghosts, publisher

\* Ending a payment keeps the types.
LEMMA FinishTypes ==
  ASSUME TypeInv, NEW h \in Handlers, Finish(h), UNCHANGED balance
  PROVE  /\ pay' \in [Handlers -> Payment]
         /\ \A g \in Handlers : At(g, "update")' => balance' \in Int
  BY NoPaymentOK DEF TypeInv, Finish, At

\* The types hold at the start.
LEMMA TypesHold == Init => TypeInv
  BY NoPaymentOK DEF Init, TypeInv, At, Channels

\* Every step keeps the types.
LEMMA TypesKept ==
  ASSUME TypeInv, [Next]_vars
  PROVE  TypeInv'
<1> USE PaymentAssumption DEF PaymentAssumption
<1>1. ASSUME NEW h \in Handlers, NEW net \in Nets, FindUser(h, net) PROVE TypeInv'
  <2> DEFINE p == [at |-> IF balance = NoUser THEN "create" ELSE "update",
                   n |-> begun + 1, net |-> net, after |-> 0]
  <2>1. p \in Payment
    BY DEF Payment, TypeInv
  <2>2. pay' \in [Handlers -> Payment]
    BY <1>1, <2>1 DEF FindUser, TypeInv
  <2>3. balance = NoUser \/ balance \in Int
    BY DEF TypeInv
  <2>4. \A g \in Handlers : pay'[g] = IF g = h THEN p ELSE pay[g]
    BY <1>1 DEF FindUser, TypeInv
  <2>5. \A g \in Handlers : At(g, "update")' => balance' \in Int
    BY <1>1, <2>3, <2>4 DEF FindUser, TypeInv, At, books
  <2> QED
    BY <1>1, <2>2, <2>5 DEF FindUser, TypeInv, books, publisher
<1>2. ASSUME NEW h \in Handlers, CreateUser(h) PROVE TypeInv'
  <2>1. CASE balance = NoUser
    <3>1. DefaultBalance + pay[h].net \in Int
      BY DEF TypeInv, Payment
    <3> QED
      BY <1>2, <2>1, <3>1, ApplyTypes DEF CreateUser
  <2>2. CASE balance # NoUser
    BY <1>2, <2>2, FinishTypes DEF CreateUser, TypeInv, books, ghosts, publisher
  <2> QED
    BY <2>1, <2>2
<1>3. ASSUME NEW h \in Handlers, UpdateBalance(h) PROVE TypeInv'
  <2>1. balance + pay[h].net \in Int
    BY <1>3 DEF UpdateBalance, TypeInv, Payment
  <2> QED
    BY <1>3, <2>1, ApplyTypes DEF UpdateBalance
<1>4. ASSUME NEW h \in Handlers, Record(h) PROVE TypeInv'
  <2>1. [n |-> pay[h].n, net |-> pay[h].net, balanceAfter |-> pay[h].after] \in Transaction
    BY DEF TypeInv, Payment, Transaction
  <2>2. pay[h].n \in Nat
    BY DEF TypeInv, Payment
  <2>3. connecting' \in Nat /\ connections' \in Nat
    BY <1>4, <2>2, PublishTypes DEF Record
  <2> QED
    BY <1>4, <2>1, <2>3, FinishTypes DEF Record, TypeInv, ghosts
<1>5. ASSUME NEW h \in Handlers, PaymentFails(h) PROVE TypeInv'
  BY <1>5, FinishTypes DEF PaymentFails, TypeInv, books, publisher
<1>6. CASE ChannelCreated \/ Connected \/ ConnectFails \/ ConnectionCloses
  BY <1>6 DEF ChannelCreated, Connected, ConnectFails, ConnectionCloses, TypeInv,
     Channels, books, ghosts, At
<1>7. CASE Restart
  BY <1>7, NoPaymentOK DEF Restart, TypeInv, Channels, books, At
<1>8. CASE UNCHANGED vars
  BY <1>8 DEF vars, books, ghosts, publisher, TypeInv, At
<1> QED
  BY <1>1, <1>2, <1>3, <1>4, <1>5, <1>6, <1>7, <1>8 DEF Next, ReadOnly

------------------------------------------------------------------------------
(***************************************************************************)
(* Connections.  One was begun that no fault has ended yet, exactly while  *)
(* there is a channel or an event is making one.                           *)
(***************************************************************************)
Working == channel # "none" \/ connecting # 0

\* A payment that is under way has a number, which no other one has; those whose
\* transaction is stored are over.
PaymentsNumbered ==
  /\ \A h \in Handlers : ~At(h, "idle") => pay[h].n \in 1 .. begun
  /\ \A g, h \in Handlers : ~At(g, "idle") /\ ~At(h, "idle") /\ pay[g].n = pay[h].n => g = h
  /\ \A t \in transactions : t.n \in 1 .. begun
  /\ \A t \in transactions, h \in Handlers : ~At(h, "idle") => t.n # pay[h].n

ConnectionInv ==
  /\ TypeInv
  /\ PaymentsNumbered
  /\ connections <= faults + (IF Working THEN 1 ELSE 0)

\* The numbers are kept.
LEMMA NumbersKept ==
  ASSUME TypeInv, PaymentsNumbered, [Next]_vars
  PROVE  PaymentsNumbered'
<1> USE PaymentAssumption DEF PaymentAssumption
<1>1. ASSUME NEW h \in Handlers, NEW net \in Nets, FindUser(h, net) PROVE PaymentsNumbered'
  <2>1. /\ pay'[h].n = begun + 1
        /\ \A g \in Handlers : g # h => pay'[g] = pay[g]
        /\ begun' = begun + 1 /\ begun \in Nat /\ transactions' = transactions
    BY <1>1 DEF FindUser, TypeInv, books
  <2> QED
    BY <2>1 DEF PaymentsNumbered, At
<1>2. ASSUME NEW h \in Handlers, NEW new \in Int, Apply(h, new), ~At(h, "idle")
      PROVE  PaymentsNumbered'
  <2>1. /\ pay'[h].n = pay[h].n
        /\ \A g \in Handlers : g # h => pay'[g] = pay[g]
        /\ begun' = begun /\ transactions' = transactions
    BY <1>2 DEF Apply, TypeInv, Payment, ghosts
  <2> QED
    BY <1>2, <2>1 DEF PaymentsNumbered, At
<1>3. ASSUME NEW h \in Handlers, Finish(h), begun' = begun,
             \A t \in transactions' :
               t \in transactions \/ (t.n = pay[h].n /\ ~At(h, "idle"))
      PROVE  PaymentsNumbered'
  <2>1. /\ pay'[h].at = "idle"
        /\ \A g \in Handlers : g # h => pay'[g] = pay[g]
    BY <1>3, NoPaymentOK DEF Finish, TypeInv
  <2> QED
    BY <1>3, <2>1 DEF PaymentsNumbered, At
<1>4. ASSUME NEW h \in Handlers, CreateUser(h) PROVE PaymentsNumbered'
  <2>1. DefaultBalance + pay[h].net \in Int /\ ~At(h, "idle")
    BY <1>4 DEF CreateUser, TypeInv, Payment, At
  <2>2. CASE balance = NoUser
    BY <1>2, <1>4, <2>1, <2>2 DEF CreateUser
  <2>3. CASE balance # NoUser
    BY <1>3, <1>4, <2>3 DEF CreateUser, books, ghosts
  <2> QED
    BY <2>2, <2>3
<1>5. ASSUME NEW h \in Handlers, UpdateBalance(h) PROVE PaymentsNumbered'
  <2>1. balance + pay[h].net \in Int /\ ~At(h, "idle")
    BY <1>5 DEF UpdateBalance, TypeInv, Payment, At
  <2> QED
    BY <1>2, <1>5, <2>1 DEF UpdateBalance
<1>6. ASSUME NEW h \in Handlers, Record(h) PROVE PaymentsNumbered'
  BY <1>3, <1>6 DEF Record, At, ghosts
<1>7. ASSUME NEW h \in Handlers, PaymentFails(h) PROVE PaymentsNumbered'
  BY <1>3, <1>7 DEF PaymentFails, books
<1>8. CASE ChannelCreated \/ Connected \/ ConnectFails \/ ConnectionCloses
  BY <1>8 DEF ChannelCreated, Connected, ConnectFails, ConnectionCloses, books, ghosts,
     PaymentsNumbered, At
<1>9. CASE Restart
  BY <1>9, NoPaymentOK DEF Restart, books, PaymentsNumbered, At
<1>10. CASE UNCHANGED vars
  BY <1>10 DEF vars, books, ghosts, publisher, PaymentsNumbered, At
<1> QED
  BY <1>1, <1>4, <1>5, <1>6, <1>7, <1>8, <1>9, <1>10 DEF Next, ReadOnly

\* Only an event that finds neither a channel nor another event connecting begins
\* a connection.
LEMMA ConnectionsKept ==
  ASSUME ConnectionInv, [Next]_vars
  PROVE  (connections <= faults + (IF Working THEN 1 ELSE 0))'
<1> USE DEF TypeInv
<1>1. ASSUME NEW h \in Handlers, Record(h)
      PROVE  (connections <= faults + (IF Working THEN 1 ELSE 0))'
  <2>1. pay[h].n # 0
    BY <1>1 DEF Record, ConnectionInv, PaymentsNumbered, At
  <2> QED
    BY <1>1, <2>1 DEF Record, PublishEvent, Working, ConnectionInv
<1>2. CASE ChannelCreated \/ Connected \/ ConnectFails \/ ConnectionCloses \/ Restart
  BY <1>2 DEF ChannelCreated, Connected, ConnectFails, ConnectionCloses, Restart,
     Working, ConnectionInv
<1>3. CASE UNCHANGED publisher
  BY <1>3 DEF publisher, Working, ConnectionInv
<1>4. [Next]_vars =>
        \/ \E h \in Handlers : Record(h)
        \/ ChannelCreated \/ Connected \/ ConnectFails \/ ConnectionCloses \/ Restart
        \/ UNCHANGED publisher
  BY DEF Next, FindUser, CreateUser, UpdateBalance, Apply, PaymentFails, ReadOnly, vars
<1> QED
  BY <1>1, <1>2, <1>3, <1>4

\* Types, numbers and the count of connections hold in every state.
LEMMA ConnectionInvariant == Spec => []ConnectionInv
<1>1. Init => ConnectionInv
  BY TypesHold DEF Init, ConnectionInv, PaymentsNumbered, At, NoPayment
<1>2. ConnectionInv /\ [Next]_vars => ConnectionInv'
  BY TypesKept, NumbersKept, ConnectionsKept DEF ConnectionInv
<1> QED
  BY <1>1, <1>2, PTL DEF Spec

\* RabbitMQPublisher.connect, entered from any number of events, begins one
\* connection at most per fault, so there are never two at once.
THEOREM NeverTwoConnections == Spec => []OneConnection
<1>1. ConnectionInv => OneConnection
  BY DEF ConnectionInv, TypeInv, OneConnection
<1> QED
  BY <1>1, ConnectionInvariant, PTL

------------------------------------------------------------------------------
(***************************************************************************)
(* The balance and the statement.  The invariant is about the entries: the *)
(* transactions, and those that payments are about to store.  A payment    *)
(* that changes the balance makes an entry, and nothing else does; storing *)
(* it changes no entry; and what ends early can only take its own away.    *)
(***************************************************************************)
Entry(p) == [n |-> p.n, net |-> p.net, balanceAfter |-> p.after]
Entries == transactions \cup {Entry(pay[h]) : h \in Unrecorded}

BooksInv ==
  /\ IsFiniteSet(transactions) /\ cut \in Nat
  /\ balance = NoUser => applied = <<>>
  /\ BalanceAddsUp
  /\ RunningTotal(Entries)
  /\ Complete

\* The counts are natural numbers.
LEMMA CountTypes ==
  ASSUME BooksInv
  PROVE  /\ IsFiniteSet(Unrecorded) /\ Cardinality(Unrecorded) \in Nat
         /\ Cardinality(transactions) \in Nat /\ cut \in Nat
<1>1. Unrecorded \subseteq Handlers /\ IsFiniteSet(Handlers)
  BY PaymentAssumption DEF PaymentAssumption, Unrecorded
<1>2. IsFiniteSet(Unrecorded)
  BY <1>1, FS_Subset
<1> QED
  BY <1>2, FS_CardinalityType DEF BooksInv

\* Fewer entries are a statement still, of as many changes or fewer.
LEMMA FewerEntries ==
  ASSUME NEW S, NEW T, S \subseteq T, RunningTotal(T)
  PROVE  RunningTotal(S)
<1>1. PICK p \in [T -> DOMAIN applied] :
        /\ IsInjective(p)
        /\ \A t \in T : /\ applied[p[t]] = t.net
                        /\ t.balanceAfter = DefaultBalance + Sums(applied)[p[t]]
  BY DEF RunningTotal
<1> DEFINE q == [t \in S |-> p[t]]
<1>2. q \in [S -> DOMAIN applied] /\ \A t \in S : q[t] = p[t]
  BY <1>1
<1>3. IsInjective(q)
  BY <1>1, <1>2 DEF IsInjective
<1> HIDE DEF q
<1> QED
  BY <1>1, <1>2, <1>3 DEF RunningTotal

\* A change of the balance and its entry extend the statement.
LEMMA OneMoreEntry ==
  ASSUME applied \in Seq(Int), NEW T, RunningTotal(T), NEW net \in Int, NEW e, e \notin T,
         applied' = Append(applied, net),
         e.net = net, e.balanceAfter = DefaultBalance + Sum(applied')
  PROVE  RunningTotal(T \cup {e})'
<1> DEFINE n == Len(applied) + 1
<1>1. PICK p \in [T -> DOMAIN applied] :
        /\ IsInjective(p)
        /\ \A t \in T : /\ applied[p[t]] = t.net
                        /\ t.balanceAfter = DefaultBalance + Sums(applied)[p[t]]
  BY DEF RunningTotal
<1>2. /\ DOMAIN applied = 1 .. Len(applied) /\ Len(applied) \in Nat
      /\ DOMAIN applied' = 1 .. n /\ Len(applied') = n /\ applied'[n] = net
      /\ \A i \in DOMAIN applied : applied'[i] = applied[i]
  OBVIOUS
<1>3. \A i \in DOMAIN applied : Sums(applied')[i] = Sums(applied)[i]
  <2>1. \A i \in 0 .. Len(applied) : Sums(applied')[i] = Sums(applied)[i]
    BY SumAppend
  <2> QED
    BY <1>2, <2>1
<1>4. Sum(applied') = Sums(applied')[n]
  BY <1>2 DEF Sum
<1> DEFINE q == [t \in T \cup {e} |-> IF t = e THEN n ELSE p[t]]
<1>5. /\ q \in [T \cup {e} -> DOMAIN applied'] /\ q[e] = n
      /\ \A t \in T : q[t] = p[t] /\ q[t] \in DOMAIN applied
  BY <1>1, <1>2
<1>6. \A i \in DOMAIN applied : i # n
  BY <1>2
<1> HIDE DEF q, n
<1>7. IsInjective(q)
  BY <1>1, <1>5, <1>6 DEF IsInjective
<1>8. \A t \in T \cup {e} :
        /\ applied'[q[t]] = t.net
        /\ t.balanceAfter = DefaultBalance + Sums(applied')[q[t]]
  <2>1. ASSUME NEW t \in T
        PROVE  /\ applied'[q[t]] = t.net
               /\ t.balanceAfter = DefaultBalance + Sums(applied')[q[t]]
    BY <1>1, <1>2, <1>3, <1>5
  <2>2. applied'[n] = net /\ Sum(applied') = Sums(applied')[n]
    BY <1>2, <1>4
  <2> QED
    BY <1>5, <2>1, <2>2
<1> QED
  BY <1>5, <1>7, <1>8 DEF RunningTotal

\* A change of the balance keeps the books, when it leaves what the payment says.
LEMMA ApplyKeepsBooks ==
  ASSUME TypeInv, PaymentsNumbered, BooksInv,
         NEW h \in Handlers, At(h, "create") \/ At(h, "update"),
         NEW new \in Int, Apply(h, new),
         new = DefaultBalance + (Sum(applied) + pay[h].net)
  PROVE  BooksInv'
<1>e. PICK e : e = Entry([pay[h] EXCEPT !.at = "record", !.after = new])
  OBVIOUS
<1>1. pay[h] \in Payment /\ pay[h].net \in Int /\ applied \in Seq(Int)
  BY DEF TypeInv, Payment
<1>2. e.n = pay[h].n /\ e.net = pay[h].net /\ e.balanceAfter = new
  BY <1>e, <1>1 DEF Entry, Payment
<1>3. /\ pay' = [pay EXCEPT ![h] = [pay[h] EXCEPT !.at = "record", !.after = new]]
      /\ balance' = new /\ applied' = Append(applied, pay[h].net)
      /\ UNCHANGED <<transactions, cut>>
  BY DEF Apply, ghosts, TypeInv
<1>4. /\ Entry(pay'[h]) = e /\ pay'[h].at = "record"
      /\ \A g \in Handlers : g # h => pay'[g] = pay[g]
  BY <1>e, <1>1, <1>3 DEF TypeInv, Payment
<1>5. Unrecorded' = Unrecorded \cup {h} /\ h \notin Unrecorded
  BY <1>4 DEF Unrecorded, At
<1>6. Entries' = Entries \cup {e}
  <2>1. Entries' = transactions \cup {Entry(pay'[g]) : g \in Unrecorded \cup {h}}
    BY <1>3, <1>5 DEF Entries
  <2>2. \A g \in Unrecorded : Entry(pay'[g]) = Entry(pay[g])
    BY <1>4, <1>5 DEF Unrecorded
  <2> QED
    BY <1>4, <2>1, <2>2 DEF Entries
<1>7. e \notin Entries
  <2>1. \A t \in transactions : t.n # e.n
    BY <1>2 DEF PaymentsNumbered, At
  <2>2. \A g \in Unrecorded : Entry(pay[g]).n # e.n
    BY <1>2, <1>5 DEF PaymentsNumbered, At, Unrecorded, Entry
  <2> QED
    BY <2>1, <2>2 DEF Entries
<1>8. Sum(applied') = Sum(applied) + pay[h].net
  BY <1>1, <1>3, SumAppend
<1>9. RunningTotal(Entries)'
  <2>1. PICK T : T = Entries
    OBVIOUS
  <2>2. RunningTotal(T) /\ e.balanceAfter = DefaultBalance + Sum(applied')
    BY <1>2, <1>8, <2>1 DEF BooksInv
  <2>3. RunningTotal(T \cup {e})'
    BY <1>1, <1>2, <1>3, <1>7, <2>1, <2>2, OneMoreEntry
  <2> QED
    BY <1>6, <2>1, <2>3 DEF RunningTotal
<1>10. BalanceAddsUp'
  BY <1>3, <1>8 DEF BalanceAddsUp
<1>11. Complete'
  <2>1. Cardinality(Unrecorded') = Cardinality(Unrecorded) + 1
    BY <1>5, CountTypes, FS_AddElement
  <2>2. Len(applied') = Len(applied) + 1
    BY <1>1, <1>3
  <2> QED
    BY <1>3, <2>1, <2>2, CountTypes DEF BooksInv, Complete
<1>12. balance' # NoUser
  BY <1>3, PaymentAssumption DEF PaymentAssumption
<1> QED
  BY <1>3, <1>9, <1>10, <1>11, <1>12 DEF BooksInv

\* A step that changes neither balance nor transactions and makes no entry keeps
\* the books when it accounts for the entries that end unstored.
LEMMA OthersKeepBooks ==
  ASSUME BooksInv, UNCHANGED books, cut' \in Nat,
         Unrecorded' \subseteq Unrecorded,
         \A h \in Unrecorded' : pay'[h] = pay[h],
         Cardinality(Unrecorded') + cut' = Cardinality(Unrecorded) + cut
  PROVE  BooksInv'
<1>1. Entries' \subseteq Entries
  BY DEF Entries, books
<1>2. RunningTotal(Entries)'
  <2>1. PICK T : T = Entries'
    OBVIOUS
  <2>2. RunningTotal(T)
    BY <1>1, <2>1, FewerEntries DEF BooksInv
  <2> QED
    BY <2>1, <2>2 DEF RunningTotal, books
<1>3. Complete'
  <2>1. Unrecorded' \subseteq Unrecorded /\ IsFiniteSet(Unrecorded)
    BY CountTypes
  <2>2. Cardinality(Unrecorded') \in Nat
    BY <2>1, FS_Subset, FS_CardinalityType
  <2> QED
    BY <2>2, CountTypes DEF BooksInv, Complete, books
<1> QED
  BY <1>2, <1>3 DEF BooksInv, BalanceAddsUp, books

\* Every step keeps the books.
LEMMA BooksKept ==
  ASSUME TypeInv, PaymentsNumbered, BooksInv, [Next]_vars
  PROVE  BooksInv'
<1> USE PaymentAssumption DEF PaymentAssumption
<1>t. pay \in [Handlers -> Payment] /\ applied \in Seq(Int) /\ cut \in Nat
  BY DEF TypeInv, BooksInv
<1>s. Sum(applied) \in Int /\ \A h \in Handlers : pay[h].net \in Int
  BY <1>t, SumsSteps DEF Payment
<1>q. ASSUME UNCHANGED <<books, cut>>, Unrecorded' = Unrecorded,
             \A h \in Unrecorded : pay'[h] = pay[h]
      PROVE  BooksInv'
  BY <1>q, <1>t, OthersKeepBooks
<1>1. ASSUME NEW h \in Handlers, NEW net \in Nets, FindUser(h, net) PROVE BooksInv'
  <2>1. /\ UNCHANGED <<books, cut>> /\ pay[h].at = "idle"
        /\ pay'[h].at # "record" /\ \A g \in Handlers : g # h => pay'[g] = pay[g]
    BY <1>1, <1>t DEF FindUser, At
  <2>2. Unrecorded' = Unrecorded /\ \A g \in Unrecorded : g # h
    BY <2>1 DEF Unrecorded, At
  <2> QED
    BY <1>q, <2>1, <2>2 DEF Unrecorded
<1>2. ASSUME NEW h \in Handlers, CreateUser(h) PROVE BooksInv'
  <2>1. CASE balance = NoUser
    <3>1. Sum(applied) = 0
      BY <2>1, SumEmpty DEF BooksInv
    <3>2. DefaultBalance + pay[h].net = DefaultBalance + (Sum(applied) + pay[h].net)
          /\ DefaultBalance + pay[h].net \in Int
      BY <1>s, <3>1
    <3> QED
      BY <1>2, <2>1, <3>2, ApplyKeepsBooks DEF CreateUser
  <2>2. CASE balance # NoUser
    <3>1. /\ UNCHANGED <<books, cut>> /\ pay[h].at = "create"
          /\ pay'[h].at = "idle" /\ \A g \in Handlers : g # h => pay'[g] = pay[g]
      BY <1>2, <1>t, <2>2, NoPaymentOK DEF CreateUser, Finish, At, ghosts
    <3>2. Unrecorded' = Unrecorded /\ \A g \in Unrecorded : g # h
      BY <3>1 DEF Unrecorded, At
    <3> QED
      BY <1>q, <3>1, <3>2 DEF Unrecorded
  <2> QED
    BY <2>1, <2>2
<1>3. ASSUME NEW h \in Handlers, UpdateBalance(h) PROVE BooksInv'
  <2>1. balance \in Int /\ balance = DefaultBalance + Sum(applied)
    BY <1>3 DEF UpdateBalance, TypeInv, BooksInv, BalanceAddsUp
  <2>2. balance + pay[h].net = DefaultBalance + (Sum(applied) + pay[h].net)
        /\ balance + pay[h].net \in Int
    BY <1>s, <2>1
  <2> QED
    BY <1>3, <2>2, ApplyKeepsBooks DEF UpdateBalance
<1>4. ASSUME NEW h \in Handlers, Record(h) PROVE BooksInv'
  <2> DEFINE e == Entry(pay[h])
  <2>1. /\ transactions' = transactions \cup {e} /\ h \in Unrecorded
        /\ UNCHANGED <<balance, applied, cut>>
        /\ pay'[h].at = "idle" /\ \A g \in Handlers : g # h => pay'[g] = pay[g]
    BY <1>4, <1>t, NoPaymentOK DEF Record, Finish, At, Unrecorded, Entry, ghosts
  <2>2. Unrecorded' = Unrecorded \ {h}
    BY <2>1 DEF Unrecorded, At
  <2>3. e \notin transactions
    BY <2>1 DEF PaymentsNumbered, Unrecorded, At, Entry
  <2>4. Entries' = Entries
    <3>1. \A g \in Unrecorded' : pay'[g] = pay[g]
      BY <2>1, <2>2 DEF Unrecorded
    <3> QED
      BY <2>1, <2>2, <3>1 DEF Entries
  <2> HIDE DEF e
  <2>5. RunningTotal(Entries)'
    BY <2>1, <2>4 DEF BooksInv, RunningTotal
  <2>6. IsFiniteSet(transactions') /\ Cardinality(transactions') = Cardinality(transactions) + 1
    BY <2>1, <2>3, FS_AddElement DEF BooksInv
  <2>7. Cardinality(Unrecorded') = Cardinality(Unrecorded) - 1
    BY <2>1, <2>2, CountTypes, FS_RemoveElement
  <2>8. Complete'
    BY <2>1, <2>6, <2>7, CountTypes DEF BooksInv, Complete
  <2> QED
    BY <1>t, <2>1, <2>5, <2>6, <2>8 DEF BooksInv, BalanceAddsUp
<1>5. ASSUME NEW h \in Handlers, PaymentFails(h) PROVE BooksInv'
  <2>1. /\ UNCHANGED books /\ cut' = IF At(h, "record") THEN cut + 1 ELSE cut
        /\ pay'[h].at = "idle" /\ \A g \in Handlers : g # h => pay'[g] = pay[g]
    BY <1>5, <1>t, NoPaymentOK DEF PaymentFails, Finish
  <2>2. Unrecorded' = Unrecorded \ {h}
    BY <2>1 DEF Unrecorded, At
  <2>3. Cardinality(Unrecorded') =
          IF h \in Unrecorded THEN Cardinality(Unrecorded) - 1 ELSE Cardinality(Unrecorded)
    BY <2>2, CountTypes, FS_RemoveElement
  <2>4. h \in Unrecorded <=> At(h, "record")
    BY DEF Unrecorded
  <2>5. cut' \in Nat /\ Cardinality(Unrecorded') + cut' = Cardinality(Unrecorded) + cut
    BY <1>t, <2>1, <2>3, <2>4, CountTypes
  <2>6. \A g \in Unrecorded' : pay'[g] = pay[g]
    BY <2>1, <2>2 DEF Unrecorded
  <2> QED
    BY <2>1, <2>2, <2>5, <2>6, OthersKeepBooks
<1>6. CASE ChannelCreated \/ Connected \/ ConnectFails \/ ConnectionCloses \/ UNCHANGED vars
  <2>1. UNCHANGED <<books, cut, pay>>
    BY <1>6 DEF ChannelCreated, Connected, ConnectFails, ConnectionCloses, ghosts, vars
  <2> QED
    BY <1>q, <2>1 DEF Unrecorded, At
<1>7. CASE Restart
  <2>1. /\ UNCHANGED books /\ cut' = cut + Cardinality(Unrecorded)
        /\ pay' = [h \in Handlers |-> NoPayment]
    BY <1>7 DEF Restart
  <2>2. Unrecorded' = {}
    BY <2>1, NoPaymentOK DEF Unrecorded, At
  <2>3. Cardinality(Unrecorded') = 0
    BY <2>2, FS_EmptySet
  <2>4. cut' \in Nat /\ Cardinality(Unrecorded') + cut' = Cardinality(Unrecorded) + cut
    BY <1>t, <2>1, <2>3, CountTypes
  <2> QED
    BY <2>1, <2>2, <2>4, OthersKeepBooks
<1> QED
  BY <1>1, <1>2, <1>3, <1>4, <1>5, <1>6, <1>7 DEF Next, ReadOnly

\* The books are in order in every state.
LEMMA BooksInvariant == Spec => [](ConnectionInv /\ BooksInv)
<1>1. Init => BooksInv
  <2> SUFFICES ASSUME Init PROVE BooksInv
    OBVIOUS
  <2>1. /\ balance = NoUser /\ transactions = {} /\ applied = <<>> /\ cut = 0
        /\ Unrecorded = {}
    BY NoPaymentOK DEF Init, Unrecorded, At
  <2>2. IsFiniteSet({}) /\ Cardinality({}) = 0 /\ Len(<<>>) = 0
    BY FS_EmptySet
  <2>3. RunningTotal(Entries)
    <3>1. Entries = {}
      BY <2>1 DEF Entries
    <3> DEFINE p == [t \in {} |-> 1]
    <3>2. p \in [{} -> DOMAIN applied] /\ IsInjective(p)
      BY DEF IsInjective
    <3> HIDE DEF p
    <3> QED
      BY <3>1, <3>2 DEF RunningTotal
  <2> QED
    BY <2>1, <2>2, <2>3 DEF BooksInv, BalanceAddsUp, Complete
<1>2. ConnectionInv /\ BooksInv /\ [Next]_vars => BooksInv'
  BY BooksKept DEF ConnectionInv
<1> QED
  BY <1>1, <1>2, ConnectionInvariant, PTL DEF Spec

\* No change of the balance is lost or applied twice, whatever overlaps or fails
\* (updateBalance and createWithBalance, MongoUserRepository.js:30-53).
THEOREM BalanceIsSum == Spec => []BalanceAddsUp
<1>1. BooksInv => BalanceAddsUp
  BY DEF BooksInv
<1> QED
  BY <1>1, BooksInvariant, PTL

\* The transactions are a running total of the changes, and lack none but those of
\* payments that ended between their two writes (execute, ProcessPaymentUseCase.js:48).
THEOREM StatementIsComplete == Spec => []StatementAddsUp
<1>1. BooksInv => StatementAddsUp
  BY FewerEntries DEF BooksInv, StatementAddsUp, Entries
<1> QED
  BY <1>1, BooksInvariant, PTL
==============================================================================
