-------------------------- MODULE SettlementProofs --------------------------
(***************************************************************************)
(* Proofs about the two settlements of orders: what customers get back     *)
(* (Rebates, which keeps the promise of SettledOnce and its own books) and *)
(* what vendors are paid (Marketplace), for any number of customers,       *)
(* vendors, orders, jobs, requests and failures.                           *)
(***************************************************************************)
EXTENDS Rebates, Marketplace, SumTheorems, SequenceTheorems

USE DEF Ids

Stages == {"idle", "read", "write", "complete"}

Statuses == {"available", "running", "completed"}
JobRow == [ref : Months, status : Statuses, owed : SUBSET Accounts]

\* What the other parts rest on; of the type invariant, the half that matters.
Typed ==
  /\ month \in Months
  /\ order \in Seq(OrderRow)
  /\ frequency \in Frequencies
  /\ job \in Seq(JobRow)
  /\ pc \in [Workers -> Stages]
  /\ DOMAIN run = Workers
  /\ \A w \in Workers : pc[w] # "idle" => run[w].key \in Periods

-----------------------------------------------------------------------------
(* Periods                                                                 *)

(* A month is in a period's window exactly when the period is the one of   *)
(* that month (PeriodWindow).                                              *)
LEMMA WindowIsPeriod ==
  ASSUME NEW p \in Periods, NEW m \in Months
  PROVE  /\ m \in Window(p) <=> Key(p[1], m) = p
         /\ p[2] \in Nat /\ Length[p[1]] \in Nat
  <1>1. PICK f \in Frequencies, k \in Months : p = <<f, Start(f, k)>>
    BY DEF Periods, Key
  <1>2. f \in {"monthly", "quarterly", "annual"}
    BY RebatesAssumption DEF Length
  <1>3. m \in Nat /\ k \in Nat
    BY RebatesAssumption DEF Months
  <1>4. CASE f = "monthly"
    <2>1. Length[f] = 1
      BY <1>4 DEF Length
    <2> QED BY <1>1, <1>3, <2>1 DEF Window, Key, Start
  <1>5. CASE f = "quarterly"
    <2>1. Length[f] = 3
      BY <1>5 DEF Length
    <2> QED BY <1>1, <1>3, <2>1 DEF Window, Key, Start
  <1>6. CASE f = "annual"
    <2>1. Length[f] = 12
      BY <1>6 DEF Length
    <2> QED BY <1>1, <1>3, <2>1 DEF Window, Key, Start
  <1> QED BY <1>2, <1>4, <1>5, <1>6

-----------------------------------------------------------------------------
(* What every step leaves alone                                            *)

(* A sequence with an element replaced, or none, is one still.             *)
LEMMA ReplacedStays ==
  ASSUME NEW S, NEW seq \in Seq(S), NEW k, NEW e, k \in Ids(seq) => e \in S
  PROVE  [seq EXCEPT ![k] = e] \in Seq(S)
  <1>1. CASE k \in Ids(seq)
    BY <1>1, ExceptSeq
  <1>2. CASE k \notin Ids(seq)
    <2>1. seq = [i \in Ids(seq) |-> seq[i]]
      OBVIOUS
    <2>2. [seq EXCEPT ![k] = e] = seq
      BY <1>2, <2>1
    <2> QED BY <2>2
  <1> QED BY <1>1, <1>2

(* A job may change its status and what it owes (Take, Requeue, Complete). *)
LEMMA JobRowStays ==
  ASSUME job \in Seq(JobRow), NEW k, NEW s \in Statuses, NEW o \in SUBSET Accounts
  PROVE  /\ [job EXCEPT ![k].status = s] \in Seq(JobRow)
         /\ [job EXCEPT ![k] = [@ EXCEPT !.status = s, !.owed = o]] \in Seq(JobRow)
  <1>1. \A j \in Ids(job) : job[j] \in JobRow
    OBVIOUS
  <1>2. \A j \in Ids(job) : /\ [job[j] EXCEPT !.status = s] \in JobRow
                            /\ [job[j] EXCEPT !.status = s, !.owed = o] \in JobRow
    BY <1>1 DEF JobRow
  <1>3. [job EXCEPT ![k] = [job[k] EXCEPT !.status = s]] \in Seq(JobRow)
    BY <1>2, ReplacedStays
  <1>4. [job EXCEPT ![k] = [job[k] EXCEPT !.status = s, !.owed = o]] \in Seq(JobRow)
    BY <1>2, ReplacedStays
  <1> QED BY <1>3, <1>4

(* An order is cancelled, or stands from now on (CancelOrder, Stand).      *)
LEMMA OneOrderMoves ==
  ASSUME order \in Seq(OrderRow), CommitOrder \/ ReviveOrder \/ CancelOrder
  PROVE  \E n \in Ids(order) :
           \/ order' = [order EXCEPT ![n] = [order[n] EXCEPT !.status = "cancelled"]]
           \/ order' = [order EXCEPT ![n] = [order[n] EXCEPT !.status = "stands", !.since = month]]
  <1>1. CASE CommitOrder \/ ReviveOrder
    <2>1. PICK n \in Ids(order) :
            order' = [order EXCEPT ![n].status = "stands", ![n].since = month]
      BY <1>1 DEF CommitOrder, ReviveOrder, Stand
    <2>2. order[n] \in OrderRow /\ n \in DOMAIN order
      OBVIOUS
    <2>3. order' = [order EXCEPT ![n] = [order[n] EXCEPT !.status = "stands", !.since = month]]
      BY <2>1, <2>2 DEF OrderRow
    <2> QED BY <2>3
  <1>2. CASE CancelOrder
    BY <1>2 DEF CancelOrder
  <1> QED BY <1>1, <1>2

(* Tables and workers keep their shape (Rebates' actions).                 *)
LEMMA TypedNext ==
  ASSUME Typed, [Next]_vars
  PROVE  Typed'
  <1> USE DEF Typed, Stages
  <1>1. CASE PlaceOrder
    <2>1. PICK cart \in Carts :
            order' = Append(order, [customer |-> cart.customer, month |-> month,
                                    subtotal |-> cart.subtotal, status |-> "open",
                                    since |-> month])
      BY <1>1 DEF PlaceOrder
    <2>2. [customer |-> cart.customer, month |-> month, subtotal |-> cart.subtotal,
           status |-> "open", since |-> month] \in OrderRow
      BY RebatesAssumption DEF OrderRow
    <2>3. order' \in Seq(OrderRow)
      BY <2>1, <2>2, AppendProperties
    <2> QED BY <1>1, <2>3 DEF PlaceOrder, program
  <1>2. CASE CommitOrder \/ ReviveOrder \/ CancelOrder
    <2>1. \A n \in Ids(order) :
            /\ [order[n] EXCEPT !.status = "cancelled"] \in OrderRow
            /\ [order[n] EXCEPT !.status = "stands", !.since = month] \in OrderRow
      <3>1. \A n \in Ids(order) : order[n] \in OrderRow
        OBVIOUS
      <3> QED BY <3>1 DEF OrderRow
    <2>2. PICK n \in Ids(order) :
            \/ order' = [order EXCEPT ![n] = [order[n] EXCEPT !.status = "cancelled"]]
            \/ order' = [order EXCEPT ![n] = [order[n] EXCEPT !.status = "stands", !.since = month]]
      BY <1>2, OneOrderMoves
    <2>3. PICK e \in OrderRow : order' = [order EXCEPT ![n] = e]
      BY <2>1, <2>2
    <2>4. order' \in Seq(OrderRow)
      BY <2>3, ReplacedStays
    <2> QED BY <1>2, <2>4 DEF CommitOrder, ReviveOrder, CancelOrder, Change, program
  <1>3. CASE NextMonth
    <2>1. month' \in Months
      BY <1>3, RebatesAssumption DEF NextMonth, Months
    <2> QED BY <1>3, <2>1 DEF NextMonth, program
  <1>4. CASE AddTier \/ DeleteTier
    BY <1>4 DEF AddTier, DeleteTier, Change, program
  <1>5. CASE UpdateProgram
    BY <1>5 DEF UpdateProgram, Change, program
  <1>6. CASE EnqueueSettle
    <2>1. PICK ref \in Months :
            job' = Append(job, [ref |-> ref, status |-> "available", owed |-> {}])
      BY <1>6 DEF EnqueueSettle
    <2>2. [ref |-> ref, status |-> "available", owed |-> {}] \in JobRow
      BY DEF JobRow, Statuses
    <2>3. job' \in Seq(JobRow)
      BY <2>1, <2>2, AppendProperties
    <2> QED BY <1>6, <2>3 DEF EnqueueSettle, program
  <1>7. ASSUME NEW w \in Workers, Take(w) PROVE Typed'
    <2>1. PICK j \in Ids(job), ladder \in {tiers, {}} :
            /\ job' = [job EXCEPT ![j].status = "running"]
            /\ run' = [run EXCEPT ![w] = [job |-> j, key |-> Key(frequency, job[j].ref),
                                          tiers |-> ladder]]
      BY <1>7 DEF Take
    <2>2. job' \in Seq(JobRow)
      <3>1. {} \in SUBSET Accounts /\ "running" \in Statuses
        BY DEF Statuses
      <3> QED BY <2>1, <3>1, JobRowStays
    <2>3. Key(frequency, job[j].ref) \in Periods
      <3>1. job[j] \in JobRow
        OBVIOUS
      <3>2. job[j].ref \in Months /\ frequency \in Frequencies
        BY <3>1 DEF JobRow
      <3> QED BY <3>2 DEF Periods
    <2>4. pc' = [pc EXCEPT ![w] = "read"] /\ order' = order /\ month' = month /\ frequency' = frequency
      BY <1>7 DEF Take, Goto, program
    <2> QED BY <2>1, <2>2, <2>3, <2>4
  <1>8. ASSUME NEW w \in Workers, ReadTotals(w) PROVE Typed'
    <2>1. /\ run'[w].key = run[w].key /\ DOMAIN run' = Workers
          /\ \A v \in Workers \ {w} : run'[v] = run[v]
      BY <1>8 DEF ReadTotals
    <2> QED BY <1>8, <2>1 DEF ReadTotals, Goto, program
  <1>9. ASSUME NEW w \in Workers, Requeue(w), UNCHANGED <<month, order, program>> PROVE Typed'
    <2>1. job' \in Seq(JobRow)
      <3>1. job' = [job EXCEPT ![run[w].job].status = "available"]
        BY <1>9 DEF Requeue
      <3>2. {} \in SUBSET Accounts /\ "available" \in Statuses
        BY DEF Statuses
      <3> QED BY <3>1, <3>2, JobRowStays
    <2> QED BY <1>9, <2>1 DEF Requeue, Goto, program
  <1>10. ASSUME NEW w \in Workers, Write(w) PROVE Typed'
    <2>1. CASE Requeue(w)
      BY <1>10, <1>9, <2>1 DEF Write
    <2>2. CASE Goto(w, "complete") /\ UNCHANGED <<job, run>>
      BY <1>10, <2>2 DEF Write, Goto, program
    <2> QED BY <1>10, <2>1, <2>2 DEF Write
  <1>11. ASSUME NEW w \in Workers, Complete(w) PROVE Typed'
    <2>1. {<<c, run[w].key>> : c \in Owed(w)} \in SUBSET Accounts
      BY <1>11 DEF Complete, Owed, OwedBy, Accounts
    <2>2. job' \in Seq(JobRow)
      <3>1. job' = [job EXCEPT ![run[w].job] =
                      [@ EXCEPT !.status = "completed",
                                !.owed = {<<c, run[w].key>> : c \in Owed(w)}]]
        BY <1>11 DEF Complete
      <3>2. "completed" \in Statuses
        BY DEF Statuses
      <3> QED BY <2>1, <3>1, <3>2, JobRowStays
    <2> QED BY <1>11, <2>2 DEF Complete, Goto, program
  <1>12. ASSUME NEW w \in Workers, Crash(w) PROVE Typed'
    BY <1>12, <1>9 DEF Crash
  <1>13. CASE UNCHANGED vars
    BY <1>13 DEF vars, program
  <1> QED BY <1>1, <1>2, <1>3, <1>4, <1>5, <1>6, <1>7, <1>8, <1>10, <1>11, <1>12, <1>13
          DEF Next, Serve, Rest

-----------------------------------------------------------------------------
(* What a settlement may count                                             *)

\* The customer's orders that the period's window holds, and those that have
\* stood since before its end.
Countable(c, p) == {n \in Ids(order) : order[n].customer = c /\ order[n].month \in Window(p)}
Standing(c, p)  ==
  {n \in Ids(order) : /\ order[n].customer = c /\ order[n].status = "stands"
                      /\ Key(p[1], order[n].month) = p /\ order[n].since < End(p)}

\* What it has counted, and if it came late, that it has missed nothing.
Counts(orders, late, c, p) ==
  /\ orders \subseteq Countable(c, p)
  /\ late => month >= End(p) /\ Standing(c, p) \subseteq orders

(* Orders stay what they are, except that they are cancelled or stand from *)
(* now on; a new one is open yet, and time does not go back.               *)
LEMMA OrdersStay ==
  ASSUME Typed, [Next]_vars
  PROVE  /\ month <= month'
         /\ Ids(order) \subseteq Ids(order')
         /\ \A n \in Ids(order) :
              /\ order'[n].customer = order[n].customer
              /\ order'[n].month = order[n].month
              /\ \/ order'[n].status # "stands"
                 \/ order'[n].since = month
                 \/ order'[n].status = order[n].status /\ order'[n].since = order[n].since
         /\ \A n \in Ids(order') \ Ids(order) : order'[n].status = "open"
  <1> USE DEF Typed
  <1>0. month \in Nat
    BY RebatesAssumption DEF Months
  <1>1. CASE PlaceOrder
    <2>1. PICK row : order' = Append(order, row) /\ row.status = "open"
      BY <1>1 DEF PlaceOrder
    <2>2. /\ Len(order') = Len(order) + 1 /\ order'[Len(order) + 1] = row
          /\ \A n \in Ids(order) : order'[n] = order[n]
      BY <2>1
    <2>3. \A n \in Ids(order') \ Ids(order) : n = Len(order) + 1
      BY <2>2
    <2> QED BY <1>0, <1>1, <2>1, <2>2, <2>3 DEF PlaceOrder
  <1>2. CASE CommitOrder \/ ReviveOrder \/ CancelOrder
    <2>1. PICK n \in Ids(order) :
            \/ order' = [order EXCEPT ![n] = [order[n] EXCEPT !.status = "cancelled"]]
            \/ order' = [order EXCEPT ![n] = [order[n] EXCEPT !.status = "stands", !.since = month]]
      BY <1>2, OneOrderMoves
    <2>2. Len(order') = Len(order) /\ \A m \in Ids(order) \ {n} : order'[m] = order[m]
      BY <2>1
    <2>3. /\ DOMAIN order = Ids(order) /\ order[n] \in OrderRow
          /\ \/ order'[n] = [order[n] EXCEPT !.status = "cancelled"]
             \/ order'[n] = [order[n] EXCEPT !.status = "stands", !.since = month]
      <3>1. DOMAIN order = Ids(order) /\ order[n] \in OrderRow
        OBVIOUS
      <3> QED BY <2>1, <3>1
    <2>4. /\ order'[n].customer = order[n].customer /\ order'[n].month = order[n].month
          /\ order'[n].status # "stands" \/ order'[n].since = month
      BY <2>3 DEF OrderRow
    <2>5. month' = month
      BY <1>2 DEF CommitOrder, ReviveOrder, CancelOrder, Change
    <2> QED BY <1>0, <2>2, <2>4, <2>5
  <1>3. CASE UNCHANGED order /\ (month' = month \/ month' = month + 1)
    BY <1>0, <1>3
  <1>4. \/ PlaceOrder \/ CommitOrder \/ ReviveOrder \/ CancelOrder
        \/ UNCHANGED order /\ (month' = month \/ month' = month + 1)
    BY DEF Next, NextMonth, AddTier, DeleteTier, UpdateProgram, EnqueueSettle, Change, Serve, Take,
           ReadTotals, Write, Complete, Crash, Rest, vars
  <1> QED BY <1>1, <1>2, <1>3, <1>4

(* What was counted stays right: the window's orders are not taken back,   *)
(* and once it has passed, an order that comes to stand does so too late   *)
(* (PeriodWindow, Stand).                                                  *)
LEMMA CountsStay ==
  ASSUME Typed, [Next]_vars, NEW orders, NEW late, NEW c \in Customers, NEW p \in Periods,
         Counts(orders, late, c, p)
  PROVE  Counts(orders, late, c, p)'
  <1>1. Countable(c, p) \subseteq Countable(c, p)'
    BY OrdersStay DEF Countable
  <1>2. month \in Months /\ month \in Nat /\ month' \in Nat
    BY TypedNext, RebatesAssumption DEF Typed, Months
  <1>3. p[2] \in Nat /\ Length[p[1]] \in Nat /\ End(p)' = End(p)
    BY <1>2, WindowIsPeriod DEF End
  <1>4. ASSUME month >= End(p) PROVE Standing(c, p)' \subseteq Standing(c, p) /\ month' >= End(p)
    <2>1. month' >= End(p)
      BY <1>2, <1>3, <1>4, OrdersStay DEF End
    <2>2. ASSUME NEW n \in Standing(c, p)' PROVE n \in Standing(c, p)
      <3>1. /\ n \in Ids(order') /\ order'[n].customer = c /\ order'[n].status = "stands"
            /\ Key(p[1], order'[n].month) = p /\ order'[n].since < End(p)
        BY <2>2, <1>3 DEF Standing, Key, Start
      <3>2. n \in Ids(order)
        BY <3>1, OrdersStay
      <3>3. order'[n].since # month
        BY <1>2, <1>3, <1>4, <3>1 DEF End
      <3>4. /\ order'[n].customer = order[n].customer /\ order'[n].month = order[n].month
            /\ order'[n].status = order[n].status /\ order'[n].since = order[n].since
        BY <3>1, <3>2, <3>3, OrdersStay
      <3> QED BY <3>1, <3>2, <3>4 DEF Standing
    <2> QED BY <2>1, <2>2
  <1> QED BY <1>1, <1>3, <1>4 DEF Counts

-----------------------------------------------------------------------------
(* The inductive invariant                                                 *)

\* What a worker has read of a customer holds still when it writes, and it
\* completes only when everybody it owes is settled.
RunFits(w, c) ==
  /\ pc[w] \in {"write", "complete"} =>
       Counts(run[w].counted[c], run[w].late, c, run[w].key)
  /\ pc[w] = "write" /\ c \in run[w].already => settlement[<<c, run[w].key>>] # NoRow
  /\ pc[w] = "complete" /\ c \in OwedBy(run[w]) => settlement[<<c, run[w].key>>] # NoRow

RunsFit == \A w \in Workers, c \in Customers : RunFits(w, c)

\* What is settled counts the orders of its period.
RowsFit ==
  /\ DOMAIN settlement = Accounts /\ DOMAIN credits = Accounts
  /\ \A c \in Customers, p \in Periods :
       settlement[<<c, p>>] # NoRow =>
         Counts(settlement[<<c, p>>].orders, settlement[<<c, p>>].late, c, p)

Inv == Typed /\ RunsFit /\ RowsFit /\ CompletedSettledAll /\ SettlementsAreCredited

(* One transaction settles accounts of one period, none of them settled,   *)
(* each with its credit note, and nothing else touches the books           *)
(* (CreateRebateSettlement).                                               *)
LEMMA BooksStep ==
  ASSUME Inv, [Next]_vars
  PROVE  \/ UNCHANGED <<settlement, credits>>
         \/ \E w \in Workers :
              /\ pc[w] = "write" /\ run[w].key \in Periods
              /\ DOMAIN settlement' = Accounts /\ DOMAIN credits' = Accounts
              /\ Goto(w, "complete") /\ UNCHANGED <<job, run>>
              /\ \A c \in Customers, p \in Periods :
                   IF p = run[w].key /\ c \in Owed(w) \ run[w].already
                   THEN /\ settlement[<<c, p>>] = NoRow
                        /\ settlement'[<<c, p>>] = Row(w, c)
                        /\ credits'[<<c, p>>] = Append(credits[<<c, p>>], Row(w, c).amount)
                   ELSE /\ settlement'[<<c, p>>] = settlement[<<c, p>>]
                        /\ credits'[<<c, p>>] = credits[<<c, p>>]
  <1>1. ASSUME NEW w \in Workers, Write(w), ~UNCHANGED books
        PROVE  /\ pc[w] = "write" /\ run[w].key \in Periods
               /\ DOMAIN settlement' = Accounts /\ DOMAIN credits' = Accounts
               /\ Goto(w, "complete") /\ UNCHANGED <<job, run>>
               /\ \A c \in Customers, p \in Periods :
                    IF p = run[w].key /\ c \in Owed(w) \ run[w].already
                    THEN /\ settlement[<<c, p>>] = NoRow
                         /\ settlement'[<<c, p>>] = Row(w, c)
                         /\ credits'[<<c, p>>] = Append(credits[<<c, p>>], Row(w, c).amount)
                    ELSE /\ settlement'[<<c, p>>] = settlement[<<c, p>>]
                         /\ credits'[<<c, p>>] = credits[<<c, p>>]
    <2> DEFINE accounts == {<<c, run[w].key>> : c \in Owed(w) \ run[w].already}
    <2>1. /\ pc[w] = "write" /\ ~Collides(accounts)
          /\ settlement' = [x \in Accounts |-> IF x \in accounts THEN Row(w, x[1])
                                               ELSE settlement[x]]
          /\ credits' = [x \in Accounts |->
                          IF x \in accounts THEN Append(credits[x], Row(w, x[1]).amount)
                          ELSE credits[x]]
          /\ Goto(w, "complete") /\ UNCHANGED <<job, run>>
      BY <1>1 DEF Write
    <2>2. run[w].key \in Periods
      BY <2>1 DEF Inv, Typed
    <2>3. \A c \in Customers, p \in Periods :
            /\ <<c, p>> \in Accounts /\ <<c, p>>[1] = c
            /\ <<c, p>> \in accounts <=> p = run[w].key /\ c \in Owed(w) \ run[w].already
      BY DEF Accounts
    <2>4. \A x \in accounts : settlement[x] = NoRow
      BY <2>1 DEF Collides
    <2> HIDE DEF accounts
    <2> QED BY <2>1, <2>2, <2>3, <2>4
  <1>2. UNCHANGED books \/ \E w \in Workers : Write(w)
    BY DEF Next, PlaceOrder, CommitOrder, ReviveOrder, CancelOrder, NextMonth, AddTier, DeleteTier,
           UpdateProgram, EnqueueSettle,
           Change, Serve, Take, ReadTotals, Complete, Crash, Rest, vars
  <1> QED BY <1>1, <1>2 DEF books

(* A settlement is never taken back or changed (no statement updates or    *)
(* deletes one).                                                           *)
LEMMA SettledStays ==
  ASSUME Inv, [Next]_vars, NEW c \in Customers, NEW p \in Periods, settlement[<<c, p>>] # NoRow
  PROVE  settlement'[<<c, p>>] = settlement[<<c, p>>]
  BY BooksStep

\* A row that is inserted is a row.
LEMMA RowIsThere == \A w \in Workers, c \in Customers : Row(w, c) # NoRow
  <1> SUFFICES ASSUME NEW w \in Workers, NEW c \in Customers PROVE Row(w, c).status # NoRow.status
    OBVIOUS
  <1> QED BY DEF Row, NoRow

(* What was read, counted and settled fits after each stage of a job       *)
(* (SettleRebateProgram).                                                  *)
LEMMA RunsFitNext ==
  ASSUME Inv, [Next]_vars
  PROVE  RunsFit'
  <1> SUFFICES ASSUME NEW v \in Workers, NEW c \in Customers PROVE RunFits(v, c)'
    BY DEF RunsFit
  <1>0. /\ pc \in [Workers -> Stages] /\ DOMAIN run = Workers
        /\ pc[v] # "idle" => run[v].key \in Periods
        /\ RunFits(v, c)
    BY DEF Inv, Typed, RunsFit
  <1>1. CASE pc'[v] = pc[v] /\ run'[v] = run[v]
    <2>1. CASE pc[v] = "idle"
      BY <1>1, <2>1 DEF RunFits
    <2>2. CASE pc[v] # "idle"
      <3>1. pc[v] \in {"write", "complete"} =>
              Counts(run[v].counted[c], run[v].late, c, run[v].key)'
        <4>1. SUFFICES ASSUME pc[v] \in {"write", "complete"}
                       PROVE  Counts(run[v].counted[c], run[v].late, c, run[v].key)'
          OBVIOUS
        <4>2. Counts(run[v].counted[c], run[v].late, c, run[v].key)
          BY <1>0, <4>1 DEF RunFits
        <4>3. run[v].key \in Periods
          BY <1>0, <2>2
        <4> QED BY <1>1, <4>2, <4>3, CountsStay DEF Inv, Counts
      <3>2. settlement[<<c, run[v].key>>] # NoRow => settlement'[<<c, run[v].key>>] # NoRow
        BY <1>0, <2>2, SettledStays
      <3> QED BY <1>0, <1>1, <3>1, <3>2 DEF RunFits
    <2> QED BY <2>1, <2>2
  <1>2. CASE pc'[v] \in {"idle", "read"}
    BY <1>2 DEF RunFits
  <1>3. CASE ReadTotals(v)
    <2>1. /\ pc'[v] = "write" /\ run'[v].key = run[v].key
          /\ run'[v].counted[c] = Qualifying(c, run[v].key)
          /\ run'[v].late = (month >= End(run[v].key))
          /\ c \in run'[v].already => settlement[<<c, run[v].key>>] # NoRow
          /\ order' = order /\ month' = month /\ settlement' = settlement
      BY <1>0, <1>3 DEF ReadTotals, Goto, Settled, End, books
    <2>2. run[v].key \in Periods
      BY <1>0, <1>3 DEF ReadTotals
    <2>3. /\ Qualifying(c, run[v].key) \subseteq Countable(c, run[v].key)
          /\ Standing(c, run[v].key) \subseteq Qualifying(c, run[v].key)
      <3>1. \A n \in Ids(order) : order[n].month \in Months
        <4>1. \A n \in Ids(order) : order[n] \in OrderRow
          BY DEF Inv, Typed
        <4> QED BY <4>1 DEF OrderRow
      <3> QED BY <2>2, <3>1, WindowIsPeriod DEF Qualifying, Countable, Standing
    <2> QED BY <2>1, <2>3 DEF RunFits, Counts, Countable, Standing, End
  <1>4. CASE Write(v) /\ pc'[v] = "complete"
    <2> DEFINE accounts == {<<d, run[v].key>> : d \in Owed(v) \ run[v].already}
    <2>1. /\ pc[v] = "write" /\ run' = run /\ order' = order /\ month' = month
          /\ settlement' = [x \in Accounts |-> IF x \in accounts THEN Row(v, x[1])
                                               ELSE settlement[x]]
      BY <1>0, <1>4 DEF Write, Requeue, Goto
    <2>2. run[v].key \in Periods
      BY <1>0, <2>1
    <2>3. ASSUME c \in OwedBy(run[v]) PROVE settlement'[<<c, run[v].key>>] # NoRow
      <3>1. CASE c \in run[v].already
        BY <1>0, <2>1, <2>2, <3>1, SettledStays DEF RunFits
      <3>2. CASE c \notin run[v].already
        <4>1. <<c, run[v].key>> \in accounts /\ <<c, run[v].key>> \in Accounts
          BY <2>2, <2>3, <3>2 DEF Owed, Accounts
        <4> QED BY <2>1, <4>1, RowIsThere
      <3> QED BY <3>1, <3>2
    <2>4. Counts(run[v].counted[c], run[v].late, c, run[v].key)
      BY <1>0, <2>1 DEF RunFits
    <2> QED BY <1>4, <2>1, <2>3, <2>4 DEF RunFits, Counts, Countable, Standing, End
  <1>5. \/ pc'[v] = pc[v] /\ run'[v] = run[v]
        \/ pc'[v] \in {"idle", "read"}
        \/ ReadTotals(v) \/ (Write(v) /\ pc'[v] = "complete")
    <2>1. CASE UNCHANGED <<pc, run>>
      BY <2>1
    <2>2. ASSUME NEW w \in Workers, Serve(w) \/ Crash(w), w # v
          PROVE  pc'[v] = pc[v] /\ run'[v] = run[v]
      BY <1>0, <2>2 DEF Serve, Take, ReadTotals, Write, Complete, Crash, Requeue, Goto
    <2>3. CASE Serve(v) \/ Crash(v)
      BY <1>0, <2>3 DEF Serve, Take, Write, Complete, Crash, Requeue, Goto
    <2>4. UNCHANGED <<pc, run>> \/ \E w \in Workers : Serve(w) \/ Crash(w)
      BY DEF Next, PlaceOrder, CommitOrder, ReviveOrder, CancelOrder, NextMonth, AddTier, DeleteTier,
             UpdateProgram,
             EnqueueSettle, Change, Rest, vars
    <2> QED BY <2>1, <2>2, <2>3, <2>4
  <1> QED BY <1>1, <1>2, <1>3, <1>4, <1>5

(* What is settled counts what it may, and stays so (Row, PeriodWindow).   *)
LEMMA RowsFitNext ==
  ASSUME Inv, [Next]_vars
  PROVE  RowsFit'
  <1>1. DOMAIN settlement' = Accounts /\ DOMAIN credits' = Accounts
    BY BooksStep DEF Inv, RowsFit
  <1>2. ASSUME NEW c \in Customers, NEW p \in Periods, settlement'[<<c, p>>] # NoRow
        PROVE  Counts(settlement[<<c, p>>].orders, settlement[<<c, p>>].late, c, p)'
    <2>1. CASE settlement[<<c, p>>] # NoRow
      <3>1. Counts(settlement[<<c, p>>].orders, settlement[<<c, p>>].late, c, p)
        BY <2>1 DEF Inv, RowsFit
      <3>2. settlement'[<<c, p>>] = settlement[<<c, p>>]
        BY <2>1, SettledStays
      <3> QED BY <3>1, <3>2, CountsStay DEF Inv, Counts
    <2>2. CASE settlement[<<c, p>>] = NoRow
      <3>1. PICK w \in Workers : /\ pc[w] = "write" /\ p = run[w].key
                                 /\ settlement'[<<c, p>>] = Row(w, c)
        BY <1>2, <2>2, BooksStep
      <3>2. Counts(run[w].counted[c], run[w].late, c, p)
        BY <3>1 DEF Inv, RunsFit, RunFits
      <3>3. /\ settlement'[<<c, p>>].orders = run[w].counted[c]
            /\ settlement'[<<c, p>>].late = run[w].late
        BY <3>1 DEF Row
      <3> QED BY <3>2, <3>3, CountsStay DEF Inv, Counts
    <2> QED BY <2>1, <2>2
  <1> QED BY <1>1, <1>2 DEF RowsFit

(* A job completes with everybody it owes settled, and nobody is unsettled *)
(* afterwards (RebateSettleWorker).                                        *)
LEMMA CompletedNext ==
  ASSUME Inv, [Next]_vars
  PROVE  CompletedSettledAll'
  <1> SUFFICES ASSUME NEW j \in Ids(job'), NEW x \in job'[j].owed
               PROVE  settlement'[x] # NoRow
    BY DEF CompletedSettledAll
  <1>1. \A k \in Ids(job) : job[k].owed \subseteq Accounts
    <2>1. \A k \in Ids(job) : job[k] \in JobRow
      BY DEF Inv, Typed
    <2> QED BY <2>1 DEF JobRow
  <1>2. CASE j \in Ids(job) /\ x \in job[j].owed
    <2>1. settlement[x] # NoRow
      BY <1>2 DEF Inv, CompletedSettledAll
    <2>2. PICK c \in Customers, p \in Periods : x = <<c, p>>
      BY <1>1, <1>2 DEF Accounts
    <2> QED BY <2>1, <2>2, SettledStays
  <1>3. ASSUME NEW w \in Workers, Complete(w) PROVE settlement'[x] # NoRow
    <2>1. CASE j \in Ids(job) /\ j # run[w].job
      <3>1. job'[j] = job[j]
        BY <1>3, <2>1 DEF Complete
      <3> QED BY <1>2, <2>1, <3>1
    <2>2. CASE j \in Ids(job) /\ j = run[w].job
      <3>1. x \in {<<c, run[w].key>> : c \in Owed(w)}
        <4>1. job[j] \in JobRow /\ j \in DOMAIN job
          BY <2>2 DEF Inv, Typed
        <4>2. job'[j].owed = {<<c, run[w].key>> : c \in Owed(w)}
          BY <1>3, <2>2, <4>1 DEF Complete, JobRow
        <4> QED BY <4>2
      <3>2. PICK c \in Customers : c \in OwedBy(run[w]) /\ x = <<c, run[w].key>>
        BY <3>1 DEF Owed, OwedBy
      <3> QED BY <1>3, <3>2 DEF Complete, Inv, RunsFit, RunFits, books
    <2>3. j \in Ids(job)
      BY <1>3 DEF Complete, Inv, Typed
    <2> QED BY <2>1, <2>2, <2>3
  <1>4. CASE EnqueueSettle
    <2>1. PICK row : job' = Append(job, row) /\ row.owed = {}
      BY <1>4 DEF EnqueueSettle
    <2>2. CASE j \in Ids(job)
      <3>1. job'[j] = job[j]
        BY <2>1, <2>2 DEF Inv, Typed
      <3> QED BY <1>2, <2>2, <3>1
    <2>3. CASE j \notin Ids(job)
      <3>1. job'[j] = row
        BY <2>1, <2>3 DEF Inv, Typed
      <3> QED BY <2>1, <3>1
    <2> QED BY <2>2, <2>3
  <1>5. ASSUME NEW k, NEW s, job' = [job EXCEPT ![k].status = s] PROVE settlement'[x] # NoRow
    <2>1. j \in Ids(job) /\ job[j] \in JobRow /\ DOMAIN job = Ids(job)
      BY <1>5 DEF Inv, Typed
    <2>2. job'[j].owed = job[j].owed
      <3>1. CASE j = k
        <4>1. job'[j] = [job[j] EXCEPT !.status = s]
          BY <1>5, <2>1, <3>1
        <4> QED BY <2>1, <4>1 DEF JobRow
      <3>2. CASE j # k
        BY <1>5, <2>1, <3>2
      <3> QED BY <3>1, <3>2
    <2> QED BY <1>2, <2>1, <2>2
  <1>6. CASE UNCHANGED job
    BY <1>2, <1>6
  <1> QED BY <1>3, <1>4, <1>5, <1>6
          DEF Next, PlaceOrder, CommitOrder, ReviveOrder, CancelOrder, NextMonth, AddTier, DeleteTier,
             UpdateProgram, Change,
              Serve, Take, ReadTotals, Write, Crash, Requeue, Rest, vars

(* A settlement and its credit note are written together.                  *)
LEMMA CreditsNext ==
  ASSUME Inv, [Next]_vars
  PROVE  SettlementsAreCredited'
  <1> SUFFICES ASSUME NEW c \in Customers, NEW p \in Periods
               PROVE  credits'[<<c, p>>] = IF settlement'[<<c, p>>] = NoRow THEN <<>>
                                           ELSE <<settlement'[<<c, p>>].amount>>
    BY DEF SettlementsAreCredited, Accounts
  <1>1. credits[<<c, p>>] = IF settlement[<<c, p>>] = NoRow THEN <<>>
                            ELSE <<settlement[<<c, p>>].amount>>
    BY DEF Inv, SettlementsAreCredited, Accounts
  <1>2. CASE credits'[<<c, p>>] = credits[<<c, p>>] /\ settlement'[<<c, p>>] = settlement[<<c, p>>]
    BY <1>1, <1>2
  <1>3. ASSUME NEW w \in Workers, settlement[<<c, p>>] = NoRow, settlement'[<<c, p>>] = Row(w, c),
               credits'[<<c, p>>] = Append(credits[<<c, p>>], Row(w, c).amount)
        PROVE  credits'[<<c, p>>] = <<settlement'[<<c, p>>].amount>> /\ settlement'[<<c, p>>] # NoRow
    <2>1. credits[<<c, p>>] = <<>>
      BY <1>1, <1>3
    <2> QED BY <1>3, <2>1, RowIsThere
  <1> QED BY <1>2, <1>3, BooksStep

-----------------------------------------------------------------------------
(* The theorems                                                            *)

LEMMA InvInit == Init => Inv
  <1> SUFFICES ASSUME Init PROVE Inv
    OBVIOUS
  <1>1. Typed
    <2>1. FirstMonth \in Months
      BY RebatesAssumption DEF Init, Months
    <2>2. job \in Seq(JobRow)
      BY DEF Init
    <2> QED BY <2>1, <2>2, RebatesAssumption DEF Init, Typed, Stages
  <1>2. RunsFit /\ RowsFit /\ CompletedSettledAll /\ SettlementsAreCredited
    BY DEF Init, RunsFit, RunFits, RowsFit, CompletedSettledAll, SettlementsAreCredited, Accounts
  <1> QED BY <1>1, <1>2 DEF Inv

(* The invariant holds of every behaviour, whatever jobs overlap, fail or  *)
(* are run again.                                                          *)
THEOREM Invariance == Spec => []Inv
  <1>1. Inv /\ [Next]_vars => Inv'
    BY TypedNext, RunsFitNext, RowsFitNext, CompletedNext, CreditsNext DEF Inv
  <1> QED BY InvInit, <1>1, PTL DEF Spec

(* SettlementsAreCredited: whatever fails, no settlement without its one   *)
(* credit note and no note without a settlement (Write's transaction).     *)
THEOREM AlwaysCredited == Spec => []SettlementsAreCredited
  BY Invariance, PTL DEF Inv

(* CompletedSettledAll: a job the queue notes as completed left nobody     *)
(* out, however many were cut off or collided before.                      *)
THEOREM CompletedAlwaysSettledAll == Spec => []CompletedSettledAll
  BY Invariance, PTL DEF Inv

(* NoOrderRebatedTwice: two settlements that share an order are of periods *)
(* of different frequency; the windows of one frequency are disjoint.      *)
THEOREM OrdersNeverRebatedTwice == Spec => []NoOrderRebatedTwice
  <1>1. Inv => NoOrderRebatedTwice
    <2> SUFFICES ASSUME Inv, NEW x \in Accounts, NEW y \in Accounts,
                        settlement[x] # NoRow, settlement[y] # NoRow, x # y,
                        NEW n \in settlement[x].orders \cap settlement[y].orders
                 PROVE  x[2][1] # y[2][1]
      BY DEF NoOrderRebatedTwice
    <2>1. PICK c \in Customers, p \in Periods : x = <<c, p>>
      BY DEF Accounts
    <2>2. PICK d \in Customers, q \in Periods : y = <<d, q>>
      BY DEF Accounts
    <2>3. n \in Countable(c, p) /\ n \in Countable(d, q)
      BY <2>1, <2>2 DEF Inv, RowsFit, Counts
    <2>4. c = d /\ order[n].month \in Window(p) /\ order[n].month \in Window(q)
      BY <2>3 DEF Countable
    <2>5. order[n].month \in Months
      <3>1. order[n] \in OrderRow
        BY <2>3 DEF Countable, Inv, Typed
      <3> QED BY <3>1 DEF OrderRow
    <2>6. Key(p[1], order[n].month) = p /\ Key(q[1], order[n].month) = q
      BY <2>4, <2>5, WindowIsPeriod
    <2> QED BY <2>1, <2>2, <2>4, <2>6
  <1> QED BY <1>1, Invariance, PTL

(* LateCountsAll: a settlement written after its period's end counts every *)
(* order of the period that stood then and still does; one begun before    *)
(* and committed after, or cancelled and revived since, is not claimed.    *)
THEOREM LateAlwaysCountsAll == Spec => []LateCountsAll
  <1>1. Inv => LateCountsAll
    BY DEF Inv, RowsFit, Counts, Standing, LateCountsAll
  <1> QED BY <1>1, Invariance, PTL

(* SettlesOnce: every step of the program is a settlement SettledOnce      *)
(* allows, or leaves the credit notes alone.                               *)
THEOREM AlwaysSettlesOnce == Spec => SettlesOnce
  <1>1. Init => Promise!Init
    BY DEF Init, Promise!Init, Accounts
  <1>2. ASSUME Inv, [Next]_vars PROVE [Promise!Next]_credits
    <2>1. CASE UNCHANGED credits
      BY <2>1
    <2>2. ASSUME NEW w \in Workers, run[w].key \in Periods, DOMAIN credits' = Accounts,
                 \A c \in Customers, p \in Periods :
                   IF p = run[w].key /\ c \in Owed(w) \ run[w].already
                   THEN /\ settlement[<<c, p>>] = NoRow
                        /\ credits'[<<c, p>>] = Append(credits[<<c, p>>], Row(w, c).amount)
                   ELSE credits'[<<c, p>>] = credits[<<c, p>>]
          PROVE  Promise!Next
      <3>1. ASSUME NEW c \in Customers, NEW p \in Periods
            PROVE  \/ credits'[<<c, p>>] = credits[<<c, p>>]
                   \/ p = run[w].key /\ credits[<<c, p>>] = <<>> /\ Len(credits'[<<c, p>>]) = 1
        <4>1. CASE p = run[w].key /\ c \in Owed(w) \ run[w].already
          <5>1. /\ settlement[<<c, p>>] = NoRow
                /\ credits'[<<c, p>>] = Append(credits[<<c, p>>], Row(w, c).amount)
            BY <2>2, <4>1
          <5>2. credits[<<c, p>>] = <<>>
            BY <1>2, <5>1 DEF Accounts, SettlementsAreCredited, Inv
          <5>3. credits'[<<c, p>>] = <<Row(w, c).amount>>
            BY <5>1, <5>2
          <5> QED BY <4>1, <5>2, <5>3
        <4>2. CASE ~(p = run[w].key /\ c \in Owed(w) \ run[w].already)
          BY <2>2, <4>2
        <4> QED BY <4>1, <4>2
      <3>2. Promise!Settle(run[w].key)
        BY <3>1 DEF Promise!Settle
      <3> QED BY <2>2, <3>2 DEF Promise!Next, Accounts
    <2> QED BY <1>2, <2>1, <2>2, BooksStep
  <1> QED BY <1>1, <1>2, Invariance, PTL DEF Spec, SettlesOnce, Promise!Spec

(* SettlementsAreSound: the four together, as the program states them.     *)
THEOREM SettlementsAlwaysSound == Spec => []SettlementsAreSound
  BY AlwaysCredited, CompletedAlwaysSettledAll, OrdersNeverRebatedTwice, LateAlwaysCountsAll, PTL
     DEF SettlementsAreSound

-----------------------------------------------------------------------------
(* Marketplace: what its parts are made of.                                *)

(* SetToSeq lists every element of a finite set, each once.                *)
LEMMA ListsAll ==
  ASSUME NEW S, IsFiniteSet(S)
  PROVE  \E n \in Nat : \E f \in Bijection(1..n, S) : SetToSeq(S) = f /\ f \in Seq(S) /\ Len(f) = n
<1>1. PICK n \in Nat : ExistsBijection(1..n, S)
  BY FS_NatBijection
<1>2. Cardinality(S) = n
  BY <1>1, FS_CountingElements
<1>3. \E f \in [1..Cardinality(S) -> S] : IsInjective(f)
  <2>1. PICK f : f \in Bijection(1..n, S)
    BY <1>1 DEF ExistsBijection
  <2>2. f \in [1..n -> S] /\ IsInjective(f)
    BY <2>1 DEF Bijection, Injection
  <2> QED BY <1>2, <2>2
<1>4. SetToSeq(S) \in [1..n -> S] /\ IsInjective(SetToSeq(S))
  BY <1>2, <1>3 DEF SetToSeq
<1>5. PICK f : f = SetToSeq(S)
  OBVIOUS
<1>6. f \in Seq(S) /\ Len(f) = n
  <2>1. f \in Seq(S)
    BY <1>4, <1>5, SeqDef
  <2> QED BY <1>4, <1>5, <2>1, LenProperties
<1>7. f \in Injection(1..n, S)
  BY <1>4, <1>5 DEF Injection, IsInjective
<1>8. f \in Bijection(1..n, S)
  BY <1>2, <1>7, FS_Interval, FS_Injection DEF Bijection
<1> QED BY <1>5, <1>6, <1>8

(* A rounded percentage is a number of smallest units.                     *)
LEMMA PercentType ==
  ASSUME NEW g \in Int, NEW r \in Int
  PROVE  Percent(g, r) \in Int
<1>1. PICK m \in Int : m = g * r
  OBVIOUS
<1>2. RoundHundredths(m) \in Int
  BY DEF RoundHundredths
<1> QED BY <1>1, <1>2 DEF Percent

(* What sales representatives have ordered, of whatever standing.          *)
RepLines == UNION {sale[b].lines : b \in {x \in RowsOf(sale) : sale[x].byRep}}

(* What is approved was reviewed, and the cart holds nothing else, or what *)
(* a representative ordered: reorder may then copy any order.              *)
Offered ==
  /\ \A p \in Products : approval[p] = "approved" => p \in reviewed
  /\ basket \subseteq reviewed \cup RepLines
  /\ BoughtWasApproved

(* An order has one part per seller, with the seller's share as its gross. *)
PartsFit ==
  /\ \A n \in RowsOf(part) :
       LET lines == sale[part[n].order].lines IN
       /\ part[n].vendor \in SellersOf(lines)
       /\ part[n].gross = Gross(part[n].vendor, lines)
  /\ \A m, n \in RowsOf(part) :
       part[m].order = part[n].order /\ part[m].vendor = part[n].vendor => m = n
  /\ \A o \in RowsOf(sale) : \A v \in SellersOf(sale[o].lines) :
       \E n \in RowsOf(part) : part[n].order = o /\ part[n].vendor = v

(* A payout's request holds the sum of the orders it has totalled, and     *)
(* they are what would be settled now, but for what others have touched    *)
(* since; a status change was legal when its order was read.               *)
PayableTo(v) == {n \in RowsOf(part) : Payable(n, v)}

Totals(r) ==
  /\ r.orders \subseteq RowsOf(part) /\ r.amount = Net(r.orders)
  /\ \A n \in RowsOf(part) \ r.touched : n \in r.orders <=> n \in PayableTo(r.vendor)

ReadingsHold ==
  \A w \in Handlers :
    /\ stage[w] = "settle" => Totals(req[w])
    /\ stage[w] = "set" => <<req[w].from, req[w].to>> \in Transitions

(* A payout's row holds the sum of the orders it has totalled, and they    *)
(* are what it settled, but for what others had touched.                   *)
Pays(row, m) ==
  /\ row.orders \subseteq RowsOf(part) /\ row.amount = Net(row.orders)
  /\ \A n \in RowsOf(part) \ row.touched : n \in row.orders <=> part[n].payout = m

PayoutsPay == \A m \in RowsOf(payout) : Pays(payout[m], m)

MarketInv == TypeOK /\ Offered /\ PartsFit /\ PayoutsPay /\ PaidForDelivered /\ ReadingsHold

-----------------------------------------------------------------------------
SaleRow == [byRep : BOOLEAN, lines : SUBSET Products]

LEMMA GrossType ==
  ASSUME NEW v, NEW lines \in SUBSET Products
  PROVE  /\ LinesOf(v, lines) \in SUBSET lines /\ IsFiniteSet(LinesOf(v, lines))
         /\ Gross(v, lines) \in Int
<1>1. LinesOf(v, lines) \in SUBSET lines
  BY DEF LinesOf
<1>2. IsFiniteSet(LinesOf(v, lines))
  BY <1>1, FS_Subset, MarketplaceAssumption
<1>3. [p \in LinesOf(v, lines) |-> RowTotal[p]] \in [LinesOf(v, lines) -> Int]
  BY <1>1, MarketplaceAssumption
<1> QED BY <1>1, <1>2, <1>3, SumInt DEF Gross

(* What the insert of a vendor order freezes.                              *)
LEMMA PartType ==
  ASSUME TypeOK, NEW lines \in SUBSET Products, NEW v \in SellersOf(lines), NEW o \in Nat \ {0}
  PROVE  /\ Part(o, v, lines) \in PartRow
         /\ Part(o, v, lines).order = o /\ Part(o, v, lines).vendor = v
         /\ Part(o, v, lines).gross = Gross(v, lines)
         /\ Part(o, v, lines).status = "pending" /\ Part(o, v, lines).payout = 0
<1>1. v \in Vendors
  BY MarketplaceAssumption DEF SellersOf
<1>2. PICK g \in Int : g = Gross(v, lines)
  BY GrossType
<1>3. PICK r \in Int : r = vendor[v].rate
  BY <1>1 DEF TypeOK
<1>4. PICK c \in Int : c = Percent(g, r)
  BY PercentType
<1>5. g - c \in Int
  BY <1>4
<1>6. "pending" \in PartStatuses
  BY DEF PartStatuses, Transitions
<1>7. Part(o, v, lines) =
        [order |-> o, vendor |-> v, gross |-> g, commission |-> c, net |-> g - c,
         status |-> "pending", payout |-> 0, raced |-> FALSE]
  BY <1>2, <1>3, <1>4 DEF Part
<1> QED BY <1>1, <1>2, <1>5, <1>6, <1>7 DEF PartRow

(* SplitOrder inserts one row for every seller, and touches no other.      *)
LEMMA SplitAppends ==
  ASSUME TypeOK, NEW lines \in SUBSET Products, SplitOrder(lines)
  PROVE  /\ part' \in Seq(PartRow) /\ RowsOf(part) \subseteq RowsOf(part')
         /\ \A n \in RowsOf(part) : part'[n] = part[n]
         /\ \A n \in RowsOf(part') \ RowsOf(part) :
              \E v \in SellersOf(lines) : part'[n] = Part(Len(sale) + 1, v, lines)
         /\ \A v \in SellersOf(lines) : \E n \in RowsOf(part') \ RowsOf(part) :
              part'[n] = Part(Len(sale) + 1, v, lines)
         /\ \A m, n \in RowsOf(part') \ RowsOf(part) : part'[m] = part'[n] => m = n
<1>1. PICK o \in Nat \ {0} : o = Len(sale) + 1
  BY LenProperties DEF TypeOK
<1>2. PICK S : S = {Part(o, v, lines) : v \in SellersOf(lines)}
  OBVIOUS
<1>3. IsFiniteSet(S)
  <2>1. IsFiniteSet(lines \ HouseGoods)
    BY FS_Subset, MarketplaceAssumption
  <2>2. PICK f : f = [p \in lines \ HouseGoods |-> Part(o, VendorOf[p], lines)]
    OBVIOUS
  <2>3. f \in [lines \ HouseGoods -> S]
    BY <1>2, <2>2 DEF SellersOf, HouseGoods
  <2>4. \A s \in S : \E p \in lines \ HouseGoods : f[p] = s
    BY <1>2, <2>2 DEF SellersOf, HouseGoods
  <2>5. f \in Surjection(lines \ HouseGoods, S)
    BY <2>3, <2>4 DEF Surjection
  <2> QED BY <2>1, <2>5, FS_Surjection
<1>4. PICK k \in Nat : \E f \in Bijection(1..k, S) : SetToSeq(S) = f /\ f \in Seq(S) /\ Len(f) = k
  BY <1>3, ListsAll
<1>5. PICK f \in Bijection(1..k, S) : SetToSeq(S) = f /\ f \in Seq(S) /\ Len(f) = k
  BY <1>4
<1>6. /\ f \in [1..k -> S] /\ \A s \in S : \E i \in 1..k : f[i] = s
      /\ \A i, j \in 1..k : f[i] = f[j] => i = j
  BY <1>5 DEF Bijection, Injection, Surjection, IsInjective
<1>7. S \subseteq PartRow
  BY <1>2, PartType
<1>8. PICK q \in Seq(PartRow) : q = part
  BY DEF TypeOK
<1>9. part' = q \o f /\ f \in Seq(PartRow)
  <2>1. part' = q \o f
    BY <1>1, <1>2, <1>5, <1>8 DEF SplitOrder
  <2>2. f \in [1..k -> PartRow]
    BY <1>6, <1>7
  <2> QED BY <2>1, <2>2, SeqDef
<1>10. PICK r \in Seq(PartRow) : r = part'
  BY <1>8, <1>9, ConcatProperties
<1>11. /\ Len(r) = Len(q) + k /\ Len(q) \in Nat
       /\ \A i \in 1..Len(q) : r[i] = q[i]
       /\ \A i \in (Len(q) + 1)..(Len(q) + k) : r[i] = f[i - Len(q)]
  <2>1. f \in Seq(PartRow) /\ Len(f) = k /\ r = q \o f
    BY <1>5, <1>8, <1>9, <1>10
  <2>2. Len(q) \in Nat
    BY LenProperties
  <2>3. Len(r) = Len(q) + Len(f)
    BY <2>1, ConcatProperties
  <2>4. \A i \in 1..(Len(q) + Len(f)) : r[i] = IF i <= Len(q) THEN q[i] ELSE f[i - Len(q)]
    BY <2>1, ConcatProperties
  <2>5. \A i \in 1..Len(q) : i \in 1..(Len(q) + k) /\ i <= Len(q)
    BY <2>2
  <2>6. \A i \in (Len(q) + 1)..(Len(q) + k) : i \in 1..(Len(q) + k) /\ ~ (i <= Len(q))
    BY <2>2
  <2> QED BY <2>1, <2>2, <2>3, <2>4, <2>5, <2>6
<1>12. RowsOf(q) \subseteq RowsOf(r) /\ \A n \in RowsOf(q) : r[n] = q[n]
  BY <1>11 DEF RowsOf
<1>13. \A n \in RowsOf(r) \ RowsOf(q) : n - Len(q) \in 1..k /\ r[n] = f[n - Len(q)]
  BY <1>11 DEF RowsOf
<1>14. \A i \in 1..k : i + Len(q) \in RowsOf(r) \ RowsOf(q) /\ r[i + Len(q)] = f[i]
  <2> SUFFICES ASSUME NEW i \in 1..k PROVE i + Len(q) \in RowsOf(r) \ RowsOf(q) /\ r[i + Len(q)] = f[i]
    OBVIOUS
  <2>1. i + Len(q) \in (Len(q) + 1)..(Len(q) + k) /\ (i + Len(q)) - Len(q) = i
    BY <1>11
  <2>2. i + Len(q) \in RowsOf(r) \ RowsOf(q)
    BY <2>1, <1>11 DEF RowsOf
  <2> QED BY <2>1, <2>2, <1>11
<1>15. \A n \in RowsOf(r) \ RowsOf(q) : \E v \in SellersOf(lines) : r[n] = Part(o, v, lines)
  BY <1>2, <1>6, <1>13
<1>16. \A v \in SellersOf(lines) : \E n \in RowsOf(r) \ RowsOf(q) : r[n] = Part(o, v, lines)
  <2> SUFFICES ASSUME NEW v \in SellersOf(lines)
               PROVE  \E n \in RowsOf(r) \ RowsOf(q) : r[n] = Part(o, v, lines)
    OBVIOUS
  <2>1. PICK i \in 1..k : f[i] = Part(o, v, lines)
    BY <1>2, <1>6
  <2> QED BY <2>1, <1>14
<1>17. \A m, n \in RowsOf(r) \ RowsOf(q) : r[m] = r[n] => m = n
  <2> SUFFICES ASSUME NEW m \in RowsOf(r) \ RowsOf(q), NEW n \in RowsOf(r) \ RowsOf(q), r[m] = r[n]
               PROVE  m = n
    OBVIOUS
  <2>1. m - Len(q) = n - Len(q)
    BY <1>6, <1>13
  <2>2. m \in Int /\ n \in Int
    BY DEF RowsOf
  <2> QED BY <2>1, <2>2, <1>11
<1> QED BY <1>1, <1>8, <1>10, <1>12, <1>15, <1>16, <1>17

-----------------------------------------------------------------------------
(* TypeOK in three parts: what is sold, what was sold, who is at work.     *)
CatalogTyped ==
  /\ approval \in [Products -> Approvals]
  /\ reviewed \subseteq Products /\ basket \subseteq Products
  /\ vendor \in [Vendors -> [rate : Int, deleted : BOOLEAN]]

SalesTyped ==
  /\ sale \in Seq(SaleRow) /\ part \in Seq(PartRow) /\ payout \in Seq(PayoutRow)
  /\ \A n \in RowsOf(part) :
       /\ part[n].order \in RowsOf(sale)
       /\ part[n].payout # 0 =>
            /\ part[n].payout \in RowsOf(payout)
            /\ payout[part[n].payout].vendor = part[n].vendor

RequestTyped(at, r) ==
  /\ at = "idle" => r = NoReq
  /\ at = "set" => r \in StatusRequest /\ r.part \in RowsOf(part)
  /\ at = "settle" => r \in PayoutRequest

RequestsTyped ==
  /\ stage \in [Handlers -> {"idle", "set", "settle"}]
  /\ req \in [Handlers -> {NoReq} \cup StatusRequest \cup PayoutRequest]
  /\ \A w \in Handlers : RequestTyped(stage[w], req[w])
  /\ started \in Nat /\ edits \in Nat

LEMMA TypeParts == TypeOK <=> CatalogTyped /\ SalesTyped /\ RequestsTyped
BY DEF TypeOK, CatalogTyped, SalesTyped, RequestsTyped, RequestTyped, SaleRow

(* What an order's placing does, whoever places it.                        *)
Sells(row) ==
  /\ sale' = Append(sale, row)
  /\ SplitOrder(row.lines)
  /\ UNCHANGED <<approval, reviewed, vendor, payout, stage, req, started>>

(* What happens to a vendor order while others look on.                    *)
PayoutsMarked ==
  /\ payout' \in Seq(PayoutRow)
  /\ DOMAIN payout' = DOMAIN payout
  /\ \A m \in DOMAIN payout : /\ payout'[m].vendor = payout[m].vendor
                              /\ payout'[m].amount = payout[m].amount
                              /\ payout'[m].orders = payout[m].orders
                              /\ payout'[m].touched = payout[m].touched

LEMMA SaleSteps ==
  ASSUME TypeOK
  PROVE  /\ PlaceFromCart => /\ Sells([byRep |-> FALSE, lines |-> basket]) /\ basket' = {}
                             /\ [byRep |-> FALSE, lines |-> basket] \in SaleRow /\ edits' = edits
         /\ OrderOnBehalf => \E lines \in SUBSET Products :
                             /\ Sells([byRep |-> TRUE, lines |-> lines]) /\ basket' = basket
                             /\ [byRep |-> TRUE, lines |-> lines] \in SaleRow /\ edits' = edits + 1
<1>1. ASSUME PlaceFromCart
      PROVE  /\ Sells([byRep |-> FALSE, lines |-> basket]) /\ basket' = {}
             /\ [byRep |-> FALSE, lines |-> basket] \in SaleRow /\ edits' = edits
  <2>1. PICK row : row = [byRep |-> FALSE, lines |-> basket]
    OBVIOUS
  <2>2. row.lines = basket /\ row \in SaleRow
    BY <2>1 DEF SaleRow, TypeOK
  <2>3. Sells(row)
    BY <1>1, <2>1, <2>2 DEF Sells, PlaceFromCart
  <2> QED BY <1>1, <2>1, <2>2, <2>3 DEF PlaceFromCart
<1>2. ASSUME OrderOnBehalf
      PROVE  \E lines \in SUBSET Products :
               /\ Sells([byRep |-> TRUE, lines |-> lines]) /\ basket' = basket
               /\ [byRep |-> TRUE, lines |-> lines] \in SaleRow /\ edits' = edits + 1
  <2>1. PICK lines \in SUBSET Products : /\ sale' = Append(sale, [byRep |-> TRUE, lines |-> lines])
                                         /\ SplitOrder(lines)
    BY <1>2 DEF OrderOnBehalf
  <2>2. PICK row : row = [byRep |-> TRUE, lines |-> lines]
    OBVIOUS
  <2>3. row.lines = lines /\ row \in SaleRow
    BY <2>2 DEF SaleRow
  <2>4. Sells(row)
    BY <1>2, <2>1, <2>2, <2>3 DEF Sells, OrderOnBehalf, Edit
  <2> QED BY <1>2, <2>1, <2>2, <2>3, <2>4 DEF OrderOnBehalf, Edit
<1> QED BY <1>1, <1>2

(* All that a step can do to the orders and to who is at work.             *)
LEMMA MarketSteps ==
  ASSUME TypeOK, [MarketNext]_marketVars
  PROVE  \/ UNCHANGED <<sale, part, stage, req, started>> /\ PayoutsMarked
         \/ UNCHANGED <<sale, part, payout>> /\ \E w \in Handlers : Receive(w) \/ Fail(w)
         \/ \E w \in Handlers : SetStatus(w)
         \/ \E w \in Handlers : SettlePayout(w)
         \/ \E row \in SaleRow : Sells(row)
<1>1. CASE MarketNext
  <2>1. CASE PlaceFromCart \/ OrderOnBehalf
    BY <2>1, SaleSteps
  <2>2. CASE MarkPayoutPaid
    <3>1. PICK n \in RowsOf(payout) : payout' = [payout EXCEPT ![n].status = "paid"]
      BY <2>2 DEF MarkPayoutPaid
    <3>2. PICK q \in Seq(PayoutRow) : q = payout
      BY DEF TypeOK
    <3>3. DOMAIN q = RowsOf(q) /\ \A m \in DOMAIN q : q[m] \in PayoutRow
      BY LenProperties, ElementOfSeq DEF RowsOf
    <3>4. PICK u : u = [q EXCEPT ![n].status = "paid"]
      OBVIOUS
    <3>5. u \in Seq(PayoutRow)
      <4>1. q[n] \in PayoutRow
        BY <3>1, <3>2, <3>3
      <4>2. [q[n] EXCEPT !.status = "paid"] \in PayoutRow
        BY <4>1 DEF PayoutRow
      <4>3. u = [q EXCEPT ![n] = [q[n] EXCEPT !.status = "paid"]]
        BY <3>4
      <4> QED BY <3>1, <3>2, <4>2, <4>3, ExceptSeq DEF RowsOf
    <3>6. PayoutsMarked
      BY <3>1, <3>2, <3>3, <3>4, <3>5 DEF PayoutsMarked, PayoutRow
    <3> QED BY <2>2, <3>6 DEF MarkPayoutPaid, Edit
  <2>3. CASE CreateProduct \/ SubmitProduct \/ ModerateProduct
    BY <2>3 DEF CreateProduct, SubmitProduct, ModerateProduct, Edit, PayoutsMarked, TypeOK
  <2>4. CASE UpdateVendor \/ SoftDeleteVendor \/ AddToCart \/ Reorder \/ Quiet
    BY <2>4 DEF UpdateVendor, SoftDeleteVendor, AddToCart, Reorder, Quiet, Edit, PayoutsMarked, marketVars, tables, TypeOK
  <2>5. CASE \E w \in Handlers : Receive(w) \/ Fail(w)
    BY <2>5 DEF Receive, Fail, LoadPart, TotalPayable, Arrive, tables
  <2>6. CASE \E w \in Handlers : Commit(w)
    BY <2>6 DEF Commit
  <2> QED BY <1>1, <2>1, <2>2, <2>3, <2>4, <2>5, <2>6 DEF MarketNext
<1>2. CASE UNCHANGED marketVars
  BY <1>2 DEF marketVars, tables, PayoutsMarked, TypeOK
<1> QED BY <1>1, <1>2

LEMMA CatalogTypedNext ==
  ASSUME TypeOK, [MarketNext]_marketVars
  PROVE  CatalogTyped'
<1>1. CASE CreateProduct \/ SubmitProduct \/ ModerateProduct
  BY <1>1 DEF TypeOK, CatalogTyped, CreateProduct, SubmitProduct, ModerateProduct, Approvals
<1>2. CASE UpdateVendor
  <2>1. Rates \subseteq Int
    BY MarketplaceAssumption
  <2>2. vendor' \in [Vendors -> [rate : Int, deleted : BOOLEAN]]
    BY <1>2, <2>1 DEF TypeOK, UpdateVendor
  <2> QED BY <1>2, <2>2 DEF TypeOK, CatalogTyped, UpdateVendor
<1>3. CASE SoftDeleteVendor
  <2>1. vendor' \in [Vendors -> [rate : Int, deleted : BOOLEAN]]
    BY <1>3 DEF TypeOK, SoftDeleteVendor
  <2> QED BY <1>3, <2>1 DEF TypeOK, CatalogTyped, SoftDeleteVendor
<1>4. CASE AddToCart
  BY <1>4 DEF TypeOK, CatalogTyped, AddToCart
<1>5. CASE Reorder
  <2>1. PICK o \in RowsOf(sale) : basket' = basket \cup sale[o].lines
    BY <1>5 DEF Reorder
  <2>2. sale[o] \in SaleRow
    BY <2>1, ElementOfSeq DEF TypeOK, RowsOf, SaleRow
  <2>3. sale[o].lines \subseteq Products
    BY <2>2 DEF SaleRow
  <2> QED BY <1>5, <2>1, <2>3 DEF TypeOK, CatalogTyped, Reorder
<1>6. CASE PlaceFromCart \/ OrderOnBehalf
  BY <1>6 DEF TypeOK, CatalogTyped, PlaceFromCart, OrderOnBehalf
<1>7. CASE MarkPayoutPaid \/ Quiet \/ UNCHANGED marketVars
  BY <1>7 DEF TypeOK, CatalogTyped, MarkPayoutPaid, Quiet, marketVars, tables
<1>8. CASE \E w \in Handlers : Receive(w) \/ Commit(w) \/ Fail(w)
  BY <1>8 DEF TypeOK, CatalogTyped, Receive, Commit, Fail, LoadPart, TotalPayable, Arrive, SetStatus, SettlePayout, tables
<1> QED BY <1>1, <1>2, <1>3, <1>4, <1>5, <1>6, <1>7, <1>8 DEF MarketNext

-----------------------------------------------------------------------------
(* What vendor orders keep in any case: what they are and what they earn.  *)
Keeps(k) ==
  /\ part'[k].order = part[k].order /\ part'[k].vendor = part[k].vendor
  /\ part'[k].gross = part[k].gross /\ part'[k].commission = part[k].commission
  /\ part'[k].net = part[k].net

LEMMA PartRows ==
  ASSUME TypeOK
  PROVE  DOMAIN part = RowsOf(part) /\ \A n \in RowsOf(part) : part[n] \in PartRow
BY LenProperties, ElementOfSeq DEF TypeOK, RowsOf

LEMMA PayoutRows ==
  ASSUME TypeOK
  PROVE  DOMAIN payout = RowsOf(payout) /\ \A n \in RowsOf(payout) : payout[n] \in PayoutRow
BY LenProperties, ElementOfSeq DEF TypeOK, RowsOf

LEMMA SaleRows ==
  ASSUME TypeOK
  PROVE  DOMAIN sale = RowsOf(sale) /\ \A n \in RowsOf(sale) : sale[n] \in SaleRow
BY LenProperties, ElementOfSeq DEF TypeOK, RowsOf, SaleRow

(* A status change touches status and raced of one row.                    *)
LEMMA StatusSet ==
  ASSUME TypeOK, NEW w \in Handlers, SetStatus(w)
  PROVE  /\ req[w].part \in RowsOf(part) /\ req[w] \in StatusRequest
         /\ part' \in Seq(PartRow) /\ RowsOf(part') = RowsOf(part)
         /\ \A k \in RowsOf(part) : Keeps(k) /\ part'[k].payout = part[k].payout
         /\ \A k \in RowsOf(part) \ {req[w].part} : part'[k] = part[k]
         /\ part'[req[w].part].status = req[w].to
         /\ ~ part'[req[w].part].raced =>
              ~ part[req[w].part].raced /\ part[req[w].part].status = req[w].from
<1>1. PICK r \in StatusRequest : r = req[w] /\ r.part \in RowsOf(part)
  BY DEF SetStatus, TypeOK
<1>2. PICK n \in RowsOf(part) : n = r.part
  BY <1>1
<1>3. PICK q \in Seq(PartRow) : q = part
  BY DEF TypeOK
<1>4. DOMAIN q = RowsOf(q) /\ \A k \in RowsOf(q) : q[k] \in PartRow
  BY <1>3, PartRows
<1>5. PICK u : u = [q[n] EXCEPT !.status = r.to, !.raced = q[n].raced \/ q[n].status # r.from]
  OBVIOUS
<1>6. /\ u \in PartRow /\ u.status = r.to /\ (~ u.raced => ~ q[n].raced /\ q[n].status = r.from)
      /\ u.order = q[n].order /\ u.vendor = q[n].vendor /\ u.gross = q[n].gross
      /\ u.commission = q[n].commission /\ u.net = q[n].net /\ u.payout = q[n].payout
  <2>1. q[n] \in PartRow /\ r.to \in PartStatuses
    BY <1>2, <1>3, <1>4 DEF StatusRequest
  <2> QED BY <1>5, <2>1 DEF PartRow
<1>7. part' = [q EXCEPT ![n] = u]
  BY <1>1, <1>2, <1>3, <1>5 DEF SetStatus
<1>8. part' \in Seq(PartRow) /\ Len(part') = Len(q)
  BY <1>2, <1>3, <1>6, <1>7, ExceptSeq DEF RowsOf
<1>9. RowsOf(part') = RowsOf(q)
  BY <1>8 DEF RowsOf
<1>10. part'[n] = u /\ \A k \in RowsOf(q) \ {n} : part'[k] = q[k]
  BY <1>2, <1>3, <1>4, <1>7
<1>11. \A k \in RowsOf(q) : Keeps(k) /\ part'[k].payout = part[k].payout
  BY <1>3, <1>6, <1>10 DEF Keeps
<1> QED BY <1>1, <1>2, <1>3, <1>6, <1>8, <1>9, <1>10, <1>11

(* A payout attaches what is payable now, and touches nothing else.        *)
LEMMA PayoutSettles ==
  ASSUME TypeOK, NEW w \in Handlers, SettlePayout(w)
  PROVE  /\ req[w] \in PayoutRequest
         /\ part' \in Seq(PartRow) /\ RowsOf(part') = RowsOf(part)
         /\ \A k \in RowsOf(part) : /\ Keeps(k) /\ part'[k].status = part[k].status
                                    /\ part'[k].raced = part[k].raced
         /\ \A k \in PayableTo(req[w].vendor) : part'[k].payout = Len(payout) + 1
         /\ \A k \in RowsOf(part) \ PayableTo(req[w].vendor) : part'[k] = part[k]
         /\ payout' \in Seq(PayoutRow) /\ Len(payout') = Len(payout) + 1 /\ Len(payout) \in Nat
         /\ \A m \in RowsOf(payout) : payout'[m] = payout[m]
         /\ payout'[Len(payout) + 1] = [vendor |-> req[w].vendor, amount |-> req[w].amount,
                                        status |-> "pending", orders |-> req[w].orders,
                                        touched |-> req[w].touched]
<1>1. PICK r \in PayoutRequest : r = req[w]
  BY DEF SettlePayout, TypeOK
<1>2. PICK q \in Seq(PartRow) : q = part
  BY DEF TypeOK
<1>3. PICK ps \in Seq(PayoutRow) : ps = payout
  BY DEF TypeOK
<1>4. PICK z \in Nat : z = Len(ps)
  BY LenProperties
<1>5. \A k \in RowsOf(q) : q[k] \in PartRow
  BY <1>2, PartRows
<1>6. PICK new : new = [vendor |-> r.vendor, amount |-> r.amount,
                        status |-> "pending", orders |-> r.orders, touched |-> r.touched]
  OBVIOUS
<1>7. new \in PayoutRow
  BY <1>6 DEF PayoutRow, PayoutRequest
<1>8. payout' = Append(ps, new)
  BY <1>1, <1>3, <1>6 DEF SettlePayout
<1>9. /\ payout' \in Seq(PayoutRow) /\ Len(payout') = z + 1
      /\ payout'[z + 1] = new /\ \A m \in RowsOf(ps) : payout'[m] = ps[m]
  BY <1>3, <1>4, <1>7, <1>8, AppendProperties DEF RowsOf
<1>10. part' = [n \in RowsOf(q) |-> IF n \in PayableTo(r.vendor)
                                    THEN [q[n] EXCEPT !.payout = z + 1] ELSE q[n]]
  <2>1. \A n \in RowsOf(q) : n \in PayableTo(r.vendor) <=> Attachable(n, r.vendor)
    BY <1>2 DEF PayableTo, Attachable
  <2>2. part' = [n \in RowsOf(q) |-> IF Attachable(n, r.vendor)
                                     THEN [q[n] EXCEPT !.payout = z + 1] ELSE q[n]]
    BY <1>1, <1>2, <1>3, <1>4 DEF SettlePayout
  <2> QED BY <2>1, <2>2
<1>11. PICK f : f = part'
  OBVIOUS
<1>12. \A n \in RowsOf(q) : /\ f[n] \in PartRow
                            /\ f[n].order = q[n].order /\ f[n].vendor = q[n].vendor
                            /\ f[n].gross = q[n].gross /\ f[n].commission = q[n].commission
                            /\ f[n].net = q[n].net /\ f[n].status = q[n].status
                            /\ f[n].raced = q[n].raced
                            /\ n \in PayableTo(r.vendor) => f[n].payout = z + 1
                            /\ n \notin PayableTo(r.vendor) => f[n] = q[n]
  <2> SUFFICES ASSUME NEW n \in RowsOf(q)
               PROVE  /\ f[n] \in PartRow
                      /\ f[n].order = q[n].order /\ f[n].vendor = q[n].vendor
                      /\ f[n].gross = q[n].gross /\ f[n].commission = q[n].commission
                      /\ f[n].net = q[n].net /\ f[n].status = q[n].status
                      /\ f[n].raced = q[n].raced
                      /\ n \in PayableTo(r.vendor) => f[n].payout = z + 1
                      /\ n \notin PayableTo(r.vendor) => f[n] = q[n]
    OBVIOUS
  <2>1. PICK row \in PartRow : row = q[n]
    BY <1>5
  <2>2. CASE n \in PayableTo(r.vendor)
    <3>1. PICK y \in Nat : y = z + 1
      OBVIOUS
    <3>2. f[n] = [row EXCEPT !.payout = y]
      BY <1>10, <1>11, <2>1, <2>2, <3>1
    <3>3. /\ f[n] \in PartRow /\ f[n].payout = y
          /\ f[n].order = row.order /\ f[n].vendor = row.vendor
          /\ f[n].gross = row.gross /\ f[n].commission = row.commission
          /\ f[n].net = row.net /\ f[n].status = row.status /\ f[n].raced = row.raced
      BY <3>2 DEF PartRow
    <3> QED BY <2>1, <2>2, <3>1, <3>3
  <2>3. CASE n \notin PayableTo(r.vendor)
    <3>1. f[n] = row
      BY <1>10, <1>11, <2>1, <2>3
    <3> QED BY <2>1, <2>3, <3>1
  <2> QED BY <2>2, <2>3
<1>13. f \in Seq(PartRow) /\ Len(f) = Len(q)
  <2>1. DOMAIN f = RowsOf(q) /\ f = [n \in RowsOf(q) |-> f[n]]
    BY <1>10, <1>11
  <2>2. f \in [RowsOf(q) -> PartRow]
    BY <1>12, <2>1
  <2>3. Len(q) \in Nat
    BY LenProperties
  <2>4. f \in Seq(PartRow)
    BY <2>2, <2>3, SeqDef DEF RowsOf
  <2> QED BY <2>1, <2>3, <2>4, LenProperties DEF RowsOf
<1>14. RowsOf(f) = RowsOf(q)
  BY <1>13 DEF RowsOf
<1>15. \A k \in RowsOf(q) : Keeps(k) /\ part'[k].status = part[k].status /\ part'[k].raced = part[k].raced
  BY <1>2, <1>11, <1>12 DEF Keeps
<1>16. PayableTo(r.vendor) \subseteq RowsOf(q)
  BY <1>2 DEF PayableTo
<1> QED BY <1>1, <1>2, <1>3, <1>4, <1>6, <1>9, <1>11, <1>12, <1>13, <1>14, <1>15, <1>16

(* Whoever changes a vendor's orders touches the payouts being made.       *)
LEMMA Touches ==
  ASSUME TypeOK, NEW w \in Handlers, NEW v, NEW ns \in SUBSET Nat, Touch(w, v, ns)
  PROVE  /\ req' \in [Handlers -> {NoReq} \cup StatusRequest \cup PayoutRequest]
         /\ req'[w] = NoReq
         /\ \A x \in Handlers \ {w} :
              \/ req'[x] = req[x] /\ ~ (stage[x] = "settle" /\ req[x].vendor = v)
              \/ /\ stage[x] = "settle" /\ req'[x] \in PayoutRequest
                 /\ req'[x].vendor = req[x].vendor /\ req'[x].orders = req[x].orders
                 /\ req'[x].amount = req[x].amount
                 /\ req'[x].touched = req[x].touched \cup ns
<1>1. \A x \in Handlers \ {w} :
        \/ req'[x] = req[x] /\ ~ (stage[x] = "settle" /\ req[x].vendor = v)
        \/ /\ stage[x] = "settle" /\ req'[x] \in PayoutRequest
           /\ req'[x].vendor = req[x].vendor /\ req'[x].orders = req[x].orders
           /\ req'[x].amount = req[x].amount
           /\ req'[x].touched = req[x].touched \cup ns
  <2> SUFFICES ASSUME NEW x \in Handlers \ {w}
               PROVE  \/ req'[x] = req[x] /\ ~ (stage[x] = "settle" /\ req[x].vendor = v)
                      \/ /\ stage[x] = "settle" /\ req'[x] \in PayoutRequest
                         /\ req'[x].vendor = req[x].vendor /\ req'[x].orders = req[x].orders
                         /\ req'[x].amount = req[x].amount
                         /\ req'[x].touched = req[x].touched \cup ns
    OBVIOUS
  <2>1. CASE stage[x] = "settle" /\ req[x].vendor = v
    <3>1. PICK r \in PayoutRequest : r = req[x]
      BY <2>1 DEF TypeOK
    <3>2. req'[x] = [r EXCEPT !.touched = r.touched \cup ns]
      BY <2>1, <3>1 DEF Touch
    <3> QED BY <2>1, <3>1, <3>2 DEF PayoutRequest
  <2>2. CASE ~ (stage[x] = "settle" /\ req[x].vendor = v)
    BY <2>2 DEF Touch
  <2> QED BY <2>1, <2>2
<1>2. req'[w] = NoReq
  BY DEF Touch
<1>3. req' = [x \in Handlers |-> req'[x]]
  BY DEF Touch
<1>4. \A x \in Handlers : req'[x] \in {NoReq} \cup StatusRequest \cup PayoutRequest
  BY <1>1, <1>2 DEF TypeOK
<1> QED BY <1>1, <1>2, <1>3, <1>4

(* Both who touch do so to orders there are, and end.                      *)
LEMMA Toucher ==
  ASSUME TypeOK, NEW w \in Handlers, SetStatus(w) \/ SettlePayout(w)
  PROVE  /\ MoveTo(w, "idle")
         /\ \E v, ns : ns \in SUBSET Nat /\ Touch(w, v, ns)
<1>1. CASE SetStatus(w)
  <2>1. req[w].part \in Nat
    BY <1>1, StatusSet DEF RowsOf
  <2> QED BY <1>1, <2>1 DEF SetStatus
<1>2. CASE SettlePayout(w)
  <2>1. {n \in RowsOf(part) : Attachable(n, req[w].vendor)} \in SUBSET Nat
    BY DEF RowsOf
  <2> QED BY <1>2, <2>1 DEF SettlePayout
<1> QED BY <1>1, <1>2

-----------------------------------------------------------------------------
(* Type correctness, and what is frozen.                                   *)

(* An order placed: every part there was stays, the new ones are its own.  *)
LEMMA SaleAppends ==
  ASSUME TypeOK, NEW row \in SaleRow, Sells(row)
  PROVE  /\ sale' \in Seq(SaleRow) /\ Len(sale) + 1 \in Nat \ {0}
         /\ RowsOf(sale') = RowsOf(sale) \cup {Len(sale) + 1} /\ Len(sale) + 1 \notin RowsOf(sale)
         /\ \A o \in RowsOf(sale) : sale'[o] = sale[o]
         /\ sale'[Len(sale) + 1] = row
<1>1. PICK q \in Seq(SaleRow) : q = sale
  BY DEF TypeOK, SaleRow
<1>2. PICK z \in Nat : z = Len(q)
  BY LenProperties
<1>3. sale' = Append(q, row)
  BY <1>1 DEF Sells
<1>4. /\ Append(q, row) \in Seq(SaleRow) /\ Len(Append(q, row)) = z + 1
      /\ \A i \in 1..z : Append(q, row)[i] = q[i]
      /\ Append(q, row)[z + 1] = row
  BY <1>2, AppendProperties
<1>5. 1..(z + 1) = (1..z) \cup {z + 1} /\ z + 1 \notin 1..z /\ z + 1 \in Nat \ {0}
  OBVIOUS
<1> QED BY <1>1, <1>2, <1>3, <1>4, <1>5 DEF RowsOf

LEMMA SalesTypedNext ==
  ASSUME TypeOK, [MarketNext]_marketVars
  PROVE  SalesTyped'
<1>0. SalesTyped
  BY TypeParts
<1>1. CASE UNCHANGED <<sale, part, stage, req, started>> /\ PayoutsMarked
  <2>1. RowsOf(payout') = RowsOf(payout)
    <3>1. DOMAIN payout' = RowsOf(payout') /\ DOMAIN payout = RowsOf(payout)
      BY <1>1, PayoutRows, LenProperties DEF PayoutsMarked, RowsOf
    <3> QED BY <1>1, <3>1 DEF PayoutsMarked
  <2>2. \A m \in RowsOf(payout) : payout'[m].vendor = payout[m].vendor
    BY <1>1, PayoutRows DEF PayoutsMarked
  <2> QED BY <1>0, <1>1, <2>1, <2>2 DEF SalesTyped, PayoutsMarked
<1>2. CASE UNCHANGED <<sale, part, payout>>
  BY <1>0, <1>2 DEF SalesTyped
<1>3. CASE \E w \in Handlers : SetStatus(w)
  <2>1. PICK w \in Handlers : SetStatus(w)
    BY <1>3
  <2>2. /\ part' \in Seq(PartRow) /\ RowsOf(part') = RowsOf(part)
        /\ \A k \in RowsOf(part) : Keeps(k) /\ part'[k].payout = part[k].payout
    BY <2>1, StatusSet
  <2>3. UNCHANGED <<sale, payout>>
    BY <2>1 DEF SetStatus
  <2> QED BY <1>0, <2>2, <2>3 DEF SalesTyped, Keeps
<1>4. CASE \E w \in Handlers : SettlePayout(w)
  <2>1. PICK w \in Handlers : SettlePayout(w)
    BY <1>4
  <2> DEFINE v == req[w].vendor
  <2>3. /\ part' \in Seq(PartRow) /\ RowsOf(part') = RowsOf(part)
        /\ \A k \in RowsOf(part) : Keeps(k)
        /\ \A k \in PayableTo(v) : part'[k].payout = Len(payout) + 1
        /\ \A k \in RowsOf(part) \ PayableTo(v) : part'[k] = part[k]
        /\ payout' \in Seq(PayoutRow) /\ Len(payout') = Len(payout) + 1 /\ Len(payout) \in Nat
        /\ \A m \in RowsOf(payout) : payout'[m] = payout[m]
        /\ payout'[Len(payout) + 1].vendor = v
    <3>1. payout'[Len(payout) + 1] = [vendor |-> v, amount |-> req[w].amount,
                                      status |-> "pending", orders |-> req[w].orders,
                                      touched |-> req[w].touched]
      BY <2>1, PayoutSettles
    <3>2. payout'[Len(payout) + 1].vendor = v
      BY <3>1
    <3> QED BY <2>1, <3>2, PayoutSettles
  <2>4. sale' = sale
    BY <2>1 DEF SettlePayout
  <2>5. Len(payout) + 1 \in RowsOf(payout') /\ RowsOf(payout) \subseteq RowsOf(payout')
    BY <2>3 DEF RowsOf
  <2>6. \A k \in RowsOf(part) : part'[k].payout # 0 =>
          part'[k].payout \in RowsOf(payout') /\ payout'[part'[k].payout].vendor = part'[k].vendor
    <3> SUFFICES ASSUME NEW k \in RowsOf(part), part'[k].payout # 0
                 PROVE  part'[k].payout \in RowsOf(payout') /\ payout'[part'[k].payout].vendor = part'[k].vendor
      OBVIOUS
    <3>1. CASE k \in PayableTo(v)
      <4>1. part[k].vendor = v /\ part'[k].vendor = v
        BY <3>1, <2>3 DEF PayableTo, Payable, Keeps
      <4> QED BY <3>1, <4>1, <2>3, <2>5
    <3>2. CASE k \notin PayableTo(v)
      <4>1. part'[k] = part[k]
        BY <3>2, <2>3
      <4> QED BY <4>1, <2>3, <2>5, <1>0 DEF SalesTyped
    <3> QED BY <3>1, <3>2
  <2>7. \A k \in RowsOf(part) : part'[k].order \in RowsOf(sale)
    BY <2>3, <1>0 DEF SalesTyped, Keeps
  <2> QED BY <1>0, <2>3, <2>4, <2>6, <2>7 DEF SalesTyped
<1>5. CASE \E row \in SaleRow : Sells(row)
  <2>1. PICK row \in SaleRow : Sells(row)
    BY <1>5
  <2>2. row.lines \in SUBSET Products /\ SplitOrder(row.lines) /\ payout' = payout
    BY <2>1 DEF Sells, SaleRow
  <2>3. /\ part' \in Seq(PartRow)
        /\ \A n \in RowsOf(part) : part'[n] = part[n]
        /\ \A n \in RowsOf(part') \ RowsOf(part) :
             \E v \in SellersOf(row.lines) : part'[n] = Part(Len(sale) + 1, v, row.lines)
    BY <2>2, SplitAppends
  <2>4. /\ sale' \in Seq(SaleRow) /\ Len(sale) + 1 \in Nat \ {0}
        /\ RowsOf(sale') = RowsOf(sale) \cup {Len(sale) + 1}
    BY <2>1, SaleAppends
  <2>5. \A n \in RowsOf(part') \ RowsOf(part) : part'[n].order = Len(sale) + 1 /\ part'[n].payout = 0
    BY <2>2, <2>3, <2>4, PartType
  <2>6. \A n \in RowsOf(part') : part'[n].order \in RowsOf(sale')
    BY <1>0, <2>3, <2>4, <2>5 DEF SalesTyped
  <2>7. \A n \in RowsOf(part') : part'[n].payout # 0 =>
          part'[n].payout \in RowsOf(payout) /\ payout[part'[n].payout].vendor = part'[n].vendor
    BY <1>0, <2>3, <2>5 DEF SalesTyped
  <2> QED BY <1>0, <2>2, <2>3, <2>4, <2>6, <2>7 DEF SalesTyped
<1> QED BY <1>1, <1>2, <1>3, <1>4, <1>5, MarketSteps

(* The rows of the vendors' orders are never removed.                      *)
LEMMA PartsStay ==
  ASSUME TypeOK, [MarketNext]_marketVars
  PROVE  /\ RowsOf(part) \subseteq RowsOf(part')
         /\ \A n \in RowsOf(part) : Keeps(n)
         /\ \A n \in RowsOf(part) : part[n].payout # 0 => part'[n].payout = part[n].payout
<1>1. CASE part' = part
  BY <1>1 DEF Keeps
<1>2. CASE \E w \in Handlers : SetStatus(w)
  BY <1>2, StatusSet
<1>3. CASE \E w \in Handlers : SettlePayout(w)
  <2>1. PICK w \in Handlers : SettlePayout(w)
    BY <1>3
  <2>2. /\ RowsOf(part') = RowsOf(part) /\ \A k \in RowsOf(part) : Keeps(k)
        /\ \A k \in RowsOf(part) \ PayableTo(req[w].vendor) : part'[k] = part[k]
    BY <2>1, PayoutSettles
  <2>3. \A k \in PayableTo(req[w].vendor) : part[k].payout = 0
    BY DEF PayableTo, Payable
  <2> QED BY <2>2, <2>3
<1>4. CASE \E row \in SaleRow : Sells(row)
  <2>1. PICK row \in SaleRow : Sells(row)
    BY <1>4
  <2>2. row.lines \in SUBSET Products /\ SplitOrder(row.lines)
    BY <2>1 DEF Sells, SaleRow
  <2> QED BY <2>2, SplitAppends DEF Keeps
<1> QED BY <1>1, <1>2, <1>3, <1>4, MarketSteps

LEMMA RequestsTypedNext ==
  ASSUME TypeOK, [MarketNext]_marketVars
  PROVE  RequestsTyped'
<1>0. RequestsTyped
  BY TypeParts
<1>1. RowsOf(part) \subseteq RowsOf(part')
  BY PartsStay
<1>2. started' \in Nat /\ edits' \in Nat
  <2>0. started \in Nat /\ edits \in Nat
    BY DEF TypeOK
  <2>1. CASE edits' = edits + 1 /\ started' = started
    BY <2>0, <2>1
  <2>2. CASE edits' = edits /\ started' = started + 1
    BY <2>0, <2>2
  <2>3. CASE edits' = edits /\ started' = started
    BY <2>0, <2>3
  <2>4. CASE CreateProduct \/ SubmitProduct \/ ModerateProduct \/ UpdateVendor \/ SoftDeleteVendor
    BY <2>4, <2>1 DEF CreateProduct, SubmitProduct, ModerateProduct, UpdateVendor, SoftDeleteVendor, Edit
  <2>5. CASE Reorder \/ OrderOnBehalf \/ MarkPayoutPaid
    BY <2>5, <2>1 DEF Reorder, OrderOnBehalf, MarkPayoutPaid, Edit
  <2>6. CASE AddToCart \/ PlaceFromCart \/ Quiet \/ UNCHANGED marketVars
    BY <2>6, <2>3 DEF AddToCart, PlaceFromCart, Quiet, marketVars
  <2>7. CASE \E w \in Handlers : Receive(w) \/ Commit(w) \/ Fail(w)
    BY <2>7, <2>2, <2>3 DEF Receive, Commit, Fail, LoadPart, TotalPayable, Arrive, SetStatus, SettlePayout
  <2> QED BY <2>4, <2>5, <2>6, <2>7 DEF MarketNext
<1>3. CASE UNCHANGED <<stage, req>>
  BY <1>0, <1>1, <1>2, <1>3 DEF RequestsTyped, RequestTyped
<1>4. CASE \E w \in Handlers : Fail(w)
  <2>1. PICK w \in Handlers : Fail(w)
    BY <1>4
  <2>2. stage' = [stage EXCEPT ![w] = "idle"] /\ req' = [req EXCEPT ![w] = NoReq]
    BY <2>1 DEF Fail, Done, MoveTo
  <2> QED BY <1>0, <1>1, <1>2, <2>2 DEF RequestsTyped, RequestTyped
<1>5. CASE \E w \in Handlers : LoadPart(w)
  <2>1. PICK w \in Handlers, n \in RowsOf(part), to \in PartStatuses :
          Arrive(w, "set", [kind |-> "status", part |-> n, from |-> part[n].status, to |-> to])
    BY <1>5 DEF LoadPart
  <2>2. PICK r : r = [kind |-> "status", part |-> n, from |-> part[n].status, to |-> to]
    OBVIOUS
  <2>3. r \in StatusRequest /\ r.part \in RowsOf(part)
    <3>1. part[n] \in PartRow /\ n \in Nat \ {0}
      BY PartRows DEF RowsOf
    <3> QED BY <2>2, <3>1 DEF StatusRequest, PartRow
  <2>4. stage' = [stage EXCEPT ![w] = "set"] /\ req' = [req EXCEPT ![w] = r]
    BY <2>1, <2>2 DEF Arrive, MoveTo
  <2> QED BY <1>0, <1>1, <1>2, <2>3, <2>4 DEF RequestsTyped, RequestTyped
<1>6. CASE \E w \in Handlers : TotalPayable(w)
  <2>1. PICK w \in Handlers, v \in Vendors :
          Arrive(w, "settle", [kind |-> "payout", vendor |-> v, orders |-> PayableTo(v),
                               amount |-> Net(PayableTo(v)), touched |-> {}])
    BY <1>6 DEF TotalPayable, PayableTo
  <2>2. PICK r : r = [kind |-> "payout", vendor |-> v, orders |-> PayableTo(v),
                      amount |-> Net(PayableTo(v)), touched |-> {}]
    OBVIOUS
  <2>3. Net(PayableTo(v)) \in Int /\ PayableTo(v) \in SUBSET Nat
    <3>1. PayableTo(v) \subseteq RowsOf(part) /\ IsFiniteSet(PayableTo(v))
      <4>1. PayableTo(v) \subseteq RowsOf(part)
        BY DEF PayableTo
      <4>2. IsFiniteSet(RowsOf(part))
        BY FS_Interval, LenProperties DEF RowsOf, TypeOK
      <4> QED BY <4>1, <4>2, FS_Subset
    <3>2. [n \in PayableTo(v) |-> part[n].net] \in [PayableTo(v) -> Int]
      BY <3>1, PartRows DEF PartRow
    <3>3. PayableTo(v) \in SUBSET Nat
      BY <3>1 DEF RowsOf
    <3> QED BY <3>1, <3>2, <3>3, SumInt DEF Net
  <2>4. r \in PayoutRequest
    BY <2>2, <2>3 DEF PayoutRequest
  <2>5. stage' = [stage EXCEPT ![w] = "settle"] /\ req' = [req EXCEPT ![w] = r]
    BY <2>1, <2>2 DEF Arrive, MoveTo
  <2> QED BY <1>0, <1>1, <1>2, <2>4, <2>5 DEF RequestsTyped, RequestTyped
<1>7. CASE \E w \in Handlers : SetStatus(w) \/ SettlePayout(w)
  <2>1. PICK w \in Handlers : /\ \E v, ns : ns \in SUBSET Nat /\ Touch(w, v, ns)
                               /\ MoveTo(w, "idle")
    BY <1>7, Toucher
  <2>2. /\ req' \in [Handlers -> {NoReq} \cup StatusRequest \cup PayoutRequest]
        /\ req'[w] = NoReq
        /\ \A x \in Handlers \ {w} :
             \/ req'[x] = req[x]
             \/ stage[x] = "settle" /\ req'[x] \in PayoutRequest
    BY <2>1, Touches
  <2>3. stage' = [stage EXCEPT ![w] = "idle"]
    BY <2>1 DEF MoveTo
  <2>4. \A x \in Handlers : RequestTyped(stage[x], req[x])'
    <3> SUFFICES ASSUME NEW x \in Handlers PROVE RequestTyped(stage[x], req[x])'
      OBVIOUS
    <3>1. CASE x = w
      BY <3>1, <2>2, <2>3, <1>0 DEF RequestTyped, RequestsTyped
    <3>2. CASE x # w
      BY <3>2, <2>2, <2>3, <1>0, <1>1 DEF RequestTyped, RequestsTyped
    <3> QED BY <3>1, <3>2
  <2> QED BY <1>0, <1>2, <2>2, <2>3, <2>4 DEF RequestsTyped
<1>8. \/ UNCHANGED <<stage, req>>
      \/ \E w \in Handlers : Fail(w) \/ LoadPart(w) \/ TotalPayable(w) \/ SetStatus(w) \/ SettlePayout(w)
  BY MarketSteps DEF Sells, Receive
<1> QED BY <1>3, <1>4, <1>5, <1>6, <1>7, <1>8

LEMMA MarketTypeNext ==
  ASSUME TypeOK, [MarketNext]_marketVars
  PROVE  TypeOK'
<1>1. CatalogTyped' /\ SalesTyped' /\ RequestsTyped'
  BY CatalogTypedNext, SalesTypedNext, RequestsTypedNext
<1> QED BY <1>1 DEF TypeOK, CatalogTyped, SalesTyped, RequestsTyped, RequestTyped, SaleRow

-----------------------------------------------------------------------------
(* What is bought was offered.                                             *)

LEMMA OfferedWhenSold ==
  ASSUME TypeOK, Offered, NEW row \in SaleRow, Sells(row), basket' \subseteq basket,
         ~ row.byRep => row.lines \subseteq basket
  PROVE  Offered'
<1>1. /\ RowsOf(sale') = RowsOf(sale) \cup {Len(sale) + 1}
      /\ \A o \in RowsOf(sale) : sale'[o] = sale[o]
      /\ sale'[Len(sale) + 1] = row
  BY SaleAppends
<1>2. RepLines \subseteq RepLines'
  BY <1>1 DEF RepLines
<1>3. reviewed' = reviewed /\ approval' = approval
  BY DEF Sells
<1>4. \A o \in RowsOf(sale') : ~ sale'[o].byRep => sale'[o].lines \subseteq reviewed' \cup RepLines'
  <2> SUFFICES ASSUME NEW o \in RowsOf(sale'), ~ sale'[o].byRep
               PROVE  sale'[o].lines \subseteq reviewed' \cup RepLines'
    OBVIOUS
  <2>1. CASE o \in RowsOf(sale)
    <3>1. sale[o].lines \subseteq reviewed \cup RepLines
      BY <2>1, <1>1 DEF Offered, BoughtWasApproved, RepLines
    <3> QED BY <2>1, <3>1, <1>1, <1>2, <1>3
  <2>2. CASE o = Len(sale) + 1
    <3>1. row.lines \subseteq reviewed \cup RepLines
      BY <2>2, <1>1 DEF Offered
    <3> QED BY <2>2, <3>1, <1>1, <1>2, <1>3
  <2> QED BY <2>1, <2>2, <1>1
<1>5. BoughtWasApproved'
  BY <1>4 DEF BoughtWasApproved, RepLines
<1>6. basket' \subseteq reviewed' \cup RepLines'
  BY <1>2, <1>3 DEF Offered
<1>7. \A p \in Products : approval'[p] = "approved" => p \in reviewed'
  BY <1>3 DEF Offered
<1> QED BY <1>5, <1>6, <1>7 DEF Offered

(* As long as no order comes, more is reviewed and the cart takes only     *)
(* what is offered.                                                        *)
LEMMA OfferedOtherwise ==
  ASSUME Offered, sale' = sale, reviewed \subseteq reviewed',
         basket' \subseteq reviewed' \cup RepLines,
         \A p \in Products : approval'[p] = "approved" => p \in reviewed'
  PROVE  Offered'
<1>1. RepLines' = RepLines
  BY DEF RepLines, RowsOf
<1>2. \A o \in RowsOf(sale) : ~ sale[o].byRep => sale[o].lines \subseteq reviewed \cup RepLines
  BY DEF Offered, BoughtWasApproved, RepLines
<1>3. \A o \in RowsOf(sale') : ~ sale'[o].byRep => sale'[o].lines \subseteq reviewed' \cup RepLines'
  BY <1>1, <1>2
<1>4. BoughtWasApproved'
  BY <1>3 DEF BoughtWasApproved, RepLines
<1> QED BY <1>1, <1>4 DEF Offered

LEMMA OfferedNext ==
  ASSUME TypeOK, Offered, [MarketNext]_marketVars
  PROVE  Offered'
<1>0. /\ basket \subseteq reviewed \cup RepLines
      /\ \A p \in Products : approval[p] = "approved" => p \in reviewed
  BY DEF Offered
<1>1. CASE PlaceFromCart
  <2>1. PICK row : row = [byRep |-> FALSE, lines |-> basket]
    OBVIOUS
  <2>2. /\ row \in SaleRow /\ Sells(row) /\ basket' = {} /\ row.lines = basket
    BY <1>1, <2>1, SaleSteps
  <2> QED BY <2>2, OfferedWhenSold
<1>2. CASE OrderOnBehalf
  <2>1. PICK lines \in SUBSET Products :
          /\ Sells([byRep |-> TRUE, lines |-> lines]) /\ basket' = basket
          /\ [byRep |-> TRUE, lines |-> lines] \in SaleRow
    BY <1>2, SaleSteps
  <2>2. PICK row : row = [byRep |-> TRUE, lines |-> lines]
    OBVIOUS
  <2>3. row \in SaleRow /\ Sells(row) /\ row.byRep
    BY <2>1, <2>2
  <2> QED BY <2>1, <2>3, OfferedWhenSold
<1>3. CASE CreateProduct \/ SubmitProduct
  <2>1. \A p \in Products : approval'[p] = "approved" => approval[p] = "approved"
    BY <1>3 DEF CreateProduct, SubmitProduct, TypeOK
  <2>2. UNCHANGED <<sale, reviewed, basket>>
    BY <1>3 DEF CreateProduct, SubmitProduct
  <2> QED BY <1>0, <2>1, <2>2, OfferedOtherwise
<1>4. CASE ModerateProduct
  <2>1. PICK p \in Products, verdict \in {"approved", "rejected"} :
          /\ approval' = [approval EXCEPT ![p] = verdict]
          /\ reviewed' = IF verdict = "approved" THEN reviewed \cup {p} ELSE reviewed
    BY <1>4 DEF ModerateProduct
  <2>2. \A r \in Products : approval'[r] = "approved" => r \in reviewed'
    BY <2>1, <1>0 DEF TypeOK
  <2>3. UNCHANGED <<sale, basket>> /\ reviewed \subseteq reviewed'
    BY <1>4, <2>1 DEF ModerateProduct
  <2> QED BY <1>0, <2>2, <2>3, OfferedOtherwise
<1>5. CASE AddToCart
  <2>1. PICK p \in Products : approval[p] = "approved" /\ basket' = basket \cup {p}
    BY <1>5 DEF AddToCart, Buyable
  <2>2. UNCHANGED <<approval, reviewed, sale>>
    BY <1>5 DEF AddToCart
  <2> QED BY <1>0, <2>1, <2>2, OfferedOtherwise
<1>6. CASE Reorder
  <2>1. PICK o \in RowsOf(sale) : basket' = basket \cup sale[o].lines
    BY <1>6 DEF Reorder
  <2>2. UNCHANGED <<approval, reviewed, sale>>
    BY <1>6 DEF Reorder
  <2>3. sale[o].lines \subseteq reviewed \cup RepLines
    <3>1. CASE sale[o].byRep
      BY <2>1, <3>1 DEF RepLines
    <3>2. CASE ~ sale[o].byRep
      BY <2>1, <3>2 DEF Offered, BoughtWasApproved, RepLines
    <3> QED BY <3>1, <3>2
  <2> QED BY <1>0, <2>1, <2>2, <2>3, OfferedOtherwise
<1>7. CASE UNCHANGED <<approval, reviewed, basket, sale>>
  BY <1>0, <1>7, OfferedOtherwise
<1>8. CASE UpdateVendor \/ SoftDeleteVendor \/ MarkPayoutPaid \/ Quiet \/ UNCHANGED marketVars
  BY <1>8, <1>7 DEF UpdateVendor, SoftDeleteVendor, MarkPayoutPaid, Quiet, marketVars, tables
<1>9. CASE \E w \in Handlers : Receive(w) \/ Commit(w) \/ Fail(w)
  BY <1>9, <1>7 DEF Receive, Commit, Fail, LoadPart, TotalPayable, Arrive, SetStatus, SettlePayout, tables
<1> QED BY <1>1, <1>2, <1>3, <1>4, <1>5, <1>6, <1>8, <1>9 DEF MarketNext

-----------------------------------------------------------------------------
(* The parts of an order are its sellers' shares.                          *)
LEMMA PartsFitNext ==
  ASSUME TypeOK, PartsFit, [MarketNext]_marketVars
  PROVE  PartsFit'
<1>1. CASE UNCHANGED <<sale, part>>
  BY <1>1 DEF PartsFit, RowsOf
<1>2. ASSUME sale' = sale, RowsOf(part') = RowsOf(part), \A k \in RowsOf(part) : Keeps(k)
      PROVE  PartsFit'
  <2>1. RowsOf(sale') = RowsOf(sale)
    BY <1>2 DEF RowsOf
  <2>2. \A n \in RowsOf(part') :
          /\ part'[n].vendor \in SellersOf(sale'[part'[n].order].lines)
          /\ part'[n].gross = Gross(part'[n].vendor, sale'[part'[n].order].lines)
    BY <1>2 DEF PartsFit, Keeps
  <2>3. \A m, n \in RowsOf(part') :
          part'[m].order = part'[n].order /\ part'[m].vendor = part'[n].vendor => m = n
    BY <1>2 DEF PartsFit, Keeps
  <2>4. \A o \in RowsOf(sale') : \A v \in SellersOf(sale'[o].lines) :
          \E n \in RowsOf(part') : part'[n].order = o /\ part'[n].vendor = v
    BY <1>2, <2>1 DEF PartsFit, Keeps
  <2> QED BY <2>2, <2>3, <2>4 DEF PartsFit
<1>3. CASE \E w \in Handlers : SetStatus(w)
  BY <1>3, <1>2, StatusSet DEF SetStatus
<1>4. CASE \E w \in Handlers : SettlePayout(w)
  BY <1>4, <1>2, PayoutSettles DEF SettlePayout
<1>5. CASE \E row \in SaleRow : Sells(row)
  <2>1. PICK row \in SaleRow : Sells(row)
    BY <1>5
  <2>2. PICK lines \in SUBSET Products : lines = row.lines
    BY DEF SaleRow
  <2>3. PICK o \in Nat \ {0} : o = Len(sale) + 1
    BY <2>1, SaleAppends
  <2>4. SplitOrder(lines)
    BY <2>1, <2>2 DEF Sells
  <2>5. /\ RowsOf(sale') = RowsOf(sale) \cup {o} /\ o \notin RowsOf(sale)
        /\ \A k \in RowsOf(sale) : sale'[k] = sale[k]
        /\ sale'[o].lines = lines
    BY <2>1, <2>2, <2>3, SaleAppends
  <2>6. /\ RowsOf(part) \subseteq RowsOf(part')
        /\ \A n \in RowsOf(part) : part'[n] = part[n]
        /\ \A n \in RowsOf(part') \ RowsOf(part) :
             \E v \in SellersOf(lines) : part'[n] = Part(o, v, lines)
        /\ \A v \in SellersOf(lines) : \E n \in RowsOf(part') \ RowsOf(part) : part'[n] = Part(o, v, lines)
        /\ \A m, n \in RowsOf(part') \ RowsOf(part) : part'[m] = part'[n] => m = n
    BY <2>3, <2>4, SplitAppends
  <2>7. \A v \in SellersOf(lines) : /\ Part(o, v, lines).order = o /\ Part(o, v, lines).vendor = v
                                    /\ Part(o, v, lines).gross = Gross(v, lines)
    BY PartType
  <2>8. \A n \in RowsOf(part') \ RowsOf(part) :
          /\ part'[n].order = o /\ part'[n].vendor \in SellersOf(lines)
          /\ part'[n].gross = Gross(part'[n].vendor, lines)
          /\ part'[n] = Part(o, part'[n].vendor, lines)
    BY <2>6, <2>7
  <2>9. \A n \in RowsOf(part) : part[n].order \in RowsOf(sale) /\ part[n].order # o
    BY <2>5 DEF TypeOK
  <2>10. \A n \in RowsOf(part') :
           /\ part'[n].vendor \in SellersOf(sale'[part'[n].order].lines)
           /\ part'[n].gross = Gross(part'[n].vendor, sale'[part'[n].order].lines)
    <3> SUFFICES ASSUME NEW n \in RowsOf(part')
                 PROVE  /\ part'[n].vendor \in SellersOf(sale'[part'[n].order].lines)
                        /\ part'[n].gross = Gross(part'[n].vendor, sale'[part'[n].order].lines)
      OBVIOUS
    <3>1. CASE n \in RowsOf(part)
      <4>1. part'[n] = part[n] /\ sale'[part[n].order] = sale[part[n].order]
        BY <3>1, <2>5, <2>6, <2>9
      <4> QED BY <3>1, <4>1 DEF PartsFit
    <3>2. CASE n \notin RowsOf(part)
      <4>1. sale'[part'[n].order].lines = lines
        BY <3>2, <2>5, <2>8
      <4> QED BY <3>2, <4>1, <2>8
    <3> QED BY <3>1, <3>2
  <2>11. \A m, n \in RowsOf(part') :
           part'[m].order = part'[n].order /\ part'[m].vendor = part'[n].vendor => m = n
    <3> SUFFICES ASSUME NEW m \in RowsOf(part'), NEW n \in RowsOf(part'),
                        part'[m].order = part'[n].order, part'[m].vendor = part'[n].vendor
                 PROVE  m = n
      OBVIOUS
    <3>1. CASE m \in RowsOf(part) /\ n \in RowsOf(part)
      BY <3>1, <2>6 DEF PartsFit
    <3>2. CASE m \notin RowsOf(part) /\ n \notin RowsOf(part)
      <4>1. part'[m] = part'[n]
        BY <3>2, <2>8
      <4> QED BY <3>2, <4>1, <2>6
    <3>3. CASE m \in RowsOf(part) <=> n \notin RowsOf(part)
      BY <3>3, <2>6, <2>8, <2>9
    <3> QED BY <3>1, <3>2, <3>3
  <2>12. \A k \in RowsOf(sale') : \A v \in SellersOf(sale'[k].lines) :
           \E n \in RowsOf(part') : part'[n].order = k /\ part'[n].vendor = v
    <3> SUFFICES ASSUME NEW k \in RowsOf(sale'), NEW v \in SellersOf(sale'[k].lines)
                 PROVE  \E n \in RowsOf(part') : part'[n].order = k /\ part'[n].vendor = v
      OBVIOUS
    <3>1. CASE k \in RowsOf(sale)
      <4>1. PICK n \in RowsOf(part) : part[n].order = k /\ part[n].vendor = v
        BY <3>1, <2>5 DEF PartsFit
      <4> QED BY <4>1, <2>6
    <3>2. CASE k = o
      <4>1. PICK n \in RowsOf(part') : part'[n] = Part(o, v, lines)
        BY <3>2, <2>5, <2>6
      <4> QED BY <3>2, <4>1, <2>5, <2>7
    <3> QED BY <3>1, <3>2, <2>5
  <2> QED BY <2>10, <2>11, <2>12 DEF PartsFit
<1> QED BY <1>1, <1>3, <1>4, <1>5, MarketSteps

-----------------------------------------------------------------------------
(* Only what was delivered is paid for.                                    *)

(* Whoever is about to change a status has read one it may change.         *)
StatusReadingsHold ==
  \A w \in Handlers : stage[w] = "set" => <<req[w].from, req[w].to>> \in Transitions

TotalsHold == \A w \in Handlers : stage[w] = "settle" => Totals(req[w])

LEMMA ReadingParts == ReadingsHold <=> StatusReadingsHold /\ TotalsHold
BY DEF ReadingsHold, StatusReadingsHold, TotalsHold

LEMMA StatusReadingsNext ==
  ASSUME TypeOK, StatusReadingsHold, [MarketNext]_marketVars
  PROVE  StatusReadingsHold'
<1>1. CASE UNCHANGED <<stage, req>>
  BY <1>1 DEF StatusReadingsHold
<1>2. CASE \E w \in Handlers : LoadPart(w)
  <2>1. PICK w \in Handlers, n \in RowsOf(part), to \in PartStatuses :
          /\ <<part[n].status, to>> \in Transitions
          /\ Arrive(w, "set", [kind |-> "status", part |-> n, from |-> part[n].status, to |-> to])
    BY <1>2 DEF LoadPart
  <2>2. PICK r : r = [kind |-> "status", part |-> n, from |-> part[n].status, to |-> to]
    OBVIOUS
  <2>3. stage' = [stage EXCEPT ![w] = "set"] /\ req' = [req EXCEPT ![w] = r]
    BY <2>1, <2>2 DEF Arrive, MoveTo
  <2>4. <<r.from, r.to>> \in Transitions
    BY <2>1, <2>2
  <2> QED BY <2>3, <2>4 DEF StatusReadingsHold, TypeOK
<1>3. CASE \E w \in Handlers : TotalPayable(w)
  <2>1. PICK w \in Handlers : /\ stage' = [stage EXCEPT ![w] = "settle"]
                               /\ \E r : req' = [req EXCEPT ![w] = r]
    BY <1>3 DEF TotalPayable, Arrive, MoveTo
  <2> QED BY <2>1 DEF StatusReadingsHold, TypeOK
<1>4. CASE \E w \in Handlers : Fail(w)
  BY <1>4 DEF Fail, Done, MoveTo, StatusReadingsHold, TypeOK
<1>5. CASE \E w \in Handlers : SetStatus(w) \/ SettlePayout(w)
  <2>1. PICK w \in Handlers : /\ \E v, ns : ns \in SUBSET Nat /\ Touch(w, v, ns)
                               /\ MoveTo(w, "idle")
    BY <1>5, Toucher
  <2>2. \A x \in Handlers \ {w} : req'[x] = req[x] \/ stage[x] = "settle"
    BY <2>1, Touches
  <2>3. stage' = [stage EXCEPT ![w] = "idle"]
    BY <2>1 DEF MoveTo
  <2> QED BY <2>2, <2>3 DEF StatusReadingsHold, TypeOK
<1>6. \/ UNCHANGED <<stage, req>>
      \/ \E w \in Handlers : Fail(w) \/ LoadPart(w) \/ TotalPayable(w) \/ SetStatus(w) \/ SettlePayout(w)
  BY MarketSteps DEF Sells, Receive
<1> QED BY <1>1, <1>2, <1>3, <1>4, <1>5, <1>6

LEMMA PaidForDeliveredNext ==
  ASSUME TypeOK, StatusReadingsHold, PaidForDelivered, [MarketNext]_marketVars
  PROVE  PaidForDelivered'
<1>1. CASE part' = part
  BY <1>1 DEF PaidForDelivered, RowsOf
<1>2. CASE \E w \in Handlers : SetStatus(w)
  <2>1. PICK w \in Handlers : SetStatus(w)
    BY <1>2
  <2>2. PICK n \in RowsOf(part) : n = req[w].part
    BY <2>1, StatusSet
  <2>3. /\ RowsOf(part') = RowsOf(part)
        /\ \A k \in RowsOf(part) : part'[k].payout = part[k].payout
        /\ \A k \in RowsOf(part) \ {n} : part'[k] = part[k]
        /\ ~ part'[n].raced => ~ part[n].raced /\ part[n].status = req[w].from
    BY <2>1, <2>2, StatusSet
  <2>4. <<req[w].from, req[w].to>> \in Transitions
    BY <2>1 DEF SetStatus, StatusReadingsHold
  <2>5. req[w].from # "delivered"
    BY <2>4 DEF Transitions
  <2>6. \A k \in RowsOf(part') : part'[k].payout # 0 /\ ~ part'[k].raced => part'[k].status = "delivered"
    BY <2>3, <2>5 DEF PaidForDelivered
  <2> QED BY <2>6 DEF PaidForDelivered
<1>3. CASE \E w \in Handlers : SettlePayout(w)
  <2>1. PICK w \in Handlers : SettlePayout(w)
    BY <1>3
  <2>2. /\ RowsOf(part') = RowsOf(part)
        /\ \A k \in RowsOf(part) : part'[k].status = part[k].status /\ part'[k].raced = part[k].raced
        /\ \A k \in RowsOf(part) \ PayableTo(req[w].vendor) : part'[k] = part[k]
    BY <2>1, PayoutSettles
  <2>3. \A k \in PayableTo(req[w].vendor) : part[k].status = "delivered"
    BY DEF PayableTo, Payable
  <2>4. \A k \in RowsOf(part') : part'[k].payout # 0 /\ ~ part'[k].raced => part'[k].status = "delivered"
    BY <2>2, <2>3 DEF PaidForDelivered
  <2> QED BY <2>4 DEF PaidForDelivered
<1>4. CASE \E row \in SaleRow : Sells(row)
  <2>1. PICK row \in SaleRow : Sells(row)
    BY <1>4
  <2>2. row.lines \in SUBSET Products /\ SplitOrder(row.lines) /\ Len(sale) + 1 \in Nat \ {0}
    BY <2>1, SaleAppends DEF Sells, SaleRow
  <2>3. /\ \A n \in RowsOf(part) : part'[n] = part[n]
        /\ \A n \in RowsOf(part') \ RowsOf(part) : part'[n].payout = 0
    BY <2>2, SplitAppends, PartType
  <2> QED BY <2>3 DEF PaidForDelivered
<1> QED BY <1>1, <1>2, <1>3, <1>4, MarketSteps

-----------------------------------------------------------------------------
(* A payout pays what it settles.                                          *)

LEMMA NetStays ==
  ASSUME NEW S \in SUBSET RowsOf(part), \A n \in S : Keeps(n)
  PROVE  SumOf([n \in S |-> part'[n].net]) = SumOf([n \in S |-> part[n].net])
<1>1. [n \in S |-> part'[n].net] = [n \in S |-> part[n].net]
  BY DEF Keeps
<1> QED BY <1>1

(* A request's total is left alone by what concerns other vendors' orders, *)
(* by new ones, and by changes of orders it is told of.                    *)
LEMMA TotalsStay ==
  ASSUME NEW r, NEW s, Totals(r),
         s.vendor = r.vendor, s.orders = r.orders, s.amount = r.amount, r.touched \subseteq s.touched,
         RowsOf(part) \subseteq RowsOf(part'),
         \A k \in RowsOf(part) :
           Keeps(k) /\ (k \in s.touched \/ part[k].vendor # r.vendor \/ part'[k] = part[k]),
         \A k \in RowsOf(part') \ RowsOf(part) : part'[k].status # "delivered"
  PROVE  /\ s.orders \subseteq RowsOf(part') /\ s.amount = SumOf([n \in s.orders |-> part'[n].net])
         /\ \A n \in RowsOf(part') \ s.touched :
              n \in s.orders <=> /\ part'[n].vendor = s.vendor /\ part'[n].status = "delivered"
                                 /\ part'[n].payout = 0
<1>1. /\ r.orders \subseteq RowsOf(part) /\ r.amount = SumOf([n \in r.orders |-> part[n].net])
      /\ \A n \in RowsOf(part) \ r.touched :
           n \in r.orders <=> /\ part[n].vendor = r.vendor /\ part[n].status = "delivered"
                              /\ part[n].payout = 0
  BY DEF Totals, Net, PayableTo, Payable
<1>2. SumOf([n \in r.orders |-> part'[n].net]) = SumOf([n \in r.orders |-> part[n].net])
  BY <1>1, NetStays
<1>3. ASSUME NEW n \in RowsOf(part') \ s.touched
      PROVE  n \in s.orders <=> /\ part'[n].vendor = s.vendor /\ part'[n].status = "delivered"
                                /\ part'[n].payout = 0
  <2>1. CASE n \in RowsOf(part) /\ part'[n] = part[n]
    BY <1>1, <1>3, <2>1
  <2>2. CASE n \in RowsOf(part) /\ part[n].vendor # r.vendor
    BY <1>1, <1>3, <2>2 DEF Keeps
  <2>3. CASE n \notin RowsOf(part)
    BY <1>1, <1>3, <2>3
  <2> QED BY <1>3, <2>1, <2>2, <2>3
<1> QED BY <1>1, <1>2, <1>3

(* What is settled or moved is told to the payouts being made.             *)
LEMMA TotalsNext ==
  ASSUME TypeOK, TotalsHold, [MarketNext]_marketVars
  PROVE  TotalsHold'
<1> SUFFICES ASSUME NEW x \in Handlers, stage'[x] = "settle" PROVE Totals(req[x])'
  BY DEF TotalsHold
<1>1. ASSUME stage[x] = "settle",
             req'[x].vendor = req[x].vendor, req'[x].orders = req[x].orders,
             req'[x].amount = req[x].amount, req[x].touched \subseteq req'[x].touched,
             RowsOf(part) \subseteq RowsOf(part'),
             \A k \in RowsOf(part) :
               /\ Keeps(k)
               /\ k \in req'[x].touched \/ part[k].vendor # req[x].vendor \/ part'[k] = part[k],
             \A k \in RowsOf(part') \ RowsOf(part) : part'[k].status # "delivered"
      PROVE  Totals(req[x])'
  <2>1. PICK r : r = req[x]
    OBVIOUS
  <2>2. PICK s : s = req'[x]
    OBVIOUS
  <2>3. Totals(r)
    BY <1>1, <2>1 DEF TotalsHold
  <2>4. /\ s.orders \subseteq RowsOf(part') /\ s.amount = SumOf([n \in s.orders |-> part'[n].net])
        /\ \A n \in RowsOf(part') \ s.touched :
             n \in s.orders <=> /\ part'[n].vendor = s.vendor /\ part'[n].status = "delivered"
                                /\ part'[n].payout = 0
    BY <1>1, <2>1, <2>2, <2>3, TotalsStay
  <2> QED BY <2>2, <2>4 DEF Totals, Net, PayableTo, Payable
<1>2. CASE part' = part /\ stage[x] = "settle" /\ req'[x] = req[x]
  BY <1>1, <1>2 DEF Keeps
<1>3. CASE \E w \in Handlers : Fail(w)
  <2>1. PICK w \in Handlers : Fail(w)
    BY <1>3
  <2>2. stage' = [stage EXCEPT ![w] = "idle"] /\ req' = [req EXCEPT ![w] = NoReq] /\ part' = part
    BY <2>1 DEF Fail, Done, MoveTo, tables
  <2> QED BY <1>2, <2>2 DEF TypeOK
<1>4. CASE \E w \in Handlers : LoadPart(w)
  <2>1. PICK w \in Handlers : /\ stage' = [stage EXCEPT ![w] = "set"]
                               /\ (\E r : req' = [req EXCEPT ![w] = r]) /\ part' = part
    BY <1>4 DEF LoadPart, Arrive, MoveTo, tables
  <2> QED BY <1>2, <2>1 DEF TypeOK
<1>5. CASE \E w \in Handlers : TotalPayable(w)
  <2>1. PICK w \in Handlers, v \in Vendors :
          Arrive(w, "settle", [kind |-> "payout", vendor |-> v, orders |-> PayableTo(v),
                               amount |-> Net(PayableTo(v)), touched |-> {}])
    BY <1>5 DEF TotalPayable, PayableTo
  <2>2. PICK S : S = PayableTo(v)
    OBVIOUS
  <2>3. PICK a : a = Net(S)
    OBVIOUS
  <2>4. PICK r : r = [kind |-> "payout", vendor |-> v, orders |-> S, amount |-> a, touched |-> {}]
    OBVIOUS
  <2>5. /\ stage' = [stage EXCEPT ![w] = "settle"]
        /\ req' = [req EXCEPT ![w] = r] /\ part' = part
    BY <2>1, <2>2, <2>3, <2>4 DEF Arrive, MoveTo, tables
  <2>6. CASE x # w
    BY <1>2, <2>5, <2>6 DEF TypeOK
  <2>7. CASE x = w
    <3>1. req'[x] = r
      BY <2>5, <2>7 DEF TypeOK
    <3>2. /\ S \subseteq RowsOf(part) /\ a = SumOf([n \in S |-> part[n].net])
          /\ \A n \in RowsOf(part) :
               n \in S <=> part[n].vendor = v /\ part[n].status = "delivered" /\ part[n].payout = 0
      BY <2>2, <2>3 DEF PayableTo, Payable, Net
    <3>3. r.orders = S /\ r.amount = a /\ r.vendor = v
      BY <2>4
    <3> QED BY <2>5, <3>1, <3>2, <3>3 DEF Totals, Net, PayableTo, Payable, RowsOf
  <2> QED BY <2>6, <2>7
<1>6. ASSUME NEW w \in Handlers, NEW v, NEW ns \in SUBSET Nat, Touch(w, v, ns), MoveTo(w, "idle"),
             RowsOf(part') = RowsOf(part),
             \A k \in RowsOf(part) : Keeps(k) /\ (part'[k] = part[k] \/ (k \in ns /\ part[k].vendor = v))
      PROVE  Totals(req[x])'
  <2>1. x # w /\ stage[x] = "settle"
    BY <1>6 DEF MoveTo, TypeOK
  <2>2. CASE req'[x] = req[x] /\ req[x].vendor # v
    BY <1>1, <1>6, <2>1, <2>2
  <2>3. CASE /\ req'[x].vendor = req[x].vendor /\ req'[x].orders = req[x].orders
             /\ req'[x].amount = req[x].amount
             /\ req'[x].touched = req[x].touched \cup ns
    BY <1>1, <1>6, <2>1, <2>3
  <2> QED BY <1>6, <2>1, <2>2, <2>3, Touches
<1>7. CASE \E w \in Handlers : SetStatus(w)
  <2>1. PICK w \in Handlers : SetStatus(w)
    BY <1>7
  <2>2. PICK n \in RowsOf(part) : n = req[w].part
    BY <2>1, StatusSet
  <2>3. Touch(w, part[n].vendor, {n}) /\ MoveTo(w, "idle")
    BY <2>1, <2>2 DEF SetStatus
  <2>4. /\ RowsOf(part') = RowsOf(part)
        /\ \A k \in RowsOf(part) : Keeps(k) /\ (part'[k] = part[k] \/ k = n)
    BY <2>1, <2>2, StatusSet
  <2>5. {n} \in SUBSET Nat
    BY DEF RowsOf
  <2> QED BY <1>6, <2>3, <2>4, <2>5
<1>8. CASE \E w \in Handlers : SettlePayout(w)
  <2>1. PICK w \in Handlers : SettlePayout(w)
    BY <1>8
  <2>2. PICK v : v = req[w].vendor
    OBVIOUS
  <2>3. PICK P : P = PayableTo(v)
    OBVIOUS
  <2>4. P = {n \in RowsOf(part) : Attachable(n, v)}
    BY <2>3 DEF PayableTo, Attachable
  <2>5. Touch(w, v, P) /\ MoveTo(w, "idle")
    BY <2>1, <2>2, <2>4 DEF SettlePayout
  <2>6. /\ RowsOf(part') = RowsOf(part)
        /\ \A k \in RowsOf(part) : Keeps(k) /\ (part'[k] = part[k] \/ k \in P)
    BY <2>1, <2>2, <2>3, PayoutSettles
  <2>7. P \in SUBSET Nat /\ \A k \in P : part[k].vendor = v
    BY <2>3 DEF PayableTo, Payable, RowsOf
  <2> QED BY <1>6, <2>5, <2>6, <2>7
<1>9. CASE \E row \in SaleRow : Sells(row)
  <2>1. PICK row \in SaleRow : Sells(row)
    BY <1>9
  <2>2. /\ row.lines \in SUBSET Products /\ SplitOrder(row.lines) /\ Len(sale) + 1 \in Nat \ {0}
        /\ UNCHANGED <<stage, req>>
    BY <2>1, SaleAppends DEF Sells, SaleRow
  <2>3. /\ RowsOf(part) \subseteq RowsOf(part')
        /\ \A n \in RowsOf(part) : part'[n] = part[n]
        /\ \A n \in RowsOf(part') \ RowsOf(part) : part'[n].status = "pending"
    BY <2>2, SplitAppends, PartType
  <2> QED BY <1>1, <2>2, <2>3 DEF Keeps
<1>10. \/ UNCHANGED <<part, stage, req>>
       \/ \E w \in Handlers : Fail(w) \/ LoadPart(w) \/ TotalPayable(w) \/ SetStatus(w) \/ SettlePayout(w)
       \/ \E row \in SaleRow : Sells(row)
  BY MarketSteps DEF Receive
<1> QED BY <1>2, <1>3, <1>4, <1>5, <1>7, <1>8, <1>9, <1>10

(* A payout's row stands by what it settled, whatever comes later: nobody  *)
(* takes an order off a payout, or settles it again.                       *)
LEMMA PaysStays ==
  ASSUME NEW row, NEW m, m # 0, Pays(row, m), RowsOf(part) \subseteq RowsOf(part'),
         \A k \in RowsOf(part) : Keeps(k) /\ (part'[k].payout = m <=> part[k].payout = m),
         \A k \in RowsOf(part') \ RowsOf(part) : part'[k].payout = 0
  PROVE  /\ row.orders \subseteq RowsOf(part')
         /\ row.amount = SumOf([n \in row.orders |-> part'[n].net])
         /\ \A n \in RowsOf(part') \ row.touched : n \in row.orders <=> part'[n].payout = m
<1>1. /\ row.orders \subseteq RowsOf(part) /\ row.amount = SumOf([n \in row.orders |-> part[n].net])
      /\ \A n \in RowsOf(part) \ row.touched : n \in row.orders <=> part[n].payout = m
  BY DEF Pays, Net
<1>2. SumOf([n \in row.orders |-> part'[n].net]) = SumOf([n \in row.orders |-> part[n].net])
  BY <1>1, NetStays
<1> QED BY <1>1, <1>2

LEMMA PayoutsPayNext ==
  ASSUME TypeOK, TotalsHold, PayoutsPay, [MarketNext]_marketVars
  PROVE  PayoutsPay'
<1>0. 0 \notin RowsOf(payout)
  BY DEF RowsOf
<1>1. ASSUME NEW m \in RowsOf(payout),
             payout'[m].orders = payout[m].orders, payout'[m].touched = payout[m].touched,
             payout'[m].amount = payout[m].amount, RowsOf(part) \subseteq RowsOf(part'),
             \A k \in RowsOf(part) : Keeps(k) /\ (part'[k].payout = m <=> part[k].payout = m),
             \A k \in RowsOf(part') \ RowsOf(part) : part'[k].payout = 0
      PROVE  Pays(payout[m], m)'
  <2>1. PICK row : row = payout[m]
    OBVIOUS
  <2>2. Pays(row, m) /\ m # 0
    BY <1>0, <2>1 DEF PayoutsPay
  <2>3. /\ row.orders \subseteq RowsOf(part')
        /\ row.amount = SumOf([n \in row.orders |-> part'[n].net])
        /\ \A n \in RowsOf(part') \ row.touched : n \in row.orders <=> part'[n].payout = m
    BY <1>1, <2>2, PaysStays
  <2> QED BY <1>1, <2>1, <2>3 DEF Pays, Net
<1>2. CASE part' = part /\ RowsOf(payout') = RowsOf(payout)
           /\ \A m \in RowsOf(payout) : /\ payout'[m].amount = payout[m].amount
                                        /\ payout'[m].orders = payout[m].orders
                                        /\ payout'[m].touched = payout[m].touched
  BY <1>1, <1>2 DEF PayoutsPay, Keeps
<1>3. CASE PayoutsMarked /\ part' = part
  <2>1. DOMAIN payout' = RowsOf(payout') /\ DOMAIN payout = RowsOf(payout)
    BY <1>3, PayoutRows, LenProperties DEF PayoutsMarked, RowsOf
  <2> QED BY <1>2, <1>3, <2>1 DEF PayoutsMarked
<1>4. CASE UNCHANGED <<part, payout>>
  BY <1>2, <1>4 DEF RowsOf
<1>5. CASE \E w \in Handlers : SetStatus(w)
  <2>1. PICK w \in Handlers : SetStatus(w)
    BY <1>5
  <2>2. /\ RowsOf(part') = RowsOf(part) /\ payout' = payout
        /\ \A k \in RowsOf(part) : Keeps(k) /\ part'[k].payout = part[k].payout
    BY <2>1, StatusSet DEF SetStatus
  <2>3. RowsOf(payout') = RowsOf(payout)
    BY <2>2 DEF RowsOf
  <2> QED BY <1>1, <2>2, <2>3 DEF PayoutsPay
<1>6. CASE \E w \in Handlers : SettlePayout(w)
  <2>1. PICK w \in Handlers : SettlePayout(w)
    BY <1>6
  <2>2. PICK z \in Nat \ {0} : z = Len(payout) + 1
    BY <2>1, PayoutSettles
  <2>3. PICK r : r = req[w]
    OBVIOUS
  <2>4. PICK P : P = PayableTo(r.vendor)
    OBVIOUS
  <2>5. /\ RowsOf(part') = RowsOf(part) /\ \A k \in RowsOf(part) : Keeps(k)
        /\ \A k \in P : part'[k].payout = z
        /\ \A k \in RowsOf(part) \ P : part'[k] = part[k]
        /\ payout'[z] = [vendor |-> r.vendor, amount |-> r.amount, status |-> "pending",
                         orders |-> r.orders, touched |-> r.touched]
        /\ \A m \in RowsOf(payout) : payout'[m] = payout[m]
    BY <2>1, <2>2, <2>3, <2>4, PayoutSettles
  <2>6. RowsOf(payout') = RowsOf(payout) \cup {z} /\ z \notin RowsOf(payout)
    <3>1. Len(payout') = Len(payout) + 1 /\ Len(payout) \in Nat
      BY <2>1, PayoutSettles
    <3>2. PICK y \in Nat : y = Len(payout)
      BY <3>1
    <3>3. 1..(y + 1) = (1..y) \cup {y + 1} /\ y + 1 \notin 1..y
      OBVIOUS
    <3> QED BY <2>2, <3>1, <3>2, <3>3 DEF RowsOf
  <2>7. P \subseteq RowsOf(part) /\ \A k \in P : part[k].payout = 0
    BY <2>4 DEF PayableTo, Payable
  <2>8. \A k \in RowsOf(part) : part[k].payout # z
    BY <2>2, <2>6 DEF TypeOK
  <2>9. ASSUME NEW m \in RowsOf(payout) PROVE Pays(payout[m], m)'
    <3>1. m # z /\ m # 0
      BY <1>0, <2>6
    <3>2. \A k \in RowsOf(part) : part'[k].payout = m <=> part[k].payout = m
      BY <2>5, <2>7, <3>1
    <3> QED BY <1>1, <2>5, <3>2
  <2>10. Pays(payout[z], z)'
    <3>1. Totals(r)
      BY <2>1, <2>3 DEF SettlePayout, TotalsHold
    <3>2. /\ r.orders \subseteq RowsOf(part) /\ r.amount = SumOf([n \in r.orders |-> part[n].net])
          /\ \A n \in RowsOf(part) \ r.touched : n \in r.orders <=> n \in P
      BY <2>4, <3>1 DEF Totals, Net
    <3>3. SumOf([n \in r.orders |-> part'[n].net]) = SumOf([n \in r.orders |-> part[n].net])
      BY <2>5, <3>2, NetStays
    <3>4. \A n \in RowsOf(part) : n \in P <=> part'[n].payout = z
      BY <2>5, <2>7, <2>8
    <3>5. PICK row : row = payout'[z]
      OBVIOUS
    <3>6. row.orders = r.orders /\ row.amount = r.amount /\ row.touched = r.touched
      BY <2>5, <3>5
    <3> QED BY <2>5, <3>2, <3>3, <3>4, <3>5, <3>6 DEF Pays, Net
  <2> QED BY <2>6, <2>9, <2>10 DEF PayoutsPay
<1>7. CASE \E row \in SaleRow : Sells(row)
  <2>1. PICK row \in SaleRow : Sells(row)
    BY <1>7
  <2>2. /\ row.lines \in SUBSET Products /\ SplitOrder(row.lines) /\ Len(sale) + 1 \in Nat \ {0}
        /\ payout' = payout
    BY <2>1, SaleAppends DEF Sells, SaleRow
  <2>3. /\ RowsOf(part) \subseteq RowsOf(part')
        /\ \A n \in RowsOf(part) : part'[n] = part[n]
        /\ \A n \in RowsOf(part') \ RowsOf(part) : part'[n].payout = 0
    BY <2>2, SplitAppends, PartType
  <2>4. \A k \in RowsOf(part) : Keeps(k) /\ part'[k].payout = part[k].payout
    BY <2>3 DEF Keeps
  <2>5. RowsOf(payout') = RowsOf(payout)
    BY <2>2 DEF RowsOf
  <2> QED BY <1>1, <2>2, <2>3, <2>4, <2>5 DEF PayoutsPay
<1> QED BY <1>3, <1>4, <1>5, <1>6, <1>7, MarketSteps

-----------------------------------------------------------------------------
(* The sum of an order's parts is that of its lines.                       *)
LEMMA PartsAddUp ==
  ASSUME TypeOK, PartsFit
  PROVE  SplitIsWhole
<1> SUFFICES ASSUME NEW o \in RowsOf(sale)
             PROVE  /\ SumOf([n \in PartsOf(o) |-> part[n].gross])
                         = SumOf([p \in sale[o].lines \ HouseGoods |-> RowTotal[p]])
                    /\ \A p \in sale[o].lines \ HouseGoods :
                         Cardinality({n \in PartsOf(o) : part[n].vendor = VendorOf[p]}) = 1
  BY DEF SplitIsWhole
<1>1. PICK lines \in SUBSET Products : lines = sale[o].lines
  BY SaleRows DEF SaleRow
<1>2. PICK A : A = PartsOf(o)
  OBVIOUS
<1>3. PICK B : B = lines \ HouseGoods
  OBVIOUS
<1>4. A \subseteq RowsOf(part) /\ IsFiniteSet(A)
  <2>1. A \subseteq RowsOf(part)
    BY <1>2 DEF PartsOf
  <2>2. IsFiniteSet(RowsOf(part))
    BY FS_Interval, LenProperties DEF RowsOf, TypeOK
  <2> QED BY <2>1, <2>2, FS_Subset
<1>5. B \subseteq Products /\ IsFiniteSet(B)
  BY <1>3, FS_Subset, MarketplaceAssumption
<1>6. \A p \in B : VendorOf[p] \in SellersOf(lines)
  BY <1>3, <1>5 DEF SellersOf, HouseGoods
<1>7. \A p \in B : \E n \in A : /\ part[n].vendor = VendorOf[p]
                                /\ \A k \in A : part[k].vendor = VendorOf[p] => k = n
  BY <1>1, <1>2, <1>6 DEF PartsFit, PartsOf
<1>8. \A n \in A : /\ part[n].vendor \in SellersOf(lines)
                   /\ part[n].gross = Gross(part[n].vendor, lines)
  BY <1>1, <1>2 DEF PartsFit, PartsOf
<1>9. PICK F : F = [n \in A |-> [p \in B |-> IF VendorOf[p] = part[n].vendor THEN RowTotal[p] ELSE 0]]
  OBVIOUS
<1>10. F \in [A -> [B -> Int]]
  BY <1>5, <1>9, MarketplaceAssumption
<1>11. \A n \in A : SumOf(F[n]) = part[n].gross
  <2> SUFFICES ASSUME NEW n \in A PROVE SumOf(F[n]) = part[n].gross
    OBVIOUS
  <2>1. PICK v : v = part[n].vendor
    OBVIOUS
  <2>2. PICK T : T = LinesOf(v, lines)
    OBVIOUS
  <2>3. v \in SellersOf(lines) /\ part[n].gross = Gross(v, lines)
    BY <1>8, <2>1
  <2>4. T \in SUBSET B
    BY <1>3, <2>2, <2>3 DEF LinesOf, SellersOf, HouseGoods
  <2>5. PICK f : f = F[n]
    OBVIOUS
  <2>6. f = [p \in B |-> IF VendorOf[p] = v THEN RowTotal[p] ELSE 0] /\ f \in [B -> Int]
    BY <1>9, <1>10, <2>1, <2>5
  <2>7. \A p \in B \ T : f[p] = 0
    BY <1>3, <2>2, <2>6 DEF LinesOf
  <2>8. SumOf(f) = SumOf(On(f, T))
    BY <1>5, <2>4, <2>6, <2>7, SumSupport
  <2>9. On(f, T) = [p \in T |-> RowTotal[p]]
    BY <2>2, <2>4, <2>6 DEF On, LinesOf
  <2>10. Gross(v, lines) = SumOf([p \in T |-> RowTotal[p]])
    BY <2>2 DEF Gross
  <2> QED BY <2>3, <2>5, <2>8, <2>9, <2>10
<1>12. \A p \in B : SumOf([n \in A |-> F[n][p]]) = RowTotal[p]
  <2> SUFFICES ASSUME NEW p \in B PROVE SumOf([n \in A |-> F[n][p]]) = RowTotal[p]
    OBVIOUS
  <2>1. PICK n \in A : /\ part[n].vendor = VendorOf[p]
                       /\ \A k \in A : part[k].vendor = VendorOf[p] => k = n
    BY <1>7
  <2>2. PICK g : g = [k \in A |-> F[k][p]]
    OBVIOUS
  <2>3. g \in [A -> Int]
    BY <1>10, <2>2
  <2>4. g[n] = RowTotal[p] /\ \A k \in A \ {n} : g[k] = 0
    BY <1>9, <2>1, <2>2
  <2>5. SumOf(g) = g[n]
    BY <1>4, <2>3, <2>4, SumSingle
  <2> QED BY <2>2, <2>4, <2>5
<1>13. SumOf([n \in A |-> SumOf(F[n])]) = SumOf([p \in B |-> SumOf([n \in A |-> F[n][p]])])
  BY <1>4, <1>5, <1>10, SumSwap
<1>14. [n \in A |-> SumOf(F[n])] = [n \in A |-> part[n].gross]
  BY <1>11
<1>15. [p \in B |-> SumOf([n \in A |-> F[n][p]])] = [p \in B |-> RowTotal[p]]
  BY <1>12
<1>16. \A p \in B : Cardinality({n \in A : part[n].vendor = VendorOf[p]}) = 1
  <2> SUFFICES ASSUME NEW p \in B PROVE Cardinality({n \in A : part[n].vendor = VendorOf[p]}) = 1
    OBVIOUS
  <2>1. PICK n \in A : /\ part[n].vendor = VendorOf[p]
                       /\ \A k \in A : part[k].vendor = VendorOf[p] => k = n
    BY <1>7
  <2>2. {k \in A : part[k].vendor = VendorOf[p]} = {n}
    BY <2>1
  <2> QED BY <2>2, FS_Singleton
<1> QED BY <1>1, <1>2, <1>3, <1>13, <1>14, <1>15, <1>16

-----------------------------------------------------------------------------
(* The marketplace's invariant.                                            *)
LEMMA MarketInvInit == MarketInit => MarketInv
<1> SUFFICES ASSUME MarketInit PROVE MarketInv
  OBVIOUS
<1>1. sale = <<>> /\ part = <<>> /\ payout = <<>>
  BY DEF MarketInit
<1>2. RowsOf(sale) = {} /\ RowsOf(part) = {} /\ RowsOf(payout) = {}
  BY <1>1 DEF RowsOf
<1>3. CatalogTyped
  BY MarketplaceAssumption DEF MarketInit, CatalogTyped
<1>4. SalesTyped
  BY <1>1, <1>2, EmptySeq DEF SalesTyped
<1>5. RequestsTyped
  BY DEF MarketInit, RequestsTyped, RequestTyped, StatusRequest, PayoutRequest
<1>6. Offered
  BY <1>2 DEF MarketInit, Offered, BoughtWasApproved
<1>7. PartsFit
  BY <1>2 DEF PartsFit
<1>8. PayoutsPay /\ PaidForDelivered
  BY <1>2 DEF PayoutsPay, PaidForDelivered
<1>9. ReadingsHold
  BY DEF MarketInit, ReadingsHold
<1> QED BY <1>3, <1>4, <1>5, <1>6, <1>7, <1>8, <1>9, TypeParts DEF MarketInv

LEMMA MarketInvNext == MarketInv /\ [MarketNext]_marketVars => MarketInv'
<1> SUFFICES ASSUME MarketInv, [MarketNext]_marketVars PROVE MarketInv'
  OBVIOUS
<1>1. /\ TypeOK /\ Offered /\ PartsFit /\ PayoutsPay /\ PaidForDelivered
      /\ StatusReadingsHold /\ TotalsHold
  BY ReadingParts DEF MarketInv
<1>2. /\ TypeOK' /\ Offered' /\ PartsFit' /\ PayoutsPay' /\ PaidForDelivered'
      /\ StatusReadingsHold' /\ TotalsHold'
  BY <1>1, MarketTypeNext, OfferedNext, PartsFitNext, PayoutsPayNext, PaidForDeliveredNext,
     StatusReadingsNext, TotalsNext
<1>3. ReadingsHold'
  BY <1>2 DEF ReadingsHold, StatusReadingsHold, TotalsHold
<1> QED BY <1>2, <1>3 DEF MarketInv

(* The invariant holds at all times.                                       *)
THEOREM MarketInvHolds == MarketSpec => []MarketInv
BY MarketInvInit, MarketInvNext, PTL DEF MarketSpec

(* Whoever buys, moderates, sets rates or splits: the tables keep their    *)
(* shape, an order's parts are its lines, once each, and buyers order only *)
(* what was approved (SplitOrder, addItem, reorder).                       *)
THEOREM MarketOrdersAlwaysWhole == MarketSpec => []OrdersAreWhole
<1>1. MarketInv => OrdersAreWhole
  BY PartsAddUp DEF MarketInv, Offered, OrdersAreWhole
<1> QED BY <1>1, MarketInvHolds, PTL

(* A payout pays the orders it totalled, settles the same but for what     *)
(* others touched between, and what is settled was delivered, for any      *)
(* number of overlapping payouts and status changes (generatePayout,       *)
(* vendorOrderStatus).                                                     *)
THEOREM PayoutsAlwaysRight == MarketSpec => []PayoutsAreRight
<1>1. MarketInv => PayoutsAreRight
  BY DEF MarketInv, PayoutsPay, Pays, PayoutsAreRight, PayoutPaysItsOrders, SettledBy
<1> QED BY <1>1, MarketInvHolds, PTL

(* No step changes what a vendor order earns, or settles it twice          *)
(* (AttachOrdersToPayout, SetVendorOrderStatus).                           *)
THEOREM EarningsAlwaysFrozen == MarketSpec => EarningsAreFrozen
<1>1. MarketInv /\ [MarketNext]_marketVars =>
        [\A n \in RowsOf(part) :
           /\ <<part'[n].order, part'[n].vendor, part'[n].gross, part'[n].commission, part'[n].net>>
                = <<part[n].order, part[n].vendor, part[n].gross, part[n].commission, part[n].net>>
           /\ part[n].payout # 0 => part'[n].payout = part[n].payout]_marketVars
  BY PartsStay DEF MarketInv, Keeps
<1> QED BY <1>1, MarketInvHolds, PTL DEF MarketSpec, EarningsAreFrozen

=============================================================================
