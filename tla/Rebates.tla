------------------------------- MODULE Rebates -------------------------------
(***************************************************************************)
(* One rebate program, its tiers and its settlement by background jobs     *)
(* (queue/jobs/rebate.go, rebates/engine.go, modules/rebate; 0050).        *)
(*                                                                         *)
(* A settlement job reads the program and its tiers, then the customers'   *)
(* totals and who is settled already, all on the pool, and then writes all *)
(* credit notes and settlements in one transaction.                        *)
(* The unique key of rebate_settlements fails the transaction, and the     *)
(* queue runs a failed or lost job again.                                  *)
(*                                                                         *)
(* An order's created_at is the start of its transaction, its row is       *)
(* visible from the commit on: these are two steps.                        *)
(***************************************************************************)
EXTENDS Money, SequencesExt

CONSTANTS
  Workers,
  Customers,
  Tiers,       \* the tiers an admin may define: [min, rate]
  FirstTiers,  \* those there are at the start
  Frequencies, \* the periods a program may have
  Carts,       \* what customers may order: [customer, subtotal]
  FirstMonth, LastMonth,
  FirstOrders, \* the orders there are at the start
  MaxOrders,   \* bound: orders in a behaviour
  MaxJobs,     \* bound: settlements asked for in a behaviour
  MaxChanges,  \* bound: changes to program and tiers and cancelled orders
  MaxFailures  \* bound: crashes and failing reads in a behaviour

Length == [monthly |-> 1, quarterly |-> 3, annual |-> 12]
Months == FirstMonth..LastMonth

\* PeriodWindow: the key names the frequency and the first month.
Start(frequency, m) == m - (m % Length[frequency])
Key(frequency, m) == <<frequency, Start(frequency, m)>>

\* (slip) the window is one month late
WindowLate(key) == key[2] + 1 .. key[2] + Length[key[1]]

Window(key) == key[2] .. key[2] + Length[key[1]] - 1

\* The month after a period
End(key) == key[2] + Length[key[1]]

Periods  == {Key(f, m) : f \in Frequencies, m \in Months}
Accounts == Customers \X Periods

OrderRow == [customer : Customers, month : Months, subtotal : Int,
             status : {"open", "stands", "cancelled"}, since : Months]

ASSUME RebatesAssumption ==
  /\ "quarterly" \in Frequencies /\ Frequencies \subseteq DOMAIN Length
  /\ FirstMonth \in Nat /\ LastMonth \in Nat /\ FirstMonth <= LastMonth
  /\ FirstTiers \subseteq Tiers /\ Tiers \subseteq [min : Int, rate : Int]
  /\ Carts \subseteq [customer : Customers, subtotal : Int]
  /\ FirstOrders \in Seq(OrderRow)
  /\ MaxOrders \in Nat /\ MaxJobs \in Nat /\ MaxChanges \in Nat /\ MaxFailures \in Nat

VARIABLES
  month,       \* the present month
  order,       \* the orders: month is that of created_at, an "open" one is not
               \* visible yet; since is the model's: when it began to stand
  frequency,   \* rebate_programs.period
  tiers,       \* the rebate_tiers
  settlement,  \* account -> its rebate_settlements row, or NoRow
  credits,     \* account -> the credit notes issued for it
  job,         \* the queue's jobs: [ref, status, owed]; an id is a position
  pc, run,     \* worker -> where it is, and the job it runs with what it has read
  changed, failed

program == <<frequency, tiers>>
books   == <<settlement, credits>>
vars    == <<month, order, program, books, job, pc, run, changed, failed>>

NoRow == [status |-> "none"]
NoRun == [job |-> 0]
Ids(table) == 1..Len(table)

Init ==
  /\ month = FirstMonth
  /\ order = FirstOrders
  /\ frequency = "quarterly" /\ tiers = FirstTiers
  /\ settlement = [x \in Accounts |-> NoRow]
  /\ credits = [x \in Accounts |-> <<>>]
  /\ job = <<>>
  /\ pc = [w \in Workers |-> "idle"]
  /\ run = [w \in Workers |-> NoRun]
  /\ changed = 0 /\ failed = 0

-----------------------------------------------------------------------------
(* The shop and its admins                                                 *)

\* CreateOrder, in a transaction that has yet to commit.
PlaceOrder ==
  /\ Len(order) < MaxOrders
  /\ \E cart \in Carts :
       order' = Append(order, [customer |-> cart.customer, month |-> month,
                               subtotal |-> cart.subtotal, status |-> "open",
                               since |-> month])
  /\ UNCHANGED <<month, program, books, job, pc, run, changed, failed>>

Stand(n) == order' = [order EXCEPT ![n].status = "stands", ![n].since = month]

\* The transaction commits; one that is rolled back stays open here for ever.
CommitOrder ==
  /\ \E n \in Ids(order) : order[n].status = "open" /\ Stand(n)
  /\ UNCHANGED <<month, program, books, job, pc, run, changed, failed>>

\* A transition that was resolved before the order was cancelled commits after
\* it: Fire writes the state it has chosen (OrderFulfilment has the race).
ReviveOrder ==
  /\ \E n \in Ids(order) : order[n].status = "cancelled" /\ Stand(n)
  /\ UNCHANGED <<month, program, books, job, pc, run, changed, failed>>

Change ==
  /\ changed < MaxChanges /\ changed' = changed + 1
  /\ UNCHANGED <<month, books, job, pc, run, failed>>

CancelOrder ==
  /\ Change
  /\ \E n \in Ids(order) :
       order[n].status = "stands" /\ order' = [order EXCEPT ![n].status = "cancelled"]
  /\ UNCHANGED program

NextMonth ==
  /\ month < LastMonth /\ month' = month + 1
  /\ UNCHANGED <<order, program, books, job, pc, run, changed, failed>>

AddTier ==
  Change /\ (\E t \in Tiers \ tiers : tiers' = tiers \cup {t}) /\ UNCHANGED <<order, frequency>>

DeleteTier ==
  Change /\ (\E t \in tiers : tiers' = tiers \ {t}) /\ UNCHANGED <<order, frequency>>

UpdateProgram ==
  Change /\ frequency' \in Frequencies \ {frequency} /\ UNCHANGED <<order, tiers>>

\* settle: any day may be given as the reference, today is the default.
EnqueueSettle ==
  /\ Len(job) < MaxJobs
  /\ \E ref \in Months :
       job' = Append(job, [ref |-> ref, status |-> "available", owed |-> {}])
  /\ UNCHANGED <<month, order, program, books, pc, run, changed, failed>>

-----------------------------------------------------------------------------
(* SettleRebateProgram                                                     *)

Goto(w, label) == pc' = [pc EXCEPT ![w] = label]

Works == UNCHANGED failed
Breaks == failed < MaxFailures /\ failed' = failed + 1

\* A worker takes a job off the queue and loads the program and its tiers; a
\* failing read of the tiers goes unnoticed and leaves none.
Take(w) ==
  /\ pc[w] = "idle"
  /\ \E j \in Ids(job), ladder \in {tiers, {}} :
       /\ job[j].status = "available"
       /\ job' = [job EXCEPT ![j].status = "running"]
       /\ run' = [run EXCEPT ![w] = [job |-> j, key |-> Key(frequency, job[j].ref),
                                     tiers |-> ladder]]
       /\ IF ladder = tiers THEN Works ELSE Breaks
  /\ Goto(w, "read")
  /\ UNCHANGED <<month, order, program, books, changed>>

\* RebateQualifyingTotals' rows
Qualifying(c, key) ==
  {n \in Ids(order) : /\ order[n].customer = c /\ order[n].status = "stands"
                      /\ order[n].month \in Window(key)}

Settled(c, key) == settlement[<<c, key>>] # NoRow

Total(orders) == MapThenSumSet(LAMBDA n : order[n].subtotal, orders)

\* The totals, and who is settled: a failing read of these goes unnoticed too.
ReadTotals(w) ==
  /\ pc[w] = "read"
  /\ \E already \in {{c \in Customers : Settled(c, run[w].key)}, {}} :
       /\ run' = [run EXCEPT ![w] =
                    [job |-> @.job, key |-> @.key, tiers |-> @.tiers,
                     counted |-> [c \in Customers |-> Qualifying(c, @.key)],
                     total   |-> [c \in Customers |-> Total(Qualifying(c, @.key))],
                     late    |-> month >= End(@.key),
                     already |-> already]]
       /\ IF \A c \in Customers : Settled(c, run[w].key) => c \in already
          THEN Works ELSE Breaks
  /\ Goto(w, "write")
  /\ UNCHANGED <<month, order, program, books, job, changed>>

Reached(total, ladder) == {t \in ladder : t.min <= total}

\* Applicable: the highest tier reached
Applicable(total, ladder) ==
  CHOOSE t \in Reached(total, ladder) :
    \A other \in Reached(total, ladder) : t.min >= other.min

Rebate(total, ladder) == Percent(total, Applicable(total, ladder).rate)

\* Who is to be settled by what a worker has read: a row and a tier.
OwedBy(r) == {c \in Customers : r.counted[c] # {} /\ Reached(r.total[c], r.tiers) # {}}
Owed(w) == OwedBy(run[w])

\* (slip) no unique key
CollidesNever(accounts) == FALSE

\* UNIQUE (program_id, customer_id, period_key)
Collides(accounts) == \E x \in accounts : settlement[x] # NoRow

Row(w, c) == [status |-> "issued", amount |-> Rebate(run[w].total[c], run[w].tiers),
              orders |-> run[w].counted[c], late |-> run[w].late]

\* (slip) a failed job is not run again
RequeueNot(w) ==
  /\ job' = job
  /\ run' = [run EXCEPT ![w] = NoRun]
  /\ Goto(w, "idle")

\* The job goes back to the queue.
Requeue(w) ==
  /\ job' = [job EXCEPT ![run[w].job].status = "available"]
  /\ run' = [run EXCEPT ![w] = NoRun]
  /\ Goto(w, "idle")

Write(w) ==
  LET accounts == {<<c, run[w].key>> : c \in Owed(w) \ run[w].already} IN
  /\ pc[w] = "write"
  /\ IF Collides(accounts)
     THEN Requeue(w) /\ UNCHANGED books
     ELSE /\ settlement' = [x \in Accounts |-> IF x \in accounts THEN Row(w, x[1])
                                               ELSE settlement[x]]
          /\ credits' = [x \in Accounts |->
                          IF x \in accounts THEN Append(credits[x], Row(w, x[1]).amount)
                          ELSE credits[x]]
          /\ Goto(w, "complete")
          /\ UNCHANGED <<job, run>>
  /\ UNCHANGED <<month, order, program, changed, failed>>

\* The queue notes the success; owed is the model's record of it.
Complete(w) ==
  /\ pc[w] = "complete"
  /\ job' = [job EXCEPT ![run[w].job] =
               [@ EXCEPT !.status = "completed",
                         !.owed = {<<c, run[w].key>> : c \in Owed(w)}]]
  /\ run' = [run EXCEPT ![w] = NoRun]
  /\ Goto(w, "idle")
  /\ UNCHANGED <<month, order, program, books, changed, failed>>

\* The worker dies, or a statement fails, before or after the commit.
Crash(w) ==
  /\ pc[w] # "idle" /\ Breaks
  /\ Requeue(w)
  /\ UNCHANGED <<month, order, program, books, changed>>

Serve(w) ==
  Take(w) \/ ReadTotals(w) \/ Write(w) \/ Complete(w)

Rest == (\A w \in Workers : pc[w] = "idle") /\ UNCHANGED vars

Next ==
  \/ PlaceOrder \/ CommitOrder \/ CancelOrder \/ ReviveOrder \/ NextMonth
  \/ AddTier \/ DeleteTier \/ UpdateProgram \/ EnqueueSettle
  \/ \E w \in Workers : Serve(w) \/ Crash(w)
  \/ Rest

Spec == Init /\ [][Next]_vars

\* The queue's workers keep working; nobody else needs to do anything.
FairSpec == Spec /\ \A w \in Workers : WF_vars(Serve(w))

-----------------------------------------------------------------------------
(* The detailed program keeps SettledOnce's promise: retries, crashes and  *)
(* overlapping jobs never credit a customer twice for a period, and one    *)
(* transaction credits for one period only (SettleRebateArgs: idempotent). *)
Promise == INSTANCE SettledOnce WITH Customers <- Customers, Periods <- Periods, credits <- credits
SettlesOnce == Promise!Spec

(* A settlement and its credit note come together: no settled account      *)
(* without its note, no note without its settlement, whatever fails.       *)
SettlementsAreCredited ==
  \A x \in Accounts :
    credits[x] = IF settlement[x] = NoRow THEN <<>> ELSE <<settlement[x].amount>>

(* A job that completed left nobody out: every customer whose total, as it *)
(* was read, reached a tier is settled for the period.                     *)
CompletedSettledAll ==
  \A j \in Ids(job) : \A x \in job[j].owed : settlement[x] # NoRow

(* No order is rebated twice, not even across periods, unless an admin     *)
(* changed the program's frequency between the settlements.                *)
NoOrderRebatedTwice ==
  \A x, y \in Accounts :
    /\ settlement[x] # NoRow /\ settlement[y] # NoRow /\ x # y
    /\ settlement[x].orders \cap settlement[y].orders # {}
    => x[2][1] # y[2][1]

(* A period settled after its end counts every order of it that stood when *)
(* it ended and has stood since.  It misses what was begun before the end  *)
(* and committed after it, and what was cancelled and stands again since   *)
(* (SettleRebateProgram: created_at and status as they are read).          *)
LateCountsAll ==
  \A c \in Customers, p \in Periods :
    settlement[<<c, p>>] # NoRow /\ settlement[<<c, p>>].late =>
      {n \in Ids(order) : /\ order[n].customer = c /\ order[n].status = "stands"
                          /\ Key(p[1], order[n].month) = p /\ order[n].since < End(p)}
        \subseteq settlement[<<c, p>>].orders

(* Every settlement asked for is done in the end, however the worker that  *)
(* runs it fails or collides with another: time and again none is left     *)
(* (no more than MaxJobs are asked for, and a completed one stays so).     *)
EveryJobCompletes == []<>(\A j \in Ids(job) : job[j].status = "completed")

(* The settlements are sound: each has its credit note, no completed job   *)
(* left one out, none counts another's order, none that came late misses   *)
(* one that had stood since the period's end (SettleRebateProgram).        *)
SettlementsAreSound ==
  /\ SettlementsAreCredited
  /\ CompletedSettledAll
  /\ NoOrderRebatedTwice
  /\ LateCountsAll

=============================================================================
