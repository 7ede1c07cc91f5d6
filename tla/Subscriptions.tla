---------------------------- MODULE Subscriptions ----------------------------
(***************************************************************************)
(* Recurring orders (internal/subscriptions/service.go, the daily job,     *)
(* modules/subscription/handler.go; 0047), behind the gate of Billing.     *)
(*                                                                         *)
(* The sweep lists the due subscriptions on the pool and then handles each *)
(* copy in a transaction of its own, which asks nothing of the row again:  *)
(* status, cadence and date are those of the copy.  Prices and promotion   *)
(* are read in that transaction before anything is written.  Lines, taxes  *)
(* and addresses are left out; the vendors' split is Marketplace's.        *)
(***************************************************************************)
EXTENDS Billing, Sums, SequencesExt

CONSTANTS
  Subs,           \* ids, numbers: the sweep goes by them
  Terms,          \* what create and update may be sent: [cadence, basket]
  Priced,         \* products that have a price
  Cadences,       \* cadence -> its days
  MaxRedemptions  \* of the one active promotion

SubStatuses == {"active", "paused", "cancelled"}
SubRow ==
  [status : SubStatuses, cadence : DOMAIN Cadences, next : Nat, basket : {t.basket : t \in Terms}, moves : Nat]

NoSub == [status |-> "none"]

ASSUME SubscriptionsAssumption ==
  /\ IsFiniteSet(Subs) /\ Subs \subseteq Nat \ {0}
  /\ \A t \in Terms : t.cadence \in DOMAIN Cadences
  /\ \A m \in Mixes : m.subs \in [Subs -> {NoSub} \cup SubRow]
  /\ \A c \in DOMAIN Cadences : Cadences[c] \in Nat \ {0}
  /\ MaxRedemptions \in Nat

VARIABLES
  sub,       \* the subscriptions; moves counts the changes of next and is the model's
  order,     \* orders: [by, discounted]
  runs,      \* subscription_runs: [sub, order, day], order 0 of a failed one; and
             \* the model's by and stale, whether next had moved since the copy
  redeemed,  \* promotions.times_redeemed
  work       \* thread -> what runOne or a handler holds: copies of subscriptions, by id

book == <<order, runs, redeemed>>
subVars == <<day, billing, sub, book, stage, call, work, counts>>

RowsOf(table) == 1..Len(table)

Holding(by, today, todo) ==
  [by |-> by, today |-> today, todo |-> todo, basket |-> {}, discounted |-> FALSE]
NoWork == Holding("none", FirstDay, <<>>)
CopyOf(s) == [id |-> s, row |-> sub[s]]

SubInit ==
  /\ BillingInit
  /\ sub = mix.subs
  /\ order = <<>> /\ runs = <<>>
  /\ redeemed = 0
  /\ work = [w \in Threads |-> NoWork]

Finish(w) == Leave(w) /\ work' = [work EXCEPT ![w] = NoWork]

-----------------------------------------------------------------------------
(* runOne                                                                  *)

\* (slip) measured from the date that was due
AdvanceDue(copy, today) == copy.row.next + Cadences[copy.row.cadence]

\* AdvanceDate, measured from today
Advance(copy, today) == today + Cadences[copy.row.cadence]

\* (slip) what was missed stays so
ListedToday(s) == sub[s].status = "active" /\ sub[s].next = day

\* ListDueSubscriptions
Listed(s) == sub[s].status = "active" /\ sub[s].next <= day

\* MaterializeDue: the job takes the copies of what is due today, by id.
StartSweep(w) ==
  /\ stage[w] = "idle"
  /\ LET due == {s \in Subs : sub[s] # NoSub /\ Listed(s)} IN
     \E list \in [1..Cardinality(due) -> due] :
       /\ list # <<>> /\ \A i, j \in DOMAIN list : i < j => list[i] < list[j]
       /\ work' = [work EXCEPT ![w] =
                     Holding("sweep", day, [i \in DOMAIN list |-> CopyOf(list[i])])]
  /\ MoveTo(w, "price")
  /\ UNCHANGED <<day, billing, sub, book, call, counts>>

\* The next copy, or the end.
NextCopy(w) ==
  IF Len(work[w].todo) = 1 THEN Finish(w)
  ELSE work' = [work EXCEPT ![w].todo = Tail(@)] /\ MoveTo(w, "price") /\ UNCHANGED call

Priceable(basket) == basket # {} /\ basket \subseteq Priced

\* The transaction reads items, prices and the promotion.
Price(w) ==
  /\ stage[w] = "price"
  /\ work' = [work EXCEPT ![w].basket = sub[Head(work[w].todo).id].basket,
                          ![w].discounted = redeemed < MaxRedemptions]
  /\ MoveTo(w, "write")
  /\ UNCHANGED <<day, billing, sub, book, call, counts>>

RunOf(w, n) ==
  LET copy == Head(work[w].todo)
  IN  [sub |-> copy.id, order |-> n, day |-> work[w].today, by |-> work[w].by,
       stale |-> sub[copy.id].moves # copy.row.moves]

\* (slip) the run is noted without its order
NoteRunBare(w, n) == runs' = Append(runs, RunOf(w, 0))

\* CreateSubscriptionRun
NoteRun(w, n) == runs' = Append(runs, RunOf(w, n))

\* AdvanceSubscription
AdvanceRow(w) ==
  LET copy == Head(work[w].todo) IN
  sub' = [sub EXCEPT ![copy.id].next = Advance(copy, work[w].today),
                     ![copy.id].moves = @ + 1]

\* A failed run is noted and the schedule goes on all the same.
RunFailed(w) ==
  /\ stage[w] = "write" /\ ~Priceable(work[w].basket)
  /\ NoteRun(w, 0)
  /\ AdvanceRow(w)
  /\ NextCopy(w)
  /\ UNCHANGED <<day, billing, order, redeemed, counts>>

\* Order, redemption, run and schedule are committed at once.  IncrementUsage
\* follows on the transaction just committed, which refuses it: the usage stays.
RunOrders(w) ==
  /\ stage[w] = "write" /\ Priceable(work[w].basket)
  /\ order' = Append(order, [by |-> work[w].by, discounted |-> work[w].discounted])
  /\ NoteRun(w, Len(order'))
  /\ redeemed' = redeemed + (IF work[w].discounted THEN 1 ELSE 0)
  /\ AdvanceRow(w)
  /\ NextCopy(w)
  /\ UNCHANGED <<day, billing, counts>>

\* A statement of runOne fails: the sweep skips the copy.
RunBreaks(w) ==
  /\ stage[w] \in {"price", "write"} /\ Breaks
  /\ NextCopy(w)
  /\ UNCHANGED <<day, billing, sub, book, mix, asked>>

-----------------------------------------------------------------------------
(* The endpoints                                                           *)

Gated(kind, about) == [CallFor(kind, about) EXCEPT !.gated = TRUE]

Ask(w) ==
  \/ Begin(w, "gate", [CallFor("checkout", Nothing) EXCEPT !.metered = TRUE])
  \/ \E s \in Subs, kind \in {"run", "skip"} : Begin(w, "gate", Gated(kind, [sub |-> s]))
  \/ \E s \in Subs, to \in SubStatuses :
       Begin(w, "gate", Gated("status", [sub |-> s, to |-> to]))
  \/ \E s \in Subs, t \in Terms : Begin(w, "gate", Gated("update", [sub |-> s, terms |-> t]))
  \/ \E t \in Terms, start \in Days :
       Begin(w, "gate", Gated("create", [terms |-> t, start |-> start]))

Handles(w, kind) == stage[w] = "handle" /\ call[w].kind = kind

Target(w)  == call[w].about.sub
Exists(w) == sub[Target(w)] # NoSub

\* An order placed by a buyer (Checkout), which the gate then records.
PlaceOrder(w) ==
  /\ Handles(w, "checkout")
  /\ order' = Append(order, [by |-> "checkout", discounted |-> FALSE])
  /\ MoveTo(w, "record")
  /\ UNCHANGED <<day, billing, sub, runs, redeemed, call, work, counts>>

\* adminRunNow: the status is that of the copy.
RunNow(w) ==
  /\ Handles(w, "run")
  /\ Exists(w)
  /\ IF sub[Target(w)].status = "active"
     THEN /\ work' = [work EXCEPT ![w] = Holding("run", day, <<CopyOf(Target(w))>>)]
          /\ MoveTo(w, "price")
          /\ call' = [call EXCEPT ![w] = NoCall]
     ELSE Finish(w)
  /\ UNCHANGED <<day, billing, sub, book, counts>>

\* adminSetStatus, mySetStatus: from any status to any other.
AdminSetStatus(w) ==
  /\ Handles(w, "status") /\ Exists(w)
  /\ sub' = [sub EXCEPT ![Target(w)].status = call[w].about.to]
  /\ Finish(w)
  /\ UNCHANGED <<day, billing, book, counts>>

\* adminUpdate, myUpdate and mySkip look at a copy first.
LoadSub(w) ==
  /\ stage[w] = "handle" /\ call[w].kind \in {"update", "skip"} /\ Exists(w)
  /\ IF call[w].kind = "update" /\ sub[Target(w)].status = "cancelled"
     THEN Finish(w)
     ELSE /\ work' = [work EXCEPT ![w] = Holding("none", day, <<CopyOf(Target(w))>>)]
          /\ MoveTo(w, call[w].kind)
          /\ UNCHANGED call
  /\ UNCHANGED <<day, billing, sub, book, counts>>

UpdateSubscription(w) ==
  /\ stage[w] = "update"
  /\ sub' = [sub EXCEPT ![Target(w)].cadence = call[w].about.terms.cadence,
                        ![Target(w)].basket = call[w].about.terms.basket]
  /\ Finish(w)
  /\ UNCHANGED <<day, billing, book, counts>>

\* (slip) one cadence after today
LaterToday(today, date) == today

Later(today, date) == IF date > today THEN date ELSE today

\* mySkip: one cadence after the date, or after today when the date is past.
Skip(w) ==
  /\ stage[w] = "skip"
  /\ LET copy == Head(work[w].todo) IN
     sub' = [sub EXCEPT ![copy.id].next = Advance(copy, Later(day, copy.row.next)),
                        ![copy.id].moves = @ + 1]
  /\ Finish(w)
  /\ UNCHANGED <<day, billing, book, counts>>

\* create: the start may be any date, one cadence from today by default.
Create(w) ==
  /\ Handles(w, "create")
  /\ \E s \in Subs :
       /\ sub[s] = NoSub
       /\ sub' = [sub EXCEPT ![s] =
                    [status |-> "active", cadence |-> call[w].about.terms.cadence,
                     basket |-> call[w].about.terms.basket,
                     next |-> call[w].about.start, moves |-> 0]]
  /\ Finish(w)
  /\ UNCHANGED <<day, billing, book, counts>>

\* A request for a subscription that is not there, or beyond the ids the model has.
NotFound(w) ==
  /\ stage[w] = "handle" /\ call[w].kind # "checkout"
  /\ IF call[w].kind = "create" THEN \A s \in Subs : sub[s] # NoSub ELSE ~Exists(w)
  /\ Finish(w)
  /\ UNCHANGED <<day, billing, sub, book, counts>>

\* The client leaves or a statement fails before the commit: nothing is recorded.
HandlerFails(w) ==
  /\ stage[w] \in {"handle", "assign", "edit", "update", "skip"} /\ Breaks
  /\ Finish(w)
  /\ UNCHANGED <<day, billing, sub, book, mix, asked>>

Tomorrow ==
  /\ day < LastDay /\ day' = day + 1
  /\ UNCHANGED <<billing, sub, book, stage, call, work, counts>>

Others == UNCHANGED <<day, sub, book, work>>

Request(w) == (AskAssign(w) \/ AskEdit(w) \/ Ask(w)) /\ UNCHANGED billing /\ Others

Handle(w) ==
  \/ PlaceOrder(w) \/ RunNow(w) \/ AdminSetStatus(w) \/ LoadSub(w)
  \/ UpdateSubscription(w) \/ Skip(w) \/ Create(w) \/ NotFound(w)

Run(w) == Price(w) \/ RunFailed(w) \/ RunOrders(w)

Proceed(w) ==
  \/ (PassGate(w) \/ Operate(w)) /\ Others
  \/ Handle(w) \/ Run(w)

Quiet == (\A w \in Threads : stage[w] = "idle") /\ UNCHANGED subVars

SubNext ==
  \/ \E w \in Threads :
       Request(w) \/ StartSweep(w) \/ Proceed(w) \/ RunBreaks(w) \/ HandlerFails(w)
  \/ Expire /\ Others
  \/ Tomorrow
  \/ Quiet

SubSpec == SubInit /\ [][SubNext]_subVars

\* Requests and jobs are served to their end, and the sweep comes every day.
FairSpec ==
  /\ SubSpec
  /\ \A w \in Threads : WF_subVars(Proceed(w))
  /\ WF_subVars(\E w \in Threads : StartSweep(w))

-----------------------------------------------------------------------------
OrderRow == [by : {"checkout", "sweep", "run"}, discounted : BOOLEAN]
RunRow == [sub : Subs, order : 0..Len(order), day : Days, by : {"sweep", "run"}, stale : BOOLEAN]

InGate == {"gate", "fetch", "store", "quota", "handle", "record"}
AtWork == {"price", "write", "update", "skip"}

Copies  == [id : Subs, row : SubRow]
WorkRow == [by : {"none", "sweep", "run"}, today : Days, todo : Seq(Copies),
            basket : {{}} \cup {t.basket : t \in Terms}, discounted : BOOLEAN]

(* The shape of tables and requests; redemptions are those of the orders.  *)
SubscriptionsType ==
  /\ BillingType
  /\ sub \in [Subs -> {NoSub} \cup SubRow]
  /\ order \in Seq(OrderRow) /\ runs \in Seq(RunRow)
  /\ redeemed = Cardinality({n \in RowsOf(order) : order[n].discounted})
  /\ stage \in [Threads -> {"idle", "assign", "edit", "flush"} \cup InGate \cup AtWork]
  /\ work \in [Threads -> WorkRow]
  /\ \A w \in Threads :
       /\ stage[w] = "idle" => call[w] = NoCall
       /\ stage[w] \in AtWork <=> work[w].todo # <<>>
       /\ stage[w] \in {"price", "write"} => work[w].by # "none"
       /\ stage[w] \in {"quota", "record"} => call[w].metered

(* Orders and run history agree: a subscription's order stands in exactly  *)
(* one successful run, and a run tells of no order that is not there or    *)
(* that a buyer placed.                                                    *)
RunsTellOrders ==
  \A n \in RowsOf(order) :
    Cardinality({i \in RowsOf(runs) : runs[i].order = n}) =
      IF order[n].by = "checkout" THEN 0 ELSE 1

(* However often the sweep comes in a day, or two of them overlap, it runs *)
(* a subscription twice that day only after some run worked on a copy that *)
(* another had overtaken (MaterializeDue lists first and asks nothing of   *)
(* the row again).                                                         *)
OncePerDayUnlessStale ==
  \A i, j \in RowsOf(runs) :
    /\ i < j
    /\ runs[i].sub = runs[j].sub /\ runs[i].day = runs[j].day
    /\ runs[i].by = "sweep" /\ runs[j].by = "sweep"
    => \E k \in RowsOf(runs) : runs[k].sub = runs[i].sub /\ runs[k].stale

Writer(w) == stage[w] \in {"write", "skip"} /\ stage'[w] # stage[w]

(* A date is brought forward, and a skip with it undone, only by run-now,  *)
(* or by one who works on a copy that another has overtaken (mySkip and    *)
(* AdvanceSubscription write what they computed from a copy).              *)
EarlierOnlyByOverlap ==
  [][\A s \in Subs : sub[s] # NoSub /\ sub'[s].next < sub[s].next =>
       \E w \in Threads :
         /\ Writer(w)
         /\ work[w].by = "run" \/ Head(work[w].todo).row.moves # sub[s].moves]_subVars

Total == SumOf(usage)
Placed == {n \in RowsOf(order) : order[n].by = "checkout"}
Recording == {w \in Threads : stage[w] = "record"}

(* Every order a buyer placed is metered once, in some period, unless the  *)
(* statement that records it failed; nothing that was refused or failed    *)
(* is (Gate: failed requests never burn quota).                            *)
PlacedAreMetered ==
  LET missing == Cardinality(Placed) - Cardinality(Recording) - Total
  IN  missing \in 0..failed

Due(s) == IF sub[s] = NoSub THEN FALSE ELSE sub[s].status = "active" /\ sub[s].next <= day

(* A due subscription is run, or stops being due: what cannot be priced or *)
(* fails once does not keep it, or those after it, from its turn.          *)
EveryDueIsRun == \A s \in Subs : Due(s) ~> ~Due(s)

(* A recurring order is metered like any other ("the tenant sees the       *)
(* overage on their billing screen").                                      *)
MaterialisedAreMetered ==
  failed = 0 /\ (\A w \in Threads : stage[w] = "idle") => Total = Len(order)

(* Orders, run history and metering agree, whatever fails between them     *)
(* (runOne, Gate).                                                         *)
OrdersAreAccounted == SubscriptionsType /\ RunsTellOrders /\ PlacedAreMetered

=============================================================================
