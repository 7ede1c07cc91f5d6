------------------------------- MODULE Billing -------------------------------
(***************************************************************************)
(* Plans, cached entitlements and metering of one organization             *)
(* (internal/billing, modules/platform/billing.go; 0053_billing.sql).      *)
(*                                                                         *)
(* Every request passes Gate: entitlements come from the node's cache or   *)
(* the database, a quota is compared with the usage recorded so far, and   *)
(* usage is recorded only after the handler succeeded.  Each of these is a *)
(* step of its own.  Subscriptions adds the handlers behind the gate.      *)
(*                                                                         *)
(* One premium feature and one metered quantity stand for all: a plan says *)
(* whether it has the feature, and limits is {} (unlimited) or {cap}.      *)
(***************************************************************************)
EXTENDS Integers, FiniteSets, Sequences

CONSTANTS
  Threads,     \* requests and jobs served at the same time
  Node,        \* thread -> the API node it runs on; each has its cache
  Codes,       \* the plans
  FirstPlans,  \* what they say at the start
  Edits,       \* what updatePlan may be sent: feature or limits
  NoPlan,      \* the organization has no plan row, or it could not be read
  FirstDay, LastDay,
  MonthLength, \* days of a month
  Mixes        \* bounds: the kinds of request and whether caches expire in one
               \* behaviour, how many requests and failures, whether the caches
               \* start filled, and the subscriptions there are at the start

Nodes   == {Node[w] : w \in Threads}
Days    == FirstDay..LastDay
PlanRow == [feature : BOOLEAN, limits : SUBSET Nat]

ASSUME BillingAssumption ==
  /\ IsFiniteSet(Threads) /\ Threads # {}
  /\ FirstPlans \in [Codes -> PlanRow]
  /\ \A e \in Edits : \/ e.field = "feature" /\ e.value \in BOOLEAN
                      \/ e.field = "limits" /\ e.value \in SUBSET Nat
  /\ NoPlan \notin Codes /\ NoPlan \notin PlanRow
  /\ FirstDay \in Nat /\ LastDay \in Nat /\ FirstDay <= LastDay /\ MonthLength \in Nat \ {0}
  /\ \A m \in Mixes : m.requests \in Nat /\ m.failures \in Nat /\ m.warm \in BOOLEAN

VARIABLES
  day,      \* today
  plans,    \* the plans table
  assigned, \* org_subscriptions: the organization's plan, or NoPlan
  cache,    \* node -> the entry of its map, or NoEntry
  usage,    \* usage_counters of the metric: period -> value
  stage,    \* thread -> where it is
  call,     \* thread -> its request: what it asks, and what the gate has read for it
  mix, asked, failed,
  version,  \* the model's: changes written to the two tables so far
  told      \* the model's: node -> the newest change it was invalidated for

accounts == <<plans, assigned, version>>
billing  == <<accounts, cache, usage, told>>
counts   == <<mix, asked, failed>>

NoEntry == [kind |-> "absent"]
Filled(ent, v, raced) == [kind |-> "entry", ent |-> ent, version |-> v, raced |-> raced]

Nothing == [none |-> TRUE]
NoCall  == [kind |-> "none", gated |-> FALSE, metered |-> FALSE, about |-> Nothing,
            ent |-> NoPlan, version |-> 0, raced |-> FALSE]
CallFor(kind, about) == [NoCall EXCEPT !.kind = kind, !.about = about]

\* PeriodKeyFor a monthly metric
PeriodKey(d) == d \div MonthLength
Months == {PeriodKey(d) : d \in Days}

BillingInit ==
  /\ day = FirstDay
  /\ plans = FirstPlans /\ assigned \in Codes
  /\ mix \in Mixes
  /\ cache = [n \in Nodes |-> IF mix.warm THEN Filled(plans[assigned], 0, FALSE) ELSE NoEntry]
  /\ usage = [m \in Months |-> 0]
  /\ stage = [w \in Threads |-> "idle"]
  /\ call = [w \in Threads |-> NoCall]
  /\ asked = 0 /\ failed = 0
  /\ version = 0 /\ told = [n \in Nodes |-> 0]

MoveTo(w, label) == stage' = [stage EXCEPT ![w] = label]
Leave(w) == MoveTo(w, "idle") /\ call' = [call EXCEPT ![w] = NoCall]

Works == UNCHANGED failed
Breaks == failed < mix.failures /\ failed' = failed + 1

\* A request reaches the gate, or the handler when the gate has no rule for it.
Begin(w, label, r) ==
  /\ stage[w] = "idle" /\ r.kind \in mix.kinds /\ asked < mix.requests
  /\ asked' = asked + 1
  /\ call' = [call EXCEPT ![w] = r]
  /\ MoveTo(w, label)
  /\ UNCHANGED <<mix, failed>>

-----------------------------------------------------------------------------
(* Gate                                                                    *)

\* GetOrgEntitlements
Entitlements == IF assigned = NoPlan THEN NoPlan ELSE plans[assigned]

Allows(ent) == ent = NoPlan \/ ent.feature

\* (slip) the cap itself is over
OverAtCap(ent, current) == ent # NoPlan /\ \E cap \in ent.limits : current + 1 > cap + 1

Over(ent, current) == ent # NoPlan /\ \E cap \in ent.limits : current + 1 > cap

\* A request whose rule has a feature only goes on to its handler.
Admit(w, ent) ==
  IF call[w].gated /\ ~Allows(ent) THEN Leave(w)
  ELSE /\ call' = [call EXCEPT ![w].ent = ent]
       /\ MoveTo(w, IF call[w].metered THEN "quota" ELSE "handle")

Lookup(w) ==
  /\ stage[w] = "gate"
  /\ IF cache[Node[w]] = NoEntry
     THEN MoveTo(w, "fetch") /\ UNCHANGED call
     ELSE Admit(w, cache[Node[w]].ent)
  /\ UNCHANGED <<billing, counts>>

\* A failing read is taken for an organization without a plan.
Fetch(w) ==
  /\ stage[w] = "fetch"
  /\ \E ent \in {Entitlements, NoPlan} :
       /\ call' = [call EXCEPT ![w].ent = ent, ![w].version = version, ![w].raced = FALSE]
       /\ IF ent = Entitlements THEN Works ELSE Breaks
  /\ MoveTo(w, "store")
  /\ UNCHANGED <<billing, mix, asked>>

Store(w) ==
  /\ stage[w] = "store"
  /\ cache' = [cache EXCEPT ![Node[w]] = Filled(call[w].ent, call[w].version, call[w].raced)]
  /\ Admit(w, call[w].ent)
  /\ UNCHANGED <<accounts, usage, told, counts>>

\* An unreadable counter counts as zero.
Quota(w) ==
  /\ stage[w] = "quota"
  /\ \E current \in {usage[PeriodKey(day)], 0} :
       /\ IF Over(call[w].ent, current) THEN Leave(w) ELSE MoveTo(w, "handle") /\ UNCHANGED call
       /\ IF current = usage[PeriodKey(day)] THEN Works ELSE Breaks
  /\ UNCHANGED <<billing, mix, asked>>

\* IncrementUsage
Increment(value) == value + 1

\* Record: the counter of the period it is now, if the statement goes through.
Record(w) ==
  /\ stage[w] = "record"
  /\ \/ Works /\ usage' = [usage EXCEPT ![PeriodKey(day)] = Increment(@)]
     \/ Breaks /\ UNCHANGED usage
  /\ Leave(w)
  /\ UNCHANGED <<accounts, cache, told, mix, asked>>

\* An entry lives for a time (ttl).
Expire ==
  /\ "expiry" \in mix.kinds
  /\ \E n \in Nodes : cache[n] # NoEntry /\ cache' = [cache EXCEPT ![n] = NoEntry]
  /\ UNCHANGED <<accounts, usage, told, stage, call, counts>>

-----------------------------------------------------------------------------
(* The operator's plan endpoints, which no rule of the gate is about       *)

AskAssign(w) ==
  \E code \in Codes : Begin(w, "assign", CallFor("assign", [code |-> code]))

SetOrgPlan(w) ==
  /\ stage[w] = "assign"
  /\ assigned' = call[w].about.code
  /\ version' = version + 1
  /\ call' = [call EXCEPT ![w].version = version']
  /\ MoveTo(w, "flush")
  /\ UNCHANGED <<plans, cache, usage, told, counts>>

\* updatePlan loads the plan ...
AskEdit(w) ==
  \E code \in Codes, edit \in Edits :
    Begin(w, "edit", CallFor("edit", [code |-> code, edit |-> edit, row |-> plans[code]]))

Overlay(row, edit) ==
  IF edit.field = "feature" THEN [row EXCEPT !.feature = edit.value]
  ELSE [row EXCEPT !.limits = edit.value]

\* ... and writes all of it back with the field it was sent.
UpdatePlan(w) ==
  /\ stage[w] = "edit"
  /\ LET about == call[w].about
     IN  plans' = [plans EXCEPT ![about.code] = Overlay(about.row, about.edit)]
  /\ version' = version + 1
  /\ call' = [call EXCEPT ![w].version = version']
  /\ MoveTo(w, "flush")
  /\ UNCHANGED <<assigned, cache, usage, told, counts>>

\* (slip) the entry is left to its ttl
DroppedNever(n) == cache[n]

Dropped(n) == NoEntry

\* Invalidate and InvalidateAll: this node's cache only.  A fill that has read
\* and not stored yet is marked: the model's.
Flush(w) ==
  LET n == Node[w] IN
  /\ stage[w] = "flush"
  /\ cache' = [cache EXCEPT ![n] = Dropped(n)]
  /\ told' = [told EXCEPT ![n] = IF call[w].version > @ THEN call[w].version ELSE @]
  /\ call' = [x \in Threads |->
               IF x = w THEN NoCall
               ELSE IF stage[x] = "store" /\ Node[x] = n THEN [call[x] EXCEPT !.raced = TRUE]
               ELSE call[x]]
  /\ MoveTo(w, "idle")
  /\ UNCHANGED <<accounts, usage, counts>>

PassGate(w) == Lookup(w) \/ Fetch(w) \/ Store(w) \/ Quota(w) \/ Record(w)

Operate(w) == SetOrgPlan(w) \/ UpdatePlan(w) \/ Flush(w)

-----------------------------------------------------------------------------
Entry == [kind : {"entry"}, ent : PlanRow \cup {NoPlan}, version : Nat, raced : BOOLEAN]

BillingType ==
  /\ day \in Days
  /\ plans \in [Codes -> PlanRow] /\ assigned \in Codes
  /\ cache \in [Nodes -> {NoEntry} \cup Entry]
  /\ usage \in [Months -> Nat]
  /\ mix \in Mixes /\ asked \in 0..mix.requests /\ failed \in 0..mix.failures
  /\ version \in Nat /\ told \in [Nodes -> 0..version]

(* Once an operator has his answer, the node that gave it serves by his    *)
(* change or a later one ("plan changes apply immediately on this node"),  *)
(* but for an entry whose fill had read before the invalidation and stored *)
(* after it: that one stays until it expires.                              *)
AnsweredNodeIsFresh ==
  \A n \in Nodes :
    cache[n] # NoEntry /\ cache[n].version < told[n] => cache[n].raced

(* Usage counted by one exceeds the plan's cap by less than the number of  *)
(* requests served at a time, while no plan changes and no statement fails *)
(* (Gate: the quota is checked before and recorded after the handler).     *)
OverrunBounded ==
  version = 0 /\ failed = 0 =>
    \A m \in Months, cap \in plans[assigned].limits :
      usage[m] < cap + Cardinality(Threads)

=============================================================================
