------------------------------ MODULE Automation ------------------------------
(***************************************************************************)
(* Order status events and the automation rules they trigger               *)
(* (sales/order.go, queue/client.go, queue/jobs/automation.go,             *)
(* internal/automation; 0014_workflow.sql).                                *)
(*                                                                         *)
(* The event of a status change is inserted as a job after the change is   *)
(* committed, or not at all.  A job is done when its worker says so: one   *)
(* that fails or dies goes back to the queue and starts anew.  The queue   *)
(* is external; of notifications and mails there is one recipient.         *)
(***************************************************************************)
EXTENDS Integers, FiniteSets, Sequences

CONSTANTS
  Threads,     \* what serves requests and jobs, each at its own step of a task
  Orders, Invoices,  \* documents: <<type, id>>
  Rules,       \* the rules of the event, by id
  ActionsOf,   \* rule -> how many actions it has
  MatchedBy,   \* rule -> the statuses that its conditions let through
  Mixes        \* bounds of one behaviour: who comes, and how many requests,
               \* failures and changes of rules and connection

Docs == Orders \cup Invoices

\* As far as others are told of them: not yet, due, and no more.
States == {"draft", "due", "void"}

ASSUME AutomationAssumption ==
  /\ \A d \in Docs : d[1] \in {"order", "invoice"} /\ d[2] \in Nat
  /\ Rules \subseteq Nat
  /\ ActionsOf \in [Rules -> Nat]
  /\ MatchedBy \in [Rules -> SUBSET States]
  /\ \A m \in Mixes : /\ m.from \in [Docs -> States]
                      /\ m.requests \in Nat /\ m.failures \in Nat /\ m.changes \in Nat

VARIABLES
  state,      \* document -> its state
  rules,      \* the active automation_rules
  job,        \* the queue: dispatch jobs, and action jobs with the mails they sent
  executions, \* automation_executions: [event, rule, status]
  step, task, \* thread -> where it is, and the request, job or sweep it is at
  mix, asked, failed, changed

queue   == <<rules, job, executions>>
counts  == <<mix, asked, failed, changed>>

NoTask == [kind |-> "none"]

AutomationInit ==
  /\ mix \in Mixes
  /\ state = mix.from
  /\ rules = Rules
  /\ job = <<>> /\ executions = <<>>
  /\ step = [w \in Threads |-> "idle"]
  /\ task = [w \in Threads |-> NoTask]
  /\ asked = 0 /\ failed = 0 /\ changed = 0

MoveTo(w, label) == step' = [step EXCEPT ![w] = label]
Leave(w) == MoveTo(w, "idle") /\ task' = [task EXCEPT ![w] = NoTask]

Works  == UNCHANGED failed
Breaks == failed < mix.failures /\ failed' = failed + 1

Begin(w, label, r) ==
  /\ step[w] = "idle"
  /\ task' = [task EXCEPT ![w] = r]
  /\ MoveTo(w, label)

-----------------------------------------------------------------------------
(* updateOrderStatus, after its checks (OrderFulfilment)                   *)

ChangeStatus(w) ==
  /\ asked < mix.requests /\ asked' = asked + 1
  /\ \E o \in Orders, to \in States :
       /\ <<state[o], to>> \in {<<"draft", "due">>, <<"due", "void">>}
       /\ state' = [state EXCEPT ![o] = to]
       /\ Begin(w, "announce", [kind |-> "status", order |-> o])
  /\ UNCHANGED <<queue, mix, failed, changed>>

\* The order is loaded again for the event: it tells the status it has by now.
Announce(w) ==
  /\ step[w] = "announce"
  /\ \/ /\ Works
        /\ job' = Append(job, [kind |-> "dispatch", status |-> "available", runs |-> 0,
                               to |-> state[task[w].order], listed |-> {}, silent |-> {}])
     \/ Breaks /\ UNCHANGED job
  /\ Leave(w)
  /\ UNCHANGED <<state, rules, executions, mix, asked, changed>>

-----------------------------------------------------------------------------
(* Jobs                                                                    *)

Takeable(j) == job[j].status = "available"

Take(w) ==
  /\ \E j \in DOMAIN job :
       /\ Takeable(j)
       /\ job' = [job EXCEPT ![j].status = "running", ![j].runs = @ + 1]
       /\ Begin(w, IF job[j].kind = "dispatch" THEN "rules" ELSE "act",
                [kind |-> "job", job |-> j])
  /\ UNCHANGED <<state, rules, executions, counts>>

\* Emit lists the active rules of the event and keeps those that match.
ListRules(w) ==
  /\ step[w] = "rules"
  /\ LET j    == task[w].job
         list == {r \in rules : job[j].to \in MatchedBy[r]}
     IN  /\ job' = [job EXCEPT ![j].listed = list]
         /\ task' = [task EXCEPT ![w] = [kind |-> "job", job |-> j, todo |-> list, next |-> 1,
                                        result |-> "ok"]]
  /\ MoveTo(w, "enqueue")
  /\ UNCHANGED <<state, rules, executions, counts>>

\* The rules come by id.
Rule(w) == CHOOSE r \in task[w].todo : \A s \in task[w].todo : r <= s

NewAction(j, r, k) ==
  [kind |-> "action", status |-> "available", runs |-> 0, event |-> j, rule |-> r, nth |-> k,
   mails |-> 0]

\* (slip) only the last action's error is kept
LastError(w, result) == result

AnyError(w, result) == IF task[w].result = "error" THEN "error" ELSE result

AfterAction(w) == task[w].next + 1

\* One action of the rule after the other is inserted as a job.
Enqueue(w) ==
  /\ step[w] = "enqueue" /\ task[w].todo # {}
  /\ LET r == Rule(w)
         noting(result) == [task EXCEPT ![w].next = AfterAction(w),
                                     ![w].result = AnyError(w, result)]
     IN  /\ task[w].next <= ActionsOf[r]
         /\ \/ /\ Works
               /\ job' = Append(job, NewAction(task[w].job, r, task[w].next))
               /\ task' = noting("ok")
            \/ Breaks /\ UNCHANGED job /\ task' = noting("error")
  /\ UNCHANGED <<state, rules, executions, step, mix, asked, changed>>

\* The execution row; silent is the model's: an error whose row failed as well.
Execute(w) ==
  /\ step[w] = "enqueue" /\ task[w].todo # {}
  /\ LET r == Rule(w)
         row == [event |-> task[w].job, rule |-> r, status |-> task[w].result]
     IN  /\ task[w].next > ActionsOf[r]
         /\ \/ Works /\ executions' = Append(executions, row) /\ UNCHANGED job
            \/ /\ Breaks /\ UNCHANGED executions
               /\ job' = [job EXCEPT ![task[w].job].silent = @ \cup {r}]
  /\ task' = [task EXCEPT ![w].todo = @ \ {Rule(w)}, ![w].next = 1, ![w].result = "ok"]
  /\ UNCHANGED <<state, rules, step, mix, asked, changed>>

\* AutomationActionWorker with email_customer: the mail is a job again.  When
\* the customer's users cannot be read there is none, and no error either.
Act(w) ==
  /\ step[w] = "act"
  /\ \/ Works /\ job' = [job EXCEPT ![task[w].job].mails = @ + 1]
     \/ Breaks /\ UNCHANGED job
  /\ MoveTo(w, "finish")
  /\ UNCHANGED <<state, rules, executions, task, mix, asked, changed>>

Finished(w) == step[w] = "finish" \/ (step[w] = "enqueue" /\ task[w].todo = {})

Finish(w) ==
  /\ Finished(w)
  /\ job' = [job EXCEPT ![task[w].job].status = "completed"]
  /\ Leave(w)
  /\ UNCHANGED <<state, rules, executions, counts>>

\* (slip) a job that failed or lost its worker is given up
RequeueNot(j) == job

Requeue(j) == [job EXCEPT ![j].status = "available"]

\* The rules or the recipient cannot be read, or the worker dies on the way.
JobFails(w) ==
  /\ task[w].kind = "job" /\ Breaks
  /\ job' = Requeue(task[w].job)
  /\ Leave(w)
  /\ UNCHANGED <<state, rules, executions, mix, asked, changed>>

\* updateRule: switched off and on.
SwitchRule ==
  /\ changed < mix.changes /\ changed' = changed + 1
  /\ \E r \in Rules : rules' = IF r \in rules THEN rules \ {r} ELSE rules \cup {r}
  /\ UNCHANGED <<state, job, executions, step, task, mix, asked, failed>>

Automate(w) ==
  Announce(w) \/ Take(w) \/ ListRules(w) \/ Enqueue(w) \/ Execute(w) \/ Act(w) \/ Finish(w)

-----------------------------------------------------------------------------
Dispatches == {j \in DOMAIN job : job[j].kind = "dispatch"}

ActionJobs(j, r) ==
  {a \in DOMAIN job : job[a].kind = "action" /\ job[a].event = j /\ job[a].rule = r}

AutomationType ==
  /\ state \in [Docs -> States]
  /\ rules \subseteq Rules
  /\ \A j \in DOMAIN job :
       /\ job[j].status \in {"available", "running", "completed"} /\ job[j].runs \in Nat
       /\ IF j \in Dispatches THEN job[j].to \in States /\ job[j].listed \subseteq Rules
          ELSE job[j].event \in Dispatches /\ job[j].nth \in 1..ActionsOf[job[j].rule]
       /\ Cardinality({w \in Threads : task[w].kind = "job" /\ task[w].job = j}) =
            IF job[j].status = "running" THEN 1 ELSE 0
  /\ executions \in Seq([event : Dispatches, rule : Rules, status : {"ok", "error"}])

(* An action is taken again only because its event's job, or its own, ran  *)
(* again: once per run at the most.                                        *)
RepeatedOnlyByRetry ==
  /\ \A j \in Dispatches, r \in Rules : \A k \in 1..ActionsOf[r] :
       Cardinality({a \in ActionJobs(j, r) : job[a].nth = k}) <= job[j].runs
  /\ \A a \in DOMAIN job \ Dispatches : job[a].mails <= job[a].runs

(* A rule whose action could not be enqueued is in the execution log as an *)
(* error, unless that row failed too ("a failed rule is never silently     *)
(* dropped").                                                              *)
DroppedIsRecorded ==
  \A j \in Dispatches : job[j].status = "completed" =>
    \A r \in job[j].listed : \A k \in 1..ActionsOf[r] :
      \/ \E a \in ActionJobs(j, r) : job[a].nth = k
      \/ \E i \in DOMAIN executions : executions[i] = [event |-> j, rule |-> r, status |-> "error"]
      \/ r \in job[j].silent

(* Every event that got into the queue is dispatched in the end, and every *)
(* action of it taken, whatever fails or dies on the way.                  *)
EveryJobIsDone == []<>(\A j \in DOMAIN job : job[j].status = "completed")

=============================================================================
