------------------------------ MODULE ErpOutbound -----------------------------
(***************************************************************************)
(* The outbound sweep of one ERP connection over orders and invoices       *)
(* (modules/erp/handler.go, internal/erp/erp.go, queue/jobs/erpsweep.go;   *)
(* 0031_erp_sync.sql), beside the status changes and jobs of Automation.   *)
(*                                                                         *)
(* A sweep lists what has no external reference, posts one document after  *)
(* the other and records the reference after the answer.  The ERP is       *)
(* external: it books what it is sent and answers with an id of its own.   *)
(***************************************************************************)
EXTENDS Automation

CONSTANTS
  ErpId,    \* document -> the external id that the ERP gives it
  Refused,  \* documents that the ERP answers with an error, always
  SweepBatch \* how many documents of a type one sweep lists

ASSUME OutboundAssumption ==
  /\ Refused \subseteq Docs
  /\ DOMAIN ErpId = Docs
  /\ SweepBatch \in Nat \ {0}
  /\ \A m \in Mixes : m.active \in BOOLEAN

VARIABLES
  active,   \* integration_connections.is_active
  refs,     \* external_refs: [doc, ext]
  log,      \* sync_logs: [doc, status]
  erp,      \* document -> how often the ERP has booked it, up to twice
  excused   \* the model's: documents booked whose reference was lost, or listed
            \* by two sweeps at once

outbound == <<active, refs, log, erp, excused>>
outboundVars == <<state, queue, step, task, counts, outbound>>

OutboundInit ==
  /\ AutomationInit
  /\ active = mix.active
  /\ refs = {} /\ log = {}
  /\ erp = [d \in Docs |-> 0]
  /\ excused = {}

Type(d) == d[1]

Due(d) == state[d] = "due"

Referred(d) == \E r \in refs : r.doc = d

UpToBatch(docs) == {d \in docs : Cardinality({e \in docs : e[2] < d[2]}) < SweepBatch}

\* (slip) everything due is listed, referred or not
ToSyncAll(type) == UpToBatch({d \in Docs : Type(d) = type /\ Due(d)})

\* (slip) a reference of the other type with the same id will do
ToSyncById(type) ==
  UpToBatch({d \in Docs : Type(d) = type /\ Due(d) /\ \A r \in refs : r.doc[2] # d[2]})

\* ListOrdersToSync, ListInvoicesToSync: by id, at most SweepBatch of them.
ToSync(type) == UpToBatch({d \in Docs : Type(d) = type /\ Due(d) /\ ~Referred(d)})

-----------------------------------------------------------------------------
\* SweepAll, every hour, or runSync: a connection read as active is swept.
StartSweep(w) ==
  /\ active
  /\ Begin(w, "list", [kind |-> "sweep", type |-> "order"])
  /\ UNCHANGED <<state, queue, counts, outbound>>

\* One document after the other, by id.
Doc(w) == CHOOSE d \in task[w].docs : \A e \in task[w].docs : d[2] <= e[2]

\* What a sweep under way may still book, or has booked without a reference.
Sweeping(v, d) ==
  \/ step[v] \in {"push", "ref"} /\ d \in task[v].docs
  \/ step[v] \in {"sent", "error"} /\ d \in task[v].docs \ {Doc(v)}

\* A list that cannot be read is an empty one.
List(w) ==
  /\ step[w] = "list"
  /\ \E docs \in {ToSync(task[w].type), {}} :
       /\ IF docs = ToSync(task[w].type) THEN Works ELSE Breaks
       /\ task' = [task EXCEPT ![w] = [kind |-> "sweep", type |-> task[w].type, docs |-> docs]]
       /\ excused' = excused \cup {d \in docs : \E v \in Threads : Sweeping(v, d)}
  /\ MoveTo(w, "push")
  /\ UNCHANGED <<state, queue, mix, asked, changed, active, refs, log, erp>>

\* How often it is booked is told up to twice.
Book(d) == erp' = [erp EXCEPT ![d] = IF @ < 2 THEN @ + 1 ELSE @]

AfterError == "error"

\* The POST: refused, unreachable, booked but the answer lost, or answered.
Push(w) ==
  /\ step[w] = "push" /\ task[w].docs # {}
  /\ LET d == Doc(w) IN
     \/ /\ Works /\ d \notin Refused
        /\ Book(d) /\ UNCHANGED excused
        /\ MoveTo(w, "ref")
     \/ /\ (d \in Refused /\ Works) \/ Breaks
        /\ UNCHANGED <<erp, excused>>
        /\ MoveTo(w, AfterError)
     \/ /\ Breaks /\ d \notin Refused
        /\ Book(d) /\ excused' = excused \cup {d}
        /\ MoveTo(w, AfterError)
  /\ UNCHANGED <<state, queue, task, mix, asked, changed, active, refs, log>>

\* UNIQUE (connection, type, entity) and UNIQUE (connection, type, external id);
\* what the insert says is ignored.
AddRef(w) ==
  /\ step[w] = "ref"
  /\ LET d == Doc(w)
         clash == \E r \in refs : Type(r.doc) = Type(d) /\ (r.doc = d \/ r.ext = ErpId[d])
         lost  == UNCHANGED refs /\ excused' = IF Referred(d) THEN excused ELSE excused \cup {d}
     IN  \/ /\ Works /\ ~clash /\ UNCHANGED excused
            /\ refs' = refs \cup {[doc |-> d, ext |-> ErpId[d]]}
         \/ Works /\ clash /\ lost
         \/ Breaks /\ lost
  /\ MoveTo(w, "sent")
  /\ UNCHANGED <<state, queue, task, mix, asked, changed, active, log, erp>>

\* The sync log, written or lost, and on to the next document.
Log(w) ==
  /\ step[w] \in {"sent", "error"}
  /\ \/ Works /\ log' = log \cup {[doc |-> Doc(w), status |-> step[w]]}
     \/ Breaks /\ UNCHANGED log
  /\ task' = [task EXCEPT ![w].docs = @ \ {Doc(w)}]
  /\ MoveTo(w, "push")
  /\ UNCHANGED <<state, queue, mix, asked, changed, active, refs, erp, excused>>

EndList(w) ==
  /\ step[w] = "push" /\ task[w].docs = {}
  /\ IF task[w].type = "order"
     THEN MoveTo(w, "list") /\ task' = [task EXCEPT ![w] = [kind |-> "sweep", type |-> "invoice"]]
     ELSE Leave(w)
  /\ UNCHANGED <<state, queue, counts, outbound>>

\* The process dies; a document booked but not yet referred to is told again.
SweepDies(w) ==
  /\ task[w].kind = "sweep" /\ Breaks
  /\ excused' = IF step[w] = "ref" /\ ~Referred(Doc(w)) THEN excused \cup {Doc(w)} ELSE excused
  /\ Leave(w)
  /\ UNCHANGED <<state, queue, mix, asked, changed, active, refs, log, erp>>

\* updateConnection switches the connection; sweeps under way have their copy.
SwitchConnection ==
  /\ changed < mix.changes /\ changed' = changed + 1
  /\ active' = ~active
  /\ UNCHANGED <<state, queue, step, task, mix, asked, failed, refs, log, erp, excused>>

Sweep(w) == List(w) \/ Push(w) \/ AddRef(w) \/ Log(w) \/ EndList(w)

Work(w) ==
  \/ Automate(w) /\ UNCHANGED outbound
  \/ Sweep(w)

Request(w) == ChangeStatus(w) /\ UNCHANGED outbound

Resting ==
  /\ \A w \in Threads : step[w] = "idle"
  /\ \A j \in DOMAIN job : job[j].status # "available"
  /\ UNCHANGED outboundVars

OutboundNext ==
  \/ \E w \in Threads : \/ Work(w) \/ Request(w) \/ StartSweep(w) \/ SweepDies(w)
                        \/ JobFails(w) /\ UNCHANGED outbound
  \/ SwitchRule /\ UNCHANGED outbound
  \/ SwitchConnection \/ Resting

OutboundSpec == OutboundInit /\ [][OutboundNext]_outboundVars

\* The queue hands its jobs out in their order, the hourly sweep is one of
\* them, and a worker that is at something goes on with it.
FairSpec ==
  /\ OutboundSpec
  /\ \A w \in Threads : WF_outboundVars(Work(w))
  /\ SF_outboundVars(\E w \in Threads : Take(w) /\ UNCHANGED outbound)
  /\ SF_outboundVars(\E w \in Threads : StartSweep(w))

-----------------------------------------------------------------------------
OutboundType ==
  /\ AutomationType
  /\ active \in BOOLEAN
  /\ refs \subseteq [doc : Docs, ext : {ErpId[d] : d \in Docs}]
  /\ log \subseteq [doc : Docs, status : {"sent", "error"}]
  /\ erp \in [Docs -> 0..2] /\ excused \subseteq Docs
  /\ \A r, s \in refs : Type(r.doc) = Type(s.doc) /\ (r.doc = s.doc \/ r.ext = s.ext) => r = s

(* The ERP books a document again only when the record of an earlier       *)
(* delivery was lost - the answer, the process before the reference, the   *)
(* reference itself - or when two sweeps had listed it at the same time    *)
(* ("already-synced entities are skipped, so re-running is safe").         *)
DeliveredAgainOnlyIfUnrecorded ==
  \A d \in Docs : erp[d] > 1 => d \in excused

(* What a reference, or a log of something sent, claims is in the ERP is   *)
(* there.                                                                  *)
RefMeansDelivered ==
  /\ \A r \in refs : erp[r.doc] > 0
  /\ \A l \in log : l.status = "sent" => erp[l.doc] > 0

\* Documents that never get a reference: refused, or answered with an
\* external id that another one of the type has.
Stuck == Refused \cup
  {d \in Docs : \E e \in Docs \ {d} : Type(e) = Type(d) /\ ErpId[e] = ErpId[d]}

\* Stuck documents ahead of it in the list, which leave room.
Reached(d) == Cardinality({e \in Stuck : Type(e) = Type(d) /\ e[2] < d[2]}) < SweepBatch

(* A due document is booked and gets its reference in the end, while it    *)
(* stays due and the connection active, whatever fails on the way ("the    *)
(* caller logs + retries on the next sweep") - unless as many stuck        *)
(* documents as a sweep lists are ahead of it.                             *)
EveryDocIsReferred ==
  \A d \in {e \in Docs \ Stuck : Reached(e)} :
    Due(d) ~> (Referred(d) \/ ~Due(d) \/ ~active)

(* What the logs and references claim is so, and what failed is in them    *)
(* (the dispatcher's executions, pushEntity's references and log).       *)
RecordsAreTrue == OutboundType /\ RefMeansDelivered /\ DroppedIsRecorded

(* Whatever is done a second time has a reason: a job that ran again, or a *)
(* delivery whose record was lost or not yet made.                         *)
RepeatsHaveReasons == RepeatedOnlyByRetry /\ DeliveredAgainOnlyIfUnrecorded

(* All that is due is done in the end: jobs, their actions and the         *)
(* documents the ERP is to have.                                           *)
WorkGetsDone == EveryJobIsDone /\ EveryDocIsReferred

=============================================================================
