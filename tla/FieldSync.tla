------------------------------ MODULE FieldSync ------------------------------
(***************************************************************************)
(* Offline sync of the sales reps' devices (modules/field, changelog).     *)
(* A write elsewhere in the server commits and then records itself in      *)
(* change_log; a device pulls what is newer than its cursor, and pushes    *)
(* its own changes.  No handler here spans its statements with a           *)
(* transaction (only the order and its items share one), so each statement *)
(* is a step.  An insert into change_log takes its id from the identity    *)
(* sequence first and becomes visible later.                               *)
(*                                                                         *)
(* The device is not in the repository.  It is taken to keep the cursor of *)
(* the last answer it got, to pull one page at a time, and to send a push  *)
(* again whenever it likes, as the protocol allows.                        *)
(***************************************************************************)
EXTENDS Integers, Sequences, FiniteSetsExt

CONSTANTS
  Workers, Devices,
  Reps, Global,  \* scope_rep_id: a rep, or NULL for every rep
  Rep,           \* device -> the rep it belongs to
  Batch,         \* pullBatch
  Pushes,        \* client changes: [id, device, what, base]
  NoBase,        \* no base_updated_at
  Writes,        \* scopes of the writes other modules record
  MaxRequests    \* bound: requests in a behaviour

ASSUME FieldSyncAssumption ==
  /\ Global \notin Reps
  /\ Rep \in [Devices -> Reps]
  /\ Batch \in Nat \ {0}
  /\ NoBase \notin Nat
  /\ Pushes \subseteq [id : STRING, device : Devices,
                       what : {"order", "create", "edit", "readonly"},
                       base : Nat \cup {NoBase}]
  /\ \A p, q \in Pushes : p.id = q.id /\ p.device = q.device => p = q
  /\ Writes \subseteq Reps \cup {Global}
  /\ MaxRequests \in Nat

VARIABLES
  nextId,    \* the identity sequence of change_log
  changes,   \* visible change_log rows: [id, scope]
  raced,     \* ids that became visible after a device's read had passed them
  cursor,    \* device -> the cursor of the last answer it got
  stored,    \* field_devices.last_sync_cursor
  got,       \* device -> ids it received, in order
  pushLog,   \* sync_push_log: push -> status, or "none"
  applied,   \* push -> how many times it changed the server's data
  answers,   \* push -> statuses the device was told
  exposed,   \* pushes handled twice at once, applied without being logged, or
             \* dispatched again because their log could not be read
  version,   \* rep -> updated_at of the rep's activity
  stale,     \* applied edits that overwrote a version newer than their base
  pc, req, started

feedVars == <<nextId, changes, raced>>
devVars  == <<cursor, stored, got>>
pushVars == <<pushLog, applied, answers, exposed, version, stale>>
vars == <<feedVars, devVars, pushVars, pc, req, started>>

NoReq == [kind |-> "none"]

Init ==
  /\ nextId = 1 /\ changes = {} /\ raced = {}
  /\ cursor = [d \in Devices |-> 0]
  /\ stored = [d \in Devices |-> 0]
  /\ got = [d \in Devices |-> <<>>]
  /\ pushLog = [p \in Pushes |-> "none"]
  /\ applied = [p \in Pushes |-> 0]
  /\ answers = [p \in Pushes |-> {}]
  /\ exposed = {}
  /\ version = [r \in Reps |-> 0]
  /\ stale = {}
  /\ pc = [w \in Workers |-> "idle"]
  /\ req = [w \in Workers |-> NoReq]
  /\ started = 0

Goto(w, label) == pc' = [pc EXCEPT ![w] = label]
Done(w) == Goto(w, "idle") /\ req' = [req EXCEPT ![w] = NoReq]

Arrive(w, label, r) ==
  /\ pc[w] = "idle" /\ started < MaxRequests
  /\ started' = started + 1
  /\ req' = [req EXCEPT ![w] = r]
  /\ Goto(w, label)
  /\ UNCHANGED <<feedVars, devVars>>

-----------------------------------------------------------------------------
(* changelog.Record, after the write it records has committed              *)

\* A catalog or customer handler has saved an entity.
Write(w) ==
  \E s \in Writes :
    Arrive(w, "number", [kind |-> "write", scope |-> s, id |-> 0]) /\ UNCHANGED pushVars

NumberChange(w) ==
  /\ pc[w] = "number"
  /\ req' = [req EXCEPT ![w].id = nextId]
  /\ nextId' = nextId + 1
  /\ Goto(w, "publish")
  /\ UNCHANGED <<changes, raced, devVars, pushVars, started>>

Reading(v) == pc[v] \in {"high", "store", "answer"}

AfterRecord(w) == IF req[w].kind = "push" THEN Goto(w, "log") /\ UNCHANGED req ELSE Done(w)

\* The row becomes visible; or the insert fails, which only logs a warning.
PublishChange(w) ==
  /\ pc[w] = "publish"
  /\ LET id == req[w].id IN
     \/ /\ changes' = changes \cup {[id |-> id, scope |-> req[w].scope]}
        /\ raced' = IF (\E v \in Workers : Reading(v)) \/ (\E d \in Devices : id <= cursor[d])
                    THEN raced \cup {id} ELSE raced
     \/ UNCHANGED <<changes, raced>>
  /\ AfterRecord(w)
  /\ UNCHANGED <<nextId, devVars, pushVars, started>>

-----------------------------------------------------------------------------
(* pull                                                                    *)

InScope(d) == {c.id : c \in {x \in changes : x.scope \in {Rep[d], Global}}}

Newer(d, since) == {id \in InScope(d) : id > since}

\* The n smallest members of S (ORDER BY id LIMIT n).
FirstOf(S, n) == {i \in S : Cardinality({j \in S : j < i}) < n}

\* The members of S in the order of their ids.
InOrder(S) ==
  CHOOSE s \in [1..Cardinality(S) -> S] : \A i, j \in DOMAIN s : i < j => s[i] < s[j]

StartPull(w) ==
  \E d \in Devices :
    /\ \A v \in Workers : req[v].kind = "pull" => req[v].device # d
    /\ Arrive(w, "rows", [kind |-> "pull", device |-> d, since |-> cursor[d],
                          rows |-> {}, to |-> cursor[d]])
    /\ UNCHANGED pushVars

\* (slip) a full page counts as the last one
ShortPageWrong(n) == n <= Batch

ShortPage(n) == n < Batch

\* PullChanges; a short page means the device has caught up.
PullChanges(w) ==
  /\ pc[w] = "rows"
  /\ LET r == req[w]
         rows == FirstOf(Newer(r.device, r.since), Batch)
     IN  /\ req' = [req EXCEPT ![w].rows = rows, ![w].to = Max(rows \cup {r.since})]
         /\ Goto(w, IF ShortPage(Cardinality(rows)) THEN "high" ELSE "store")
  /\ UNCHANGED <<feedVars, devVars, pushVars, started>>

\* MaxScopedCursor, a second statement; if it fails the cursor stays.
HighWater(w) ==
  /\ pc[w] = "high"
  /\ \/ req' = [req EXCEPT ![w].to = Max(InScope(req[w].device) \cup {@})]
     \/ UNCHANGED req
  /\ Goto(w, "store")
  /\ UNCHANGED <<feedVars, devVars, pushVars, started>>

\* SetDeviceCursor, whose error is ignored.
StoreCursor(w) ==
  /\ pc[w] = "store"
  /\ \/ stored' = [stored EXCEPT ![req[w].device] = req[w].to]
     \/ UNCHANGED stored
  /\ Goto(w, "answer")
  /\ UNCHANGED <<feedVars, cursor, got, pushVars, req, started>>

AnswerPull(w) ==
  /\ pc[w] = "answer"
  /\ LET r == req[w] IN
     /\ cursor' = [cursor EXCEPT ![r.device] = r.to]
     /\ got' = [got EXCEPT ![r.device] = @ \o InOrder(r.rows)]
  /\ Done(w)
  /\ UNCHANGED <<feedVars, stored, pushVars, started>>

-----------------------------------------------------------------------------
(* push                                                                    *)

Handles(p, v) == req[v].kind = "push" /\ req[v].push = p

\* A worker that has yet to log it, or to find it logged
Unlogged(p, v) == Handles(p, v) /\ pc[v] # "reply"

\* The device sends a change, for the first time or again.
StartPush(w) ==
  \E p \in Pushes :
    /\ p.what = "edit" /\ p.base # NoBase => p.base <= version[Rep[p.device]]
    /\ Arrive(w, "seen", [kind |-> "push", push |-> p, status |-> "none", read |-> 0,
                          scope |-> Rep[p.device], id |-> 0])
    /\ exposed' = IF \E v \in Workers : Unlogged(p, v) THEN exposed \cup {p} ELSE exposed
    /\ UNCHANGED <<pushLog, applied, answers, version, stale>>

\* (slip) only an applied change counts as seen
SeenIfApplied(p) == pushLog[p] = "applied"

Seen(p) == pushLog[p] # "none"

\* GetPushLog: the prior outcome is returned.  With none, and also when the
\* read fails, the change is dispatched.
LookUp(w) ==
  /\ pc[w] = "seen"
  /\ LET p == req[w].push IN
     \/ /\ Seen(p)
        /\ req' = [req EXCEPT ![w].status = pushLog[p]]
        /\ Goto(w, "reply") /\ UNCHANGED exposed
     \/ /\ exposed' = IF Seen(p) THEN exposed \cup {p} ELSE exposed
        /\ Goto(w, "dispatch") /\ UNCHANGED req
  /\ UNCHANGED <<feedVars, devVars, pushLog, applied, answers, version, stale, started>>

\* The change is in effect; it is recorded for the rep's devices next.
Effect(w, p) ==
  /\ applied' = [applied EXCEPT ![p] = @ + 1]
  /\ req' = [req EXCEPT ![w].status = "applied"]
  /\ Goto(w, "number")

Outcome(w, status) == req' = [req EXCEPT ![w].status = status] /\ Goto(w, "log")

\* applyOrder, applyActivity's create, and what the device may not write: a
\* new row, or a rejection (an unknown SKU, a failed insert).
Create(w) ==
  /\ pc[w] = "dispatch" /\ req[w].push.what # "edit"
  /\ \/ req[w].push.what # "readonly" /\ Effect(w, req[w].push)
     \/ Outcome(w, "rejected") /\ UNCHANGED applied
  /\ UNCHANGED <<feedVars, devVars, pushLog, answers, exposed, version, stale, started>>

\* (slip) the comparison is reversed at equality
ConflictsUnlessNewer(at, base) == base # NoBase /\ at > base + 1

Conflicts(at, base) == base # NoBase /\ at > base

\* applyActivity's edit: GetActivity, the owner's check and that of the last
\* write.  An activity that is not found or not the rep's is rejected.
CheckEdit(w) ==
  /\ pc[w] = "dispatch" /\ req[w].push.what = "edit"
  /\ LET p == req[w].push
         at == version[Rep[p.device]]
     IN  \/ Outcome(w, "rejected")
         \/ Conflicts(at, p.base) /\ Outcome(w, "conflict")
         \/ /\ ~Conflicts(at, p.base)
            /\ req' = [req EXCEPT ![w].read = at] /\ Goto(w, "update")
  /\ UNCHANGED <<feedVars, devVars, pushVars, started>>

\* UpdateActivity names the row by id only; if it fails the edit is rejected.
UpdateActivity(w) ==
  /\ pc[w] = "update"
  /\ LET p == req[w].push
         r == Rep[p.device]
     IN  \/ /\ version' = [version EXCEPT ![r] = @ + 1]
            /\ stale' = IF p.base # NoBase /\ version[r] > p.base
                        THEN stale \cup {[push |-> p, overlap |-> req[w].read # version[r]]}
                        ELSE stale
            /\ Effect(w, p)
         \/ Outcome(w, "rejected") /\ UNCHANGED <<version, stale, applied>>
  /\ UNCHANGED <<feedVars, devVars, pushLog, answers, exposed, started>>

\* CreatePushLog, whose error is ignored: the change was recorded before, or
\* it stays without a record.
LogPush(w) ==
  /\ pc[w] = "log"
  /\ LET p == req[w].push IN
     \/ /\ pushLog' = [pushLog EXCEPT ![p] = IF @ = "none" THEN req[w].status ELSE @]
        /\ UNCHANGED exposed
     \/ exposed' = exposed \cup {p} /\ UNCHANGED pushLog
  /\ Goto(w, "reply")
  /\ UNCHANGED <<feedVars, devVars, applied, answers, version, stale, req, started>>

\* The batch is done and the device gets its results.
AnswerPush(w) ==
  /\ pc[w] = "reply"
  /\ answers' = [answers EXCEPT ![req[w].push] = @ \cup {req[w].status}]
  /\ Done(w)
  /\ UNCHANGED <<feedVars, devVars, pushLog, applied, exposed, version, stale, started>>

\* The connection drops or the server stops: what has committed stays.
Fail(w) ==
  /\ pc[w] # "idle"
  /\ exposed' = IF req[w].kind = "push" /\ pc[w] \notin {"seen", "reply"}
                THEN exposed \cup {req[w].push} ELSE exposed
  /\ Done(w)
  /\ UNCHANGED <<feedVars, devVars, pushLog, applied, answers, version, stale, started>>

Receive(w) == Write(w) \/ StartPull(w) \/ StartPush(w)

Serve(w) ==
  \/ NumberChange(w) \/ PublishChange(w)
  \/ PullChanges(w) \/ HighWater(w) \/ StoreCursor(w) \/ AnswerPull(w)
  \/ LookUp(w) \/ Create(w) \/ CheckEdit(w) \/ UpdateActivity(w) \/ LogPush(w)
  \/ AnswerPush(w)

Rest == (\A w \in Workers : pc[w] = "idle") /\ UNCHANGED vars

Next ==
  \/ \E w \in Workers : Receive(w) \/ Serve(w) \/ Fail(w)
  \/ Rest

Spec == Init /\ [][Next]_vars

-----------------------------------------------------------------------------
ChangeRow == [id : Nat \ {0}, scope : Reps \cup {Global}]
Statuses  == {"none", "applied", "conflict", "rejected"}

Ids == 0..(nextId - 1)

WriteRequest == [kind : {"write"}, scope : Reps \cup {Global}, id : Ids]
PullRequest  == [kind : {"pull"}, device : Devices, since : Ids, rows : SUBSET Ids, to : Ids]
PushRequest  == [kind : {"push"}, push : Pushes, status : Statuses, read : Nat,
                 scope : Reps, id : Ids]

\* What a worker holds at each stage of its handler.
RequestFits(stage, r) ==
  /\ stage = "idle" => r = NoReq
  /\ stage \in {"rows", "high", "store", "answer"} =>
       r \in PullRequest /\ r.to >= r.since /\ Cardinality(r.rows) <= Batch
  /\ stage \in {"number", "publish"} =>
       r \in WriteRequest \/ (r \in PushRequest /\ r.status = "applied")
  /\ stage = "publish" => r.id # 0
  /\ stage \in {"seen", "dispatch", "update", "log", "reply"} => r \in PushRequest
  /\ stage \in {"log", "reply"} => r.status # "none"

(* The shape of the tables, the devices and every request in flight.       *)
TypeOK ==
  /\ nextId \in Nat \ {0}
  /\ changes \subseteq ChangeRow /\ \A c \in changes : c.id < nextId
  /\ raced \subseteq {c.id : c \in changes}
  /\ cursor \in [Devices -> Ids] /\ stored \in [Devices -> Ids]
  /\ got \in [Devices -> Seq(Ids)]
  /\ pushLog \in [Pushes -> Statuses]
  /\ applied \in [Pushes -> Nat]
  /\ answers \in [Pushes -> SUBSET (Statuses \ {"none"})]
  /\ exposed \subseteq Pushes
  /\ version \in [Reps -> Nat]
  /\ stale \subseteq [push : Pushes, overlap : BOOLEAN]
  /\ pc \in [Workers -> {"idle", "number", "publish", "rows", "high", "store", "answer",
                         "seen", "dispatch", "update", "log", "reply"}]
  /\ req \in [Workers -> {NoReq} \cup WriteRequest \cup PullRequest \cup PushRequest]
  /\ \A w \in Workers : RequestFits(pc[w], req[w])
  /\ started \in Nat

Received(d) == {got[d][i] : i \in DOMAIN got[d]}

Missed(d) == {id \in InScope(d) : id <= cursor[d]} \ Received(d)

(* A device's cursor passes a change it did not receive only when the      *)
(* change became visible too late: during a pull, or after a younger id    *)
(* was pulled.  Pages, lost answers and repeated pulls lose nothing.       *)
MissedOnlyWhenRaced == \A d \in Devices : Missed(d) \subseteq raced

(* A device receives every change at most once and in id order, also when  *)
(* an answer is lost and the page is pulled again.                         *)
DeliveredInOrder ==
  \A d \in Devices : \A i \in 2..Len(got[d]) : got[d][i - 1] < got[d][i]

(* push.go: "a previously-seen client_change_id returns its prior outcome, *)
(* applying nothing new".  However often a device repeats a change, it is  *)
(* told one outcome, the logged one, and that tells whether the change has *)
(* had its one effect.  Not so, against the comment, when the log could    *)
(* not be read; nor when two requests handled the change at once, or one   *)
(* was cut off, or its insert failed, before the change was logged.        *)
RepeatsHaveOneOutcome ==
  \A p \in Pushes \ exposed :
    /\ applied[p] <= 1 /\ answers[p] \subseteq {pushLog[p]}
    /\ pushLog[p] # "none" => (pushLog[p] = "applied" <=> applied[p] = 1)

(* An edit overwrites a version newer than its base only if that version   *)
(* appeared between its check and its update.                              *)
StaleOnlyByOverlap == \A e \in stale : e.overlap

(* Devices, log and requests are well-formed, and a device gets its whole  *)
(* feed: every change once, in order, but for those that raced with a pull.*)
FeedIsWhole == TypeOK /\ MissedOnlyWhenRaced /\ DeliveredInOrder

=============================================================================
