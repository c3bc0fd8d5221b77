--------------------------- MODULE WorkflowTimers ---------------------------
(***************************************************************************)
(* The time triggers of one workflow: the rows of automation_timers, the    *)
(* scan that fires them (scheduler.go), the schedule trigger that re-arms    *)
(* itself (timers.go), the date_field trigger that arms one timer per        *)
(* record (datefield_timers.go, datefield_backfill.go) and the requests      *)
(* that edit, switch and delete the workflow under them (handlers.go).       *)
(*                                                                           *)
(* Nothing but the unique index on (workflow, key) orders these: a request   *)
(* saves the row and then reconciles the timers in statements of their own,  *)
(* every write of a record re-arms that record in a goroutine of its own,    *)
(* and the rebuild of a date trigger is one READ COMMITTED transaction.      *)
(* Times are naturals, one per possible fire time.                           *)
(***************************************************************************)
EXTENDS Integers, FiniteSets, FiniteSetsExt

CONSTANTS
    Schedules,      \* cron triggers
    DateFields,     \* date_field triggers
    Occurs,         \* [Schedules -> the times the cron expression names]
    Offset,         \* [DateFields -> offset_days]
    Records,        \* records of the object, numbered by age
    TestLeads,      \* records an admin's "send test lead" made
    Dates,          \* values a record's date field may take
    ScanLimit,      \* dateFieldBackfillScanLimit
    Requests,       \* PUT, toggle and DELETE requests, each at most once
    Writes,         \* writes of a record, each at most once
    MaxTime,        \* bound: the clock
    MaxFaults       \* bound: failed statements and deaths of a server process

\* The process of the scan, among those that arm.
Scanner == "scanner"

ASSUME TriggerAssumption ==
    /\ Schedules \cap DateFields = {}
    /\ Occurs \in [Schedules -> SUBSET Nat]
    \* A cron expression always has a next occurrence.
    /\ \A s \in Schedules, t \in 0..MaxTime :
          \E o \in Occurs[s] : o > t /\ \A p \in Occurs[s] : p > t => o <= p
    /\ Offset \in [DateFields -> Int]
ASSUME RecordAssumption ==
    /\ IsFiniteSet(Records) /\ Records \subseteq Nat \ {0}
    /\ TestLeads \subseteq Records
    /\ Dates \subseteq Nat \ {0}
ASSUME TimerBoundAssumption ==
    /\ {ScanLimit, MaxTime, MaxFaults} \subseteq Nat
    /\ IsFiniteSet(Requests) /\ IsFiniteSet(Writes) /\ Scanner \notin Requests

Triggers == Schedules \cup DateFields
Workflow == [active : BOOLEAN, deleted : BOOLEAN, trigger : Triggers]

\* A record's date, or that it has none, is deleted or not made yet.
NoDate == 0
Deleted == -1
Unborn == -2
Exists(d) == d >= NoDate

\* A row of automation_timers. Its dedupe key is the fire time, for a date
\* trigger with the record; gen tells the rows one key has had apart (their ids).
NoRecord == 0
Row == [rec : Records \cup {NoRecord}, at : Nat, gen : Nat]
Key == [rec : Records \cup {NoRecord}, at : Nat]
KeyOf(i) == [rec |-> i.rec, at |-> i.at]

\* ArmScheduleTimer in a request or in the scan: its workflow, its now, the
\* rows its cancel found.
Arm == [step : {"off", "cancel", "insert"}, wf : Workflow, now : Nat, targets : SUBSET Row]

VARIABLES
    now,            \* the clock
    workflow,       \* the row of automation_workflows
    pending, fired, \* the rows of automation_timers by status
    runs,           \* keys that have a run (idempotency key of the occurrence)
    record,         \* [Records -> the record's date]
    req,            \* [Requests -> a request's locals]
    arm,            \* [Requests \cup {Scanner} -> Arm]
    scan,           \* the scan's locals
    write,          \* [Writes -> the goroutine of TriggerEvent]
    swap,           \* [Requests -> the rebuild the request started]
    \* History: some step wrote from a copy of the workflow or the record that
    \* was superseded by then, or failed halfway.
    lost,
    faults

tableVars == <<pending, fired, runs>>
vars == <<now, workflow, tableVars, record, req, arm, scan, write, swap, lost, faults>>

-----------------------------------------------------------------------------
(***************************************************************************)
(* The table.                                                               *)
(***************************************************************************)

SchedulePending == {i \in pending : i.rec = NoRecord}
DatePending == {i \in pending : i.rec # NoRecord}
RecordPending(r) == {i \in pending : i.rec = r}

\* Rows some statement still refers to by their id: a new row is none of them.
Held ==
    pending \cup fired \cup scan.due \cup scan.cur
    \cup (UNION {arm[p].targets : p \in DOMAIN arm})
    \cup (UNION {req[q].targets : q \in Requests})
    \cup (UNION {write[w].targets : w \in Writes})
    \cup (UNION {swap[q].targets : q \in Requests})
NewRow(k) ==
    LET used == {i.gen : i \in {i \in Held : KeyOf(i) = k}}
    IN [rec |-> k.rec, at |-> k.at, gen |-> CHOOSE g \in 0..Cardinality(used) : g \notin used]

\* Rows as an insert of keys with ON CONFLICT DO NOTHING leaves them.
Upsert(rows, keys) ==
    rows \cup {NewRow(k) : k \in {k \in keys : \A i \in rows \cup fired : KeyOf(i) # k}}

\* Rows an open rebuild has deleted: still visible, and locked.
LockedBut(q) == UNION {swap[o].doomed : o \in Requests \ {q}}
Locked == UNION {swap[o].doomed : o \in Requests}

\* The next occurrence of a cron expression.
NextFire(s, t) == Min({o \in Occurs[s] : o > t})
ActiveSchedule(wf) == wf.active /\ ~wf.deleted /\ wf.trigger \in Schedules
ActiveDateField(wf) == wf.active /\ ~wf.deleted /\ wf.trigger \in DateFields

\* computeDateFieldFireAt, and whether it lies ahead.
FireAt(d, f) == d + Offset[f]
Ahead(d, f) == d > NoDate /\ FireAt(d, f) > now

NoWorkflow == [active |-> FALSE, deleted |-> TRUE, trigger |-> CHOOSE t \in Triggers : TRUE]
OffArm == [step |-> "off", wf |-> NoWorkflow, now |-> 0, targets |-> {}]
Outside(step) == [step |-> step, op |-> "none", wf |-> NoWorkflow,
                  prev |-> NoWorkflow.trigger, targets |-> {}]
NoScan == [step |-> "idle", wf |-> NoWorkflow, due |-> {}, cur |-> {}]
NoWrite(step) == [step |-> step, rec |-> NoRecord, date |-> NoDate, silenced |-> FALSE,
                  wf |-> NoWorkflow, keys |-> {}, targets |-> {}]
NoSwap == [step |-> "off", wf |-> NoWorkflow, targets |-> {}, doomed |-> {}, found |-> {}]

TypeOK ==
    /\ now \in 0..MaxTime
    /\ workflow \in Workflow
    /\ pending \subseteq Row /\ fired \subseteq Row
    /\ runs \subseteq Key
    /\ record \in [Records -> Dates \cup {NoDate, Deleted, Unborn}]
    /\ req \in [Requests -> [step : {"new", "save", "arm", "arming", "find", "cancel", "spawn", "done"},
                             op : {"none", "update", "toggle", "delete"}, wf : Workflow,
                             prev : Triggers, targets : SUBSET Row]]
    /\ arm \in [Requests \cup {Scanner} -> Arm]
    /\ scan \in [step : {"idle", "reconcile", "healing", "due", "next", "fire", "mark", "rearm", "rearming"},
                 wf : Workflow, due : SUBSET Row, cur : SUBSET Row]
    /\ write \in [Writes -> [step : {"new", "list", "find", "apply", "done"},
                             rec : Records \cup {NoRecord}, date : Dates \cup {NoDate, Deleted},
                             silenced : BOOLEAN, wf : Workflow, keys : SUBSET Key, targets : SUBSET Row]]
    /\ swap \in [Requests -> [step : {"off", "begin", "delete", "scan", "insert"}, wf : Workflow,
                              targets : SUBSET Row, doomed : SUBSET Row, found : SUBSET Key]]
    /\ lost \in BOOLEAN
    /\ faults \in 0..MaxFaults

Init ==
    /\ now = 0
    /\ workflow \in [active : BOOLEAN, deleted : {FALSE}, trigger : Triggers]
    /\ record \in [Records -> Dates \cup {NoDate, Unborn}]
    /\ fired = {} /\ runs = {}
    \* Everything the workflow owes is armed, as a request that went through leaves it.
    /\ pending =
          IF ActiveSchedule(workflow)
          THEN {[rec |-> NoRecord, at |-> NextFire(workflow.trigger, now), gen |-> 0]}
          ELSE IF ActiveDateField(workflow)
               THEN {[rec |-> r, at |-> FireAt(record[r], workflow.trigger), gen |-> 0] :
                       r \in {r \in Records \ TestLeads : Ahead(record[r], workflow.trigger)}}
               ELSE {}
    /\ req = [q \in Requests |-> Outside("new")]
    /\ arm = [p \in Requests \cup {Scanner} |-> OffArm]
    /\ scan = NoScan
    /\ write = [w \in Writes |-> NoWrite("new")]
    /\ swap = [q \in Requests |-> NoSwap]
    /\ lost = FALSE /\ faults = 0

Fault == faults < MaxFaults /\ faults' = faults + 1
NoFault == UNCHANGED faults
\* A timer is armed or cancelled for wf: lost when the workflow is another by now.
For(wf) == lost' = (lost \/ wf # workflow)

-----------------------------------------------------------------------------
(***************************************************************************)
(* ArmScheduleTimer: cancel the pending occurrence, then insert the next.    *)
(***************************************************************************)

\* The call: it computes from this now, and its DELETE sees these rows.
ArmCalled(p, wf) ==
    arm' = [arm EXCEPT ![p] = [step |-> "cancel", wf |-> wf, now |-> now, targets |-> SchedulePending]]

\* Mutant: the occurrence that is armed stays.
ArmCancelNothing(p) ==
    /\ arm[p].step = "cancel"
    /\ arm' = [arm EXCEPT ![p] = IF ActiveSchedule(arm[p].wf)
                                 THEN [@ EXCEPT !.step = "insert", !.targets = {}]
                                 ELSE OffArm]
    /\ UNCHANGED <<now, workflow, pending, fired, runs, record, req, scan, write, swap, lost, faults>>
ArmCancel(p) ==
    /\ arm[p].step = "cancel"
    /\ \/ /\ pending' = pending \ arm[p].targets
          /\ For(arm[p].wf)
          /\ arm' = [arm EXCEPT ![p] = IF ActiveSchedule(arm[p].wf)
                                       THEN [@ EXCEPT !.step = "insert", !.targets = {}]
                                       ELSE OffArm]
          /\ NoFault
       \/ /\ Fault /\ lost' = TRUE /\ UNCHANGED pending
          /\ arm' = [arm EXCEPT ![p] = OffArm]
    /\ UNCHANGED <<now, workflow, fired, runs, record, req, scan, write, swap>>

ArmInsert(p) ==
    /\ arm[p].step = "insert"
    /\ arm' = [arm EXCEPT ![p] = OffArm]
    /\ \/ /\ pending' = Upsert(pending, {[rec |-> NoRecord,
                                          at |-> NextFire(arm[p].wf.trigger, arm[p].now)]})
          /\ For(arm[p].wf)
          /\ NoFault
       \/ /\ Fault /\ lost' = TRUE /\ UNCHANGED pending
    /\ UNCHANGED <<now, workflow, fired, runs, record, req, scan, write, swap>>

-----------------------------------------------------------------------------
(***************************************************************************)
(* The scan. The advisory lock keeps it to one process at a time.           *)
(***************************************************************************)

\* ActiveScheduleWorkflows lists the workflow, or fails.
ScanBegin ==
    /\ scan.step = "idle"
    /\ \/ /\ ActiveSchedule(workflow) /\ NoFault
          /\ scan' = [scan EXCEPT !.step = "reconcile", !.wf = workflow]
       \/ /\ ~ActiveSchedule(workflow) /\ NoFault
          /\ scan' = [scan EXCEPT !.step = "due"]
       \/ Fault /\ scan' = [scan EXCEPT !.step = "due"]
    /\ UNCHANGED <<now, workflow, tableVars, record, req, arm, write, swap, lost>>

\* Mutant: nothing heals a missing occurrence.
ReconcileNever ==
    /\ scan.step = "reconcile"
    /\ scan' = [NoScan EXCEPT !.step = "due"]
    /\ UNCHANGED <<now, workflow, tableVars, record, req, arm, write, swap, lost, faults>>
\* A schedule workflow without a pending timer gets its next one; when the
\* question fails it waits for the next scan.
Reconcile ==
    /\ scan.step = "reconcile"
    /\ \/ /\ SchedulePending = {} /\ NoFault
          /\ ArmCalled(Scanner, scan.wf)
          /\ scan' = [NoScan EXCEPT !.step = "healing"]
       \/ /\ \/ SchedulePending # {} /\ NoFault
             \/ Fault
          /\ UNCHANGED arm
          /\ scan' = [NoScan EXCEPT !.step = "due"]
    /\ UNCHANGED <<now, workflow, tableVars, record, req, write, swap, lost>>

\* DueTimers: a list of rows, none of them consumed. Without it the scan ends.
ListDue ==
    /\ \/ scan.step = "due"
       \/ scan.step = "healing" /\ arm[Scanner].step = "off"
    /\ \/ scan' = [NoScan EXCEPT !.step = "next", !.due = {i \in pending : i.at <= now}] /\ NoFault
       \/ scan' = NoScan /\ Fault
    /\ UNCHANGED <<now, workflow, tableVars, record, req, arm, write, swap, lost>>

\* Mutant: the timer of a workflow that is off or gone is skipped, not consumed.
NextDueSkipsInactive ==
    /\ \/ scan.step = "next"
       \/ scan.step = "rearming" /\ arm[Scanner].step = "off"
    /\ IF scan.due = {}
       THEN scan' = NoScan
       ELSE \E i \in scan.due :
              /\ \A j \in scan.due : i.at <= j.at
              /\ scan' = IF workflow.active /\ ~workflow.deleted
                         THEN [step |-> "fire", wf |-> workflow, due |-> scan.due \ {i}, cur |-> {i}]
                         ELSE [NoScan EXCEPT !.step = "next", !.due = scan.due \ {i}]
    /\ UNCHANGED <<now, workflow, tableVars, record, req, arm, write, swap, lost, faults>>
\* The next row of the list, and its workflow as it is now. A workflow that is
\* gone, switched off or cannot be read has its timer consumed without a run.
NextDue ==
    /\ \/ scan.step = "next"
       \/ scan.step = "rearming" /\ arm[Scanner].step = "off"
    /\ IF scan.due = {}
       THEN scan' = NoScan /\ NoFault /\ UNCHANGED lost
       ELSE \E i \in scan.due :
              /\ \A j \in scan.due : i.at <= j.at
              /\ \/ /\ workflow.active /\ ~workflow.deleted /\ NoFault /\ UNCHANGED lost
                    /\ scan' = [step |-> "fire", wf |-> workflow, due |-> scan.due \ {i}, cur |-> {i}]
                 \/ /\ \/ ~(workflow.active /\ ~workflow.deleted) /\ NoFault /\ UNCHANGED lost
                       \/ Fault /\ lost' = TRUE
                    /\ scan' = [step |-> "mark", wf |-> NoWorkflow, due |-> scan.due \ {i}, cur |-> {i}]
    /\ UNCHANGED <<now, workflow, tableVars, record, req, arm, write, swap>>

\* fireTimerRun: the key of the occurrence makes a second insert a no-op.
Fire ==
    /\ scan.step = "fire"
    /\ \/ /\ runs' = runs \cup {KeyOf(i) : i \in scan.cur} /\ NoFault
          /\ scan' = [scan EXCEPT !.step = "mark"]
       \/ /\ Fault /\ UNCHANGED runs
          /\ scan' = [NoScan EXCEPT !.step = "next", !.due = scan.due]
    /\ UNCHANGED <<now, workflow, pending, fired, record, req, arm, write, swap, lost>>

\* MarkTimerFired by id, which may be of no row any more.
MarkFired ==
    /\ scan.step = "mark"
    /\ scan.cur \cap Locked = {}
    /\ \/ /\ fired' = fired \cup (scan.cur \cap pending)
          /\ pending' = pending \ scan.cur
          /\ NoFault
          /\ scan' = IF scan.wf.active /\ \E i \in scan.cur : i.rec = NoRecord
                     THEN [scan EXCEPT !.step = "rearm", !.cur = {}]
                     ELSE [NoScan EXCEPT !.step = "next", !.due = scan.due]
       \/ /\ Fault /\ UNCHANGED <<pending, fired>>
          /\ scan' = [NoScan EXCEPT !.step = "next", !.due = scan.due]
    /\ UNCHANGED <<now, workflow, runs, record, req, arm, write, swap, lost>>

\* The scan arms the workflow it read before it made the run.
Rearm ==
    /\ scan.step = "rearm"
    /\ ArmCalled(Scanner, scan.wf)
    /\ scan' = [NoScan EXCEPT !.step = "rearming", !.due = scan.due]
    /\ UNCHANGED <<now, workflow, tableVars, record, req, write, swap, lost, faults>>

\* pruneTimers, hourly: the rows that were fired long enough ago, which may be any.
Prune ==
    /\ \E old \in SUBSET fired : old # {} /\ fired' = fired \ old
    /\ UNCHANGED <<now, workflow, pending, runs, record, req, arm, scan, write, swap, lost, faults>>

-----------------------------------------------------------------------------
(***************************************************************************)
(* The requests. Each saves the workflow it read whole, then reconciles.     *)
(***************************************************************************)

ReadForUpdate(q) ==
    /\ req[q].step = "new"
    /\ ~workflow.deleted
    /\ \E t \in Triggers :
          req' = [req EXCEPT ![q] = [Outside("save") EXCEPT
                     !.op = "update", !.wf = [workflow EXCEPT !.trigger = t], !.prev = workflow.trigger]]
    /\ UNCHANGED <<now, workflow, tableVars, record, arm, scan, write, swap, lost, faults>>

ReadForToggle(q) ==
    /\ req[q].step = "new"
    /\ ~workflow.deleted
    /\ req' = [req EXCEPT ![q] = [Outside("save") EXCEPT
                  !.op = "toggle", !.wf = [workflow EXCEPT !.active = ~@]]]
    /\ UNCHANGED <<now, workflow, tableVars, record, arm, scan, write, swap, lost, faults>>

\* Save writes every column as it was read; a row deleted by now it inserts again.
WorkflowRead(r) ==
    IF r.op = "toggle" THEN [r.wf EXCEPT !.active = ~@] ELSE [r.wf EXCEPT !.trigger = r.prev]
SaveWorkflow(q) ==
    /\ req[q].step = "save"
    /\ \/ /\ workflow' = req[q].wf
          /\ lost' = (lost \/ WorkflowRead(req[q]) # workflow)
          /\ req' = [req EXCEPT ![q].step = "arm"]
          /\ NoFault
       \/ Fault /\ UNCHANGED <<workflow, lost>> /\ req' = [req EXCEPT ![q] = Outside("done")]
    /\ UNCHANGED <<now, tableVars, record, arm, scan, write, swap>>

SoftDelete(q) ==
    /\ req[q].step = "new"
    /\ ~workflow.deleted
    /\ workflow' = [workflow EXCEPT !.active = FALSE, !.deleted = TRUE]
    /\ req' = [req EXCEPT ![q] = [Outside("arm") EXCEPT !.op = "delete", !.wf = workflow']]
    /\ UNCHANGED <<now, tableVars, record, arm, scan, write, swap, lost, faults>>

\* armWorkflowTimers; a DELETE cancels both kinds in the same order.
CallArm(q) ==
    /\ req[q].step = "arm"
    /\ ArmCalled(q, req[q].wf)
    /\ req' = [req EXCEPT ![q].step = "arming"]
    /\ UNCHANGED <<now, workflow, tableVars, record, scan, write, swap, lost, faults>>

\* Unless the workflow is an active date_field one, its date timers go.
FindDateTimers(q) ==
    /\ req[q].step = "arming" /\ arm[q].step = "off"
    /\ req' = [req EXCEPT ![q] = IF ActiveDateField(req[q].wf)
                                 THEN [@ EXCEPT !.step = "spawn"]
                                 ELSE [@ EXCEPT !.step = "cancel", !.targets = DatePending]]
    /\ UNCHANGED <<now, workflow, tableVars, record, arm, scan, write, swap, lost, faults>>

CancelDateTimers(q) ==
    /\ req[q].step = "cancel"
    /\ req[q].targets \cap Locked = {}
    /\ req' = [req EXCEPT ![q].step = "spawn", ![q].targets = {}]
    /\ \/ pending' = pending \ req[q].targets /\ For(req[q].wf) /\ NoFault
       \/ Fault /\ lost' = TRUE /\ UNCHANGED pending
    /\ UNCHANGED <<now, workflow, fired, runs, record, arm, scan, write, swap>>

\* A toggle, or an update that changed an active date trigger, starts a rebuild
\* with its own copy of the workflow.
RebuildOwed(r) ==
    /\ r.wf.trigger \in DateFields
    /\ \/ r.op = "toggle"
       \/ r.op = "update" /\ r.wf.active /\ r.prev # r.wf.trigger
SpawnRebuild(q) ==
    /\ req[q].step = "spawn"
    /\ swap' = IF RebuildOwed(req[q])
               THEN [swap EXCEPT ![q] = [NoSwap EXCEPT !.step = "begin", !.wf = req[q].wf]]
               ELSE swap
    /\ req' = [req EXCEPT ![q] = Outside("done")]
    /\ UNCHANGED <<now, workflow, tableVars, record, arm, scan, write, lost, faults>>

-----------------------------------------------------------------------------
(***************************************************************************)
(* The rebuild of a date trigger: DELETE, SCAN, INSERT in one transaction.   *)
(***************************************************************************)

\* The DELETE sees the rows there are when it starts.
SwapBegin(q) ==
    /\ swap[q].step = "begin"
    /\ swap' = [swap EXCEPT ![q].step = "delete", ![q].targets = DatePending]
    /\ UNCHANGED <<now, workflow, tableVars, record, req, arm, scan, write, lost, faults>>

\* It waits for rows another rebuild has deleted. For an inactive workflow the
\* cancel is the whole job.
SwapDelete(q) ==
    /\ swap[q].step = "delete"
    /\ swap[q].targets \cap LockedBut(q) = {}
    /\ IF swap[q].wf.active
       THEN /\ swap' = [swap EXCEPT ![q].step = "scan", ![q].targets = {},
                                    ![q].doomed = swap[q].targets \cap pending]
            /\ UNCHANGED <<pending, lost>>
       ELSE /\ pending' = pending \ swap[q].targets
            /\ swap' = [swap EXCEPT ![q] = NoSwap]
            /\ For(swap[q].wf)
    /\ UNCHANGED <<now, workflow, fired, runs, record, req, arm, scan, write, faults>>

\* The oldest ScanLimit records; of those, the ones whose date lies ahead and
\* that are no test lead.
Scanned ==
    LET there == {r \in Records : Exists(record[r])}
    IN {r \in there : Cardinality({o \in there : o < r}) < ScanLimit}
SwapScan(q) ==
    /\ swap[q].step = "scan"
    /\ swap' = [swap EXCEPT ![q].step = "insert",
                            ![q].found = {[rec |-> r, at |-> FireAt(record[r], swap[q].wf.trigger)] :
                               r \in {r \in Scanned \ TestLeads : Ahead(record[r], swap[q].wf.trigger)}}]
    /\ UNCHANGED <<now, workflow, tableVars, record, req, arm, scan, write, lost, faults>>

\* Mutant: the rows are deleted after the scan, as the reverse order would.
SwapInsertDeletesLate(q) ==
    /\ swap[q].step = "insert"
    /\ pending' = Upsert(pending \ DatePending, swap[q].found)
    /\ swap' = [swap EXCEPT ![q] = NoSwap]
    /\ For(swap[q].wf)
    /\ UNCHANGED <<now, workflow, fired, runs, record, req, arm, scan, write, faults>>
SwapInsert(q) ==
    /\ swap[q].step = "insert"
    /\ \A i \in LockedBut(q) : KeyOf(i) \notin swap[q].found
    /\ pending' = Upsert(pending \ swap[q].doomed, swap[q].found)
    /\ swap' = [swap EXCEPT ![q] = NoSwap]
    /\ For(swap[q].wf)
    /\ UNCHANGED <<now, workflow, fired, runs, record, req, arm, scan, write, faults>>

\* An error or the timeout of the rebuild rolls all of it back.
SwapFails(q) ==
    /\ swap[q].step # "off"
    /\ Fault /\ lost' = TRUE
    /\ swap' = [swap EXCEPT ![q] = NoSwap]
    /\ UNCHANGED <<now, workflow, tableVars, record, req, arm, scan, write>>

-----------------------------------------------------------------------------
(***************************************************************************)
(* A write of a record, and the goroutine that re-arms the record from the   *)
(* payload of that write.                                                    *)
(***************************************************************************)

WriteRecord(w, r) ==
    /\ write[w].step = "new"
    /\ record[r] # Deleted
    /\ \E d \in Dates \cup {NoDate, Deleted}, silenced \in BOOLEAN :
          /\ record[r] = Unborn => d # Deleted
          /\ silenced => r \in TestLeads
          /\ record' = [record EXCEPT ![r] = d]
          /\ write' = [write EXCEPT ![w] = [NoWrite("list") EXCEPT
                          !.rec = r, !.date = d, !.silenced = silenced]]
    /\ UNCHANGED <<now, workflow, tableVars, req, arm, scan, swap, lost, faults>>

ListDateWorkflows(w) ==
    /\ write[w].step = "list"
    /\ \/ /\ NoFault /\ UNCHANGED lost
          /\ write' = [write EXCEPT ![w] = IF ActiveDateField(workflow)
                                           THEN [@ EXCEPT !.step = "find", !.wf = workflow]
                                           ELSE NoWrite("done")]
       \/ /\ Fault /\ lost' = TRUE
          /\ write' = [write EXCEPT ![w] = NoWrite("done")]
    /\ UNCHANGED <<now, workflow, tableVars, record, req, arm, scan, swap>>

\* The key the payload asks for; none when its date is gone or past.
KeyAsked(x) ==
    IF Ahead(x.date, x.wf.trigger) THEN {[rec |-> x.rec, at |-> FireAt(x.date, x.wf.trigger)]} ELSE {}
\* A silenced write arms nothing. The DELETE of the others sees these rows.
FindRecordTimers(w) ==
    /\ write[w].step = "find"
    /\ write' = [write EXCEPT ![w] =
                   IF write[w].silenced /\ KeyAsked(write[w]) # {}
                   THEN NoWrite("done")
                   ELSE [@ EXCEPT !.step = "apply", !.keys = KeyAsked(write[w]),
                                  !.targets = RecordPending(write[w].rec)]]
    /\ UNCHANGED <<now, workflow, tableVars, record, req, arm, scan, swap, lost, faults>>

\* One transaction: the record's rows of every other key go, its key is there.
Materialize(w) ==
    LET others == {i \in write[w].targets : KeyOf(i) \notin write[w].keys}
    IN
    /\ write[w].step = "apply"
    /\ others \cap Locked = {}
    /\ \A i \in Locked : KeyOf(i) \notin write[w].keys
    /\ write' = [write EXCEPT ![w] = NoWrite("done")]
    /\ \/ /\ pending' = Upsert(pending \ others, write[w].keys)
          /\ lost' = (lost \/ write[w].wf # workflow \/ write[w].date # record[write[w].rec])
          /\ NoFault
       \/ Fault /\ lost' = TRUE /\ UNCHANGED pending
    /\ UNCHANGED <<now, workflow, fired, runs, record, req, arm, scan, swap>>

-----------------------------------------------------------------------------
(***************************************************************************)
(* Time and crashes.                                                        *)
(***************************************************************************)

Tick ==
    /\ now < MaxTime /\ now' = now + 1
    /\ UNCHANGED <<workflow, tableVars, record, req, arm, scan, write, swap, lost, faults>>

\* The scanning process dies, and with it its advisory lock; the requests and
\* goroutines that die with it are those it was serving, all or none.
Crash ==
    /\ Fault
    /\ lost' = TRUE
    /\ scan' = NoScan
    /\ \/ /\ arm' = [arm EXCEPT ![Scanner] = OffArm]
          /\ UNCHANGED <<req, write, swap>>
       \/ /\ arm' = [p \in Requests \cup {Scanner} |-> OffArm]
          /\ req' = [q \in Requests |-> IF req[q].step = "new" THEN req[q] ELSE Outside("done")]
          /\ write' = [w \in Writes |-> IF write[w].step = "new" THEN write[w] ELSE NoWrite("done")]
          /\ swap' = [q \in Requests |-> NoSwap]
    /\ UNCHANGED <<now, workflow, tableVars, record>>

-----------------------------------------------------------------------------
ScanStep ==
    \/ ScanBegin \/ Reconcile \/ ListDue \/ NextDue \/ Fire \/ MarkFired \/ Rearm
    \/ ArmCancel(Scanner) \/ ArmInsert(Scanner)
RequestStep(q) ==
    \/ SaveWorkflow(q) \/ CallArm(q) \/ ArmCancel(q) \/ ArmInsert(q)
    \/ FindDateTimers(q) \/ CancelDateTimers(q) \/ SpawnRebuild(q)
SwapStep(q) == SwapBegin(q) \/ SwapDelete(q) \/ SwapScan(q) \/ SwapInsert(q) \/ SwapFails(q)
WriteStep(w) == ListDateWorkflows(w) \/ FindRecordTimers(w) \/ Materialize(w)

Next ==
    \/ ScanStep
    \/ \E q \in Requests :
          \/ ReadForUpdate(q) \/ ReadForToggle(q) \/ SoftDelete(q)
          \/ RequestStep(q) \/ SwapStep(q)
    \/ \E w \in Writes :
          \/ \E r \in Records : WriteRecord(w, r)
          \/ WriteStep(w)
    \/ Prune \/ Tick \/ Crash

Spec == Init /\ [][Next]_vars

\* The scan job and everything a request or a write started goes on; nobody is
\* made to send a request, and the clock may stop.
FairSpec ==
    /\ Spec
    /\ WF_vars(ScanStep)
    /\ \A q \in Requests : WF_vars(RequestStep(q)) /\ WF_vars(SwapStep(q))
    /\ \A w \in Writes : WF_vars(WriteStep(w))

-----------------------------------------------------------------------------
(***************************************************************************)
(* Properties.                                                              *)
(***************************************************************************)

\* Nobody is between two of the statements that keep timers and workflow in step.
AtRest ==
    /\ \A q \in Requests : req[q].step \in {"new", "done"} /\ swap[q].step = "off"
    /\ \A w \in Writes : write[w].step \in {"new", "done"}
    /\ scan.step = "idle"

\* At rest an active schedule workflow has its next occurrence armed, and no
\* occurrence of another cron expression, unless some step armed from a copy
\* that was superseded by then (the scan's re-arm of the workflow it fired, the
\* later save of two that overlap), or a statement failed or the process died.
ScheduleArmed ==
    AtRest /\ ~lost =>
        IF ActiveSchedule(workflow)
        THEN SchedulePending # {} /\ \A i \in SchedulePending : i.at \in Occurs[workflow.trigger]
        ELSE SchedulePending = {}

\* The comment of ArmScheduleTimer: an edit drops the occurrence of the old cron
\* expression, so that none is left to fire at the old time. The scan breaks
\* it: it arms the workflow it read before the edit.
NoOldOccurrence ==
    AtRest /\ ActiveSchedule(workflow) =>
        \A i \in SchedulePending : i.at \in Occurs[workflow.trigger]

\* At rest every record whose date lies ahead has its timer: a rebuild that
\* runs while records are written drops none of them (the ORDERING note of
\* datefield_backfill.go), and only a goroutine or a rebuild that worked from a
\* superseded copy can, or one that failed or died. Of records over the scan
\* limit nothing is promised.
DatesCovered ==
    AtRest /\ ~lost /\ ActiveDateField(workflow) /\ Cardinality(Records) <= ScanLimit =>
        \A r \in Records \ TestLeads :
            Ahead(record[r], workflow.trigger) =>
                [rec |-> r, at |-> FireAt(record[r], workflow.trigger)] \in {KeyOf(i) : i \in pending}

\* The scan consumes a timer only once its run is on record, or after it took the
\* workflow for gone or off; and it takes only that for gone which is gone or off at
\* that moment, or which it failed to read.
TakenForGone ==
    scan.step \in {"next", "rearming"} /\ scan'.step = "mark" /\ ~scan'.wf.active
RunFirst == \A i \in fired' \ fired : KeyOf(i) \in runs \/ ~scan.wf.active
GoneOrUnread == TakenForGone => ~workflow.active \/ workflow.deleted \/ faults' > faults
ConsumedMeansRun == [][RunFirst /\ GoneOrUnread]_vars

\* "a due timer stays pending until its run is durably created" (scheduler.go,
\* scanTimers), unless the workflow is gone or switched off. A failed read breaks
\* it: the timer of an active workflow is consumed without a run.
PendingUntilRun ==
    [][\A i \in fired' \ fired : KeyOf(i) \in runs \/ ~workflow.active \/ workflow.deleted]_vars

\* A due timer does not wait for ever, whatever dies between its steps.
DueIsSettled ==
    \A t \in 0..MaxTime, r \in Records \cup {NoRecord} :
        (\E i \in pending : i.rec = r /\ i.at = t /\ t <= now)
            ~> ~\E i \in pending : i.rec = r /\ i.at = t

\* An active schedule workflow always gets its next occurrence armed, also
\* when a scan died between firing the last one and arming the next.
ScheduleGoesOn ==
    ActiveSchedule(workflow) ~> (SchedulePending # {} \/ ~ActiveSchedule(workflow))
=============================================================================
