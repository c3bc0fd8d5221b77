----------------------------- MODULE RunEngine -----------------------------
(***************************************************************************)
(* The durable execution of workflow runs: the jobs channel, the worker     *)
(* pool, action retries, delay steps, the sweeper, manual retry and crash   *)
(* recovery of internal/automation, for one or several server instances on  *)
(* one database.                                                            *)
(*                                                                          *)
(* A run executes the steps 1..Len(Plan) of its pinned workflow version in  *)
(* order (the branches of conditions and splits are a matter of StepWalk).  *)
(* "action" steps have an outside effect, "delay" steps park the run, "due" *)
(* steps are delays whose deadline has passed when the walk meets them.     *)
(* A database time is held as the number of ticks left until it by the      *)
(* processes' clocks: 0 is "now or in the past", None is SQL NULL.          *)
(***************************************************************************)
EXTENDS Naturals, Sequences, FiniteSets
LOCAL INSTANCE Functions

CONSTANTS
    Instances,      \* server processes
    Slots,          \* worker goroutines of one process
    Runs,           \* workflow runs, created at most once each
    Plan,           \* the steps of the pinned version
    QueueCap,       \* capacity of the jobs channel
    MaxRetries,     \* automatic retries of one step
    Backoff,        \* [1..MaxRetries -> ticks until the next attempt]
    DelayTicks,     \* length of a "delay" step
    SweepGrace,     \* strandedPendingSweepGrace
    Skew,           \* ticks the database's clock is ahead of the processes'
    None,           \* NULL
    MaxExecs,       \* bound: attempts at one step (duplicates repeat it without end)
    MaxMishaps      \* bound: failed calls, panics, crashes and manual retries together

Kinds == {"action", "delay", "due"}

ASSUME PlanAssumption == Plan \in Seq(Kinds)
ASSUME QueueAssumption == QueueCap \in Nat
ASSUME RetryAssumption == MaxRetries \in Nat /\ Backoff \in [1..MaxRetries -> Nat]
ASSUME DelayAssumption == DelayTicks \in Nat \ {0}
ASSUME GraceAssumption == SweepGrace \in Nat
ASSUME SkewAssumption == Skew \in Nat
ASSUME NoneAssumption == None \notin Nat
ASSUME BoundsAssumption ==
    /\ MaxExecs \in Nat
    /\ MaxMishaps \in Nat

Steps == 1..Len(Plan)
Workers == Instances \X Slots
Time == Nat \cup {None}
Statuses == {"absent", "pending", "running", "waiting", "completed", "failed"}
Row == [status : Statuses, retry : 0..MaxRetries, next : Time, wake : Time]
ASSUME NullAssumption == None \notin Row

VARIABLES
    \* the database
    row,        \* [Runs -> Row]: automation_workflow_runs
    age,        \* [Runs -> Nat]: ticks until created_at is SweepGrace old
    done,       \* [Runs -> SUBSET Steps]: steps with a success log
    parked,     \* [Runs -> [Steps -> Time]]: deadline in the step's waiting log
    \* each process
    phase,      \* [Instances -> "down", "reset", "requeue" or "up"]
    todo,       \* running rows GetRunningRuns returned and still to be reset
    batch,      \* ids a recovery or a sweep has selected and still pushes
    sweep,      \* where the scheduler's sweepRetries is
    jobs,       \* the jobs channel
    \* each worker
    pc, cur,    \* where processRun is, and on which run
    mem,        \* its in-memory copy of the row, written back whole by Save
    seen,       \* state.completed: the steps it will skip
    seenPark,   \* state.waiting: the deadlines it read
    \* history and bounds
    execs,      \* [Runs -> [Steps -> Nat]]: times the step's effect happened
    manual, faults, crashes

dbVars == <<row, age, done, parked>>
procVars == <<phase, todo, batch, sweep>>
workVars == <<pc, cur, mem, seen, seenPark>>
boundVars == <<manual, faults, crashes>>
vars == <<dbVars, procVars, jobs, workVars, execs, boundVars>>

NewRow(s) == [status |-> s, retry |-> 0, next |-> None, wake |-> None]
NoDeadlines == [k \in Steps |-> None]

Init ==
    /\ row = [r \in Runs |-> NewRow("absent")]
    /\ age = [r \in Runs |-> 0]
    /\ done = [r \in Runs |-> {}]
    /\ parked = [r \in Runs |-> NoDeadlines]
    /\ phase = [i \in Instances |-> "down"]
    /\ todo = [i \in Instances |-> [r \in Runs |-> None]]
    /\ batch = [i \in Instances |-> {}]
    /\ sweep = [i \in Instances |-> "idle"]
    /\ jobs = [i \in Instances |-> <<>>]
    /\ pc = [w \in Workers |-> "idle"]
    /\ cur = [w \in Workers |-> None]
    /\ mem = [w \in Workers |-> NewRow("absent")]
    /\ seen = [w \in Workers |-> {}]
    /\ seenPark = [w \in Workers |-> NoDeadlines]
    /\ execs = [r \in Runs |-> [k \in Steps |-> 0]]
    /\ manual = [r \in Runs |-> 0]
    /\ faults = 0
    /\ crashes = 0

Elapsed(t) == t \in {None, 0}
Down1(t) == IF t = None \/ t = 0 THEN t ELSE t - 1
DownRow(x) == [x EXCEPT !.next = Down1(@), !.wake = Down1(@)]

MayGoWrong == SumFunction(manual) + faults + crashes < MaxMishaps

\* A failed database call, or a panic.
Fault == MayGoWrong /\ faults' = faults + 1

\* select { case jobs <- id: default: }: a full channel drops the id.
Offered(i, r) == IF Len(jobs[i]) < QueueCap THEN Append(jobs[i], r) ELSE jobs[i]
Offer(i, r) == jobs' = [jobs EXCEPT ![i] = Offered(i, r)]

Active(w) == pc[w] # "idle"

\* The walk of executeStepsWithState has skipped or finished everything
\* before k, and k itself is still to do.
Reached(w, k) ==
    /\ pc[w] = "walk"
    /\ k \notin seen[w]
    /\ \A j \in 1..(k - 1) : j \in seen[w]

\* The worker returns from processRun: everything it held is forgotten.
Finish(w) ==
    /\ pc' = [pc EXCEPT ![w] = "idle"]
    /\ cur' = [cur EXCEPT ![w] = None]
    /\ mem' = [mem EXCEPT ![w] = NewRow("absent")]
    /\ seen' = [seen EXCEPT ![w] = {}]
    /\ seenPark' = [seenPark EXCEPT ![w] = NoDeadlines]

\* db.Save of the whole row.
Save(r, x) == row' = [row EXCEPT ![r] = x]

-----------------------------------------------------------------------------
(* Runs enter: CreateRun commits the row, then the id is offered to the     *)
(* channel.  EnrollRun, triggerEventInternal, RunWorkflowNow and fired      *)
(* timers all end this way.                                                 *)

Create(i, r) ==
    /\ phase[i] = "up"
    /\ row[r].status = "absent"
    /\ Save(r, NewRow("pending"))
    /\ age' = [age EXCEPT ![r] = SweepGrace]
    /\ Offer(i, r)
    /\ UNCHANGED <<done, parked, procVars, workVars, execs, boundVars>>

\* RetryRun: ResetRunForRetry under FOR UPDATE, then a non-blocking push.
RetryRun(i, r) ==
    /\ phase[i] = "up"
    /\ row[r].status = "failed"
    /\ MayGoWrong
    /\ Save(r, [row[r] EXCEPT !.status = "pending", !.retry = 0, !.next = None])
    /\ manual' = [manual EXCEPT ![r] = @ + 1]
    /\ Offer(i, r)
    /\ UNCHANGED <<age, done, parked, procVars, workVars, execs, faults, crashes>>

-----------------------------------------------------------------------------
(* processRun, phase 1: one transaction locks the row with FOR UPDATE SKIP  *)
(* LOCKED, accepts pending and running rows, and marks the row running.     *)
(* The lock ends with that transaction, before any step is executed.        *)

Head1(w, r) ==
    /\ phase[w[1]] = "up"
    /\ pc[w] = "idle"
    /\ jobs[w[1]] # <<>>
    /\ r = Head(jobs[w[1]])
    /\ jobs' = [jobs EXCEPT ![w[1]] = Tail(@)]

Take(w, r) ==
    /\ Head1(w, r)
    /\ row[r].status \in {"pending", "running"}
    /\ Save(r, [row[r] EXCEPT !.status = "running"])
    /\ pc' = [pc EXCEPT ![w] = "locked"]
    /\ cur' = [cur EXCEPT ![w] = r]
    /\ mem' = [mem EXCEPT ![w] = [row[r] EXCEPT !.status = "running"]]
    /\ UNCHANGED <<age, done, parked, procVars, seen, seenPark, execs, boundVars>>

\* The row is in another status, or another worker's transaction holds it.
Drop(w, r) ==
    /\ Head1(w, r)
    /\ \/ row[r].status \notin {"pending", "running"}
       \/ \E v \in Workers \ {w} : Active(v) /\ cur[v] = r
    /\ UNCHANGED <<dbVars, procVars, workVars, execs, boundVars>>

LockFails(w, r) ==
    /\ Head1(w, r)
    /\ Fault
    /\ UNCHANGED <<dbVars, procVars, workVars, execs, manual, crashes>>

\* Mutant of Load: the action logs are not consulted on resume.
LoadForgetful(w) ==
    /\ pc[w] = "locked"
    /\ pc' = [pc EXCEPT ![w] = "walk"]
    /\ seenPark' = [seenPark EXCEPT ![w] = parked[cur[w]]]
    /\ UNCHANGED <<dbVars, procVars, jobs, cur, mem, seen, execs, boundVars>>

\* Phase 2: the pinned version and the action logs are read once.
Load(w) ==
    /\ pc[w] = "locked"
    /\ pc' = [pc EXCEPT ![w] = "walk"]
    /\ seen' = [seen EXCEPT ![w] = done[cur[w]]]
    /\ seenPark' = [seenPark EXCEPT ![w] = parked[cur[w]]]
    /\ UNCHANGED <<dbVars, procVars, jobs, cur, mem, execs, boundVars>>

\* failRun: version missing, no steps, logs unreadable.
LoadFails(w) ==
    /\ pc[w] = "locked"
    /\ Fault
    /\ Save(cur[w], [mem[w] EXCEPT !.status = "failed"])
    /\ Finish(w)
    /\ UNCHANGED <<age, done, parked, procVars, jobs, execs, manual, crashes>>

-----------------------------------------------------------------------------
(* executeStepsWithState.                                                   *)

\* executeAction returns; what it did outside is done.
Execute(w, k) ==
    /\ Reached(w, k)
    /\ Plan[k] = "action"
    /\ execs[cur[w]][k] < MaxExecs
    /\ execs' = [execs EXCEPT ![cur[w]][k] = @ + 1]
    /\ \E outcome \in {"ok", "retryable", "fatal"} : pc' = [pc EXCEPT ![w] = outcome]
    /\ UNCHANGED <<dbVars, procVars, jobs, cur, mem, seen, seenPark, boundVars>>

\* The step the worker executed: the first it has not seen.
Executed(w, k) ==
    /\ k \notin seen[w]
    /\ \A j \in 1..(k - 1) : j \in seen[w]

\* commitActionAndRun after success: the log and the row in one transaction.
CommitSuccess(w, k) ==
    /\ pc[w] = "ok"
    /\ Executed(w, k)
    /\ done' = [done EXCEPT ![cur[w]] = @ \cup {k}]
    /\ mem' = [mem EXCEPT ![w] = [@ EXCEPT !.retry = 0, !.next = None]]
    /\ Save(cur[w], mem'[w])
    /\ seen' = [seen EXCEPT ![w] = @ \cup {k}]
    /\ pc' = [pc EXCEPT ![w] = "walk"]
    /\ UNCHANGED <<age, parked, procVars, jobs, cur, seenPark, execs, boundVars>>

\* Mutant of CommitRetry: the row is saved with the status it has, running.
CommitRetryStillRunning(w) ==
    /\ pc[w] = "retryable"
    /\ mem[w].retry < MaxRetries
    /\ Save(cur[w], [mem[w] EXCEPT !.retry = @ + 1, !.next = Backoff[mem[w].retry + 1]])
    /\ Finish(w)
    /\ UNCHANGED <<age, done, parked, procVars, jobs, execs, boundVars>>

CommitRetry(w) ==
    /\ pc[w] = "retryable"
    /\ mem[w].retry < MaxRetries
    /\ Save(cur[w], [mem[w] EXCEPT !.status = "pending", !.retry = @ + 1,
                                   !.next = Backoff[mem[w].retry + 1]])
    /\ Finish(w)
    /\ UNCHANGED <<age, done, parked, procVars, jobs, execs, boundVars>>

CommitFailure(w) ==
    /\ \/ pc[w] = "fatal"
       \/ pc[w] = "retryable" /\ mem[w].retry >= MaxRetries
    /\ Save(cur[w], [mem[w] EXCEPT !.status = "failed"])
    /\ Finish(w)
    /\ UNCHANGED <<age, done, parked, procVars, jobs, execs, boundVars>>

\* handleDelayStep, deadline already past on first encounter: the success log
\* and then the row are written separately, and a failed write is only logged.
DueDelay(w, k) ==
    /\ Reached(w, k)
    /\ Plan[k] = "due"
    /\ \/ done' = [done EXCEPT ![cur[w]] = @ \cup {k}] /\ UNCHANGED faults
       \/ UNCHANGED done /\ Fault
    /\ seen' = [seen EXCEPT ![w] = @ \cup {k}]
    /\ pc' = [pc EXCEPT ![w] = "save"]
    /\ UNCHANGED <<row, age, parked, procVars, jobs, cur, mem, seenPark, execs, manual, crashes>>

SaveDue(w) ==
    /\ pc[w] = "save"
    /\ \/ Save(cur[w], mem[w]) /\ UNCHANGED faults
       \/ UNCHANGED row /\ Fault
    /\ pc' = [pc EXCEPT ![w] = "walk"]
    /\ UNCHANGED <<age, done, parked, procVars, jobs, cur, mem, seen, seenPark, execs, manual, crashes>>

\* Mutant of Park: the run is parked and its waiting log is not written.
ParkWithoutLog(w, k) ==
    /\ Reached(w, k)
    /\ Plan[k] = "delay"
    /\ seenPark[w][k] = None
    /\ Save(cur[w], [mem[w] EXCEPT !.status = "waiting", !.wake = DelayTicks, !.next = None])
    /\ Finish(w)
    /\ UNCHANGED <<age, done, parked, procVars, jobs, execs, boundVars>>

\* First encounter: the waiting log and the parked row commit together.
Park(w, k) ==
    /\ Reached(w, k)
    /\ Plan[k] = "delay"
    /\ seenPark[w][k] = None
    /\ parked' = [parked EXCEPT ![cur[w]][k] = DelayTicks]
    /\ Save(cur[w], [mem[w] EXCEPT !.status = "waiting", !.wake = DelayTicks, !.next = None])
    /\ Finish(w)
    /\ UNCHANGED <<age, done, procVars, jobs, execs, boundVars>>

\* Resumed before the deadline: park again with the original deadline.
Repark(w, k) ==
    /\ Reached(w, k)
    /\ Plan[k] = "delay"
    /\ ~Elapsed(seenPark[w][k])
    /\ Save(cur[w], [mem[w] EXCEPT !.status = "waiting", !.wake = seenPark[w][k], !.next = None])
    /\ Finish(w)
    /\ UNCHANGED <<age, done, parked, procVars, jobs, execs, boundVars>>

\* Mutant of FinishDelay: who was woken is taken to be due.
FinishWhenWoken(w, k) ==
    /\ Reached(w, k)
    /\ Plan[k] = "delay"
    /\ seenPark[w][k] # None
    /\ done' = [done EXCEPT ![cur[w]] = @ \cup {k}]
    /\ parked' = [parked EXCEPT ![cur[w]][k] = None]
    /\ mem' = [mem EXCEPT ![w] = [@ EXCEPT !.retry = 0, !.next = None, !.wake = None]]
    /\ Save(cur[w], mem'[w])
    /\ seen' = [seen EXCEPT ![w] = @ \cup {k}]
    /\ UNCHANGED <<age, procVars, jobs, pc, cur, seenPark, execs, boundVars>>

\* finishWaitStep: the parked log turns into a success log.
FinishDelay(w, k) ==
    /\ Reached(w, k)
    /\ Plan[k] = "delay"
    /\ seenPark[w][k] = 0
    /\ done' = [done EXCEPT ![cur[w]] = @ \cup {k}]
    /\ parked' = [parked EXCEPT ![cur[w]][k] = None]
    /\ mem' = [mem EXCEPT ![w] = [@ EXCEPT !.retry = 0, !.next = None, !.wake = None]]
    /\ Save(cur[w], mem'[w])
    /\ seen' = [seen EXCEPT ![w] = @ \cup {k}]
    /\ UNCHANGED <<age, procVars, jobs, pc, cur, seenPark, execs, boundVars>>

\* Mutant of Complete: a walk that unwound early counts as completed.
CompleteEarly(w) ==
    /\ pc[w] = "walk"
    /\ seen[w] # {}
    /\ Save(cur[w], [mem[w] EXCEPT !.status = "completed"])
    /\ Finish(w)
    /\ UNCHANGED <<age, done, parked, procVars, jobs, execs, boundVars>>

Complete(w) ==
    /\ pc[w] = "walk"
    /\ Steps \subseteq seen[w]
    /\ Save(cur[w], [mem[w] EXCEPT !.status = "completed"])
    /\ Finish(w)
    /\ UNCHANGED <<age, done, parked, procVars, jobs, execs, boundVars>>

\* A panic, or a final write that fails: processRun returns and the row keeps
\* the status it had, running as a rule.
Lost(w) ==
    /\ Active(w)
    /\ Fault
    /\ Finish(w)
    /\ UNCHANGED <<dbVars, procVars, jobs, execs, manual, crashes>>

-----------------------------------------------------------------------------
(* Scheduler.sweepRetries: two statements, then one push after the other.   *)

\* wake_at was computed from a process's clock and is compared with NOW(), the
\* database's.
DueToWake ==
    {r \in Runs : row[r].status = "waiting" /\ row[r].wake # None /\ row[r].wake <= Skew}

\* Mutant of Sweepable: no stranded clause.
SweepableOnlyRetries == {r \in Runs : row[r].status = "pending" /\ row[r].next = 0}

\* A retry whose time has come, or a run stranded without one.
Sweepable ==
    {r \in Runs : /\ row[r].status = "pending"
                  /\ \/ row[r].next = 0
                     \/ row[r].next = None /\ age[r] = 0}

\* WakeDueWaitingRuns; a sweep that finds nothing changes nothing.
Wake(i) ==
    /\ phase[i] = "up"
    /\ sweep[i] = "idle"
    /\ DueToWake \cup Sweepable # {}
    /\ row' = [r \in Runs |->
                 IF r \in DueToWake
                 THEN [row[r] EXCEPT !.status = "pending", !.next = Skew, !.wake = None]
                 ELSE row[r]]
    /\ batch' = [batch EXCEPT ![i] = DueToWake]
    /\ sweep' = [sweep EXCEPT ![i] = "woken"]
    /\ UNCHANGED <<age, done, parked, phase, todo, jobs, workVars, execs, boundVars>>

SweepRetries(i) ==
    /\ sweep[i] = "woken"
    /\ batch' = [batch EXCEPT ![i] = @ \cup Sweepable]
    /\ sweep' = [sweep EXCEPT ![i] = "push"]
    /\ UNCHANGED <<dbVars, phase, todo, jobs, workVars, execs, boundVars>>

SweepPush(i) ==
    /\ sweep[i] = "push"
    /\ \/ \E r \in batch[i] :
            /\ Offer(i, r)
            /\ batch' = [batch EXCEPT ![i] = @ \ {r}]
            /\ UNCHANGED sweep
       \/ /\ batch[i] = {}
          /\ sweep' = [sweep EXCEPT ![i] = "idle"]
          /\ UNCHANGED <<jobs, batch>>
    /\ UNCHANGED <<dbVars, phase, todo, workVars, execs, boundVars>>

-----------------------------------------------------------------------------
(* A process dies and comes back: Start runs RequeueInFlight to its end     *)
(* before it starts workers and scheduler.                                  *)

Crash(i) ==
    /\ phase[i] # "down"
    /\ MayGoWrong
    /\ crashes' = crashes + 1
    /\ phase' = [phase EXCEPT ![i] = "down"]
    /\ todo' = [todo EXCEPT ![i] = [r \in Runs |-> None]]
    /\ batch' = [batch EXCEPT ![i] = {}]
    /\ sweep' = [sweep EXCEPT ![i] = "idle"]
    /\ jobs' = [jobs EXCEPT ![i] = <<>>]
    /\ pc' = [w \in Workers |-> IF w[1] = i THEN "idle" ELSE pc[w]]
    /\ cur' = [w \in Workers |-> IF w[1] = i THEN None ELSE cur[w]]
    /\ mem' = [w \in Workers |-> IF w[1] = i THEN NewRow("absent") ELSE mem[w]]
    /\ seen' = [w \in Workers |-> IF w[1] = i THEN {} ELSE seen[w]]
    /\ seenPark' = [w \in Workers |-> IF w[1] = i THEN NoDeadlines ELSE seenPark[w]]
    /\ UNCHANGED <<dbVars, execs, manual, faults>>

\* Mutant of Start: interrupted runs are left as they are.
StartNothingInterrupted(i) ==
    /\ phase[i] = "down"
    /\ phase' = [phase EXCEPT ![i] = "reset"]
    /\ UNCHANGED <<dbVars, todo, batch, sweep, jobs, workVars, execs, boundVars>>

\* GetRunningRuns, whoever is working on them.
Start(i) ==
    /\ phase[i] = "down"
    /\ phase' = [phase EXCEPT ![i] = "reset"]
    /\ todo' = [todo EXCEPT ![i] =
                  [r \in Runs |-> IF row[r].status = "running" THEN row[r] ELSE None]]
    /\ UNCHANGED <<dbVars, batch, sweep, jobs, workVars, execs, boundVars>>

\* One loop turn: the row read at Start is written back as pending, or the
\* write fails and the run is passed over.
ResetOne(i, r) ==
    /\ phase[i] = "reset"
    /\ todo[i][r] # None
    /\ \/ Save(r, [todo[i][r] EXCEPT !.status = "pending"]) /\ UNCHANGED faults
       \/ UNCHANGED row /\ Fault
    /\ todo' = [todo EXCEPT ![i][r] = None]
    /\ UNCHANGED <<age, done, parked, phase, batch, sweep, jobs, workVars, execs, manual, crashes>>

\* GetPendingRuns.
LoadPending(i) ==
    /\ phase[i] = "reset"
    /\ \A r \in Runs : todo[i][r] = None
    /\ phase' = [phase EXCEPT ![i] = "requeue"]
    /\ batch' = [batch EXCEPT ![i] =
                   {r \in Runs : row[r].status = "pending" /\ Elapsed(row[r].next)}]
    /\ UNCHANGED <<dbVars, todo, sweep, jobs, workVars, execs, boundVars>>

\* jobs <- id: the send blocks while the channel is full.
RequeuePush(i) ==
    /\ phase[i] = "requeue"
    /\ Len(jobs[i]) < QueueCap
    /\ \E r \in batch[i] :
         /\ jobs' = [jobs EXCEPT ![i] = Append(@, r)]
         /\ batch' = [batch EXCEPT ![i] = @ \ {r}]
    /\ UNCHANGED <<dbVars, phase, todo, sweep, workVars, execs, boundVars>>

StartWorkers(i) ==
    /\ phase[i] = "requeue"
    /\ batch[i] = {}
    /\ phase' = [phase EXCEPT ![i] = "up"]
    /\ UNCHANGED <<dbVars, todo, batch, sweep, jobs, workVars, execs, boundVars>>

-----------------------------------------------------------------------------
\* One unit of time: every pending deadline comes one tick closer.
Tick ==
    /\ row' = [r \in Runs |-> DownRow(row[r])]
    /\ age' = [r \in Runs |-> Down1(age[r])]
    /\ parked' = [r \in Runs |-> [k \in Steps |-> Down1(parked[r][k])]]
    /\ mem' = [w \in Workers |-> DownRow(mem[w])]
    /\ seenPark' = [w \in Workers |-> [k \in Steps |-> Down1(seenPark[w][k])]]
    /\ todo' = [i \in Instances |->
                  [r \in Runs |-> IF todo[i][r] = None THEN None ELSE DownRow(todo[i][r])]]
    /\ UNCHANGED <<done, phase, batch, sweep, jobs, pc, cur, seen, execs, boundVars>>

-----------------------------------------------------------------------------
\* What a worker does unless something fails.
WorkerStep(w) ==
    \/ \E r \in Runs : Take(w, r) \/ Drop(w, r)
    \/ Load(w)
    \/ \E k \in Steps :
         \/ Execute(w, k)
         \/ CommitSuccess(w, k)
         \/ DueDelay(w, k)
         \/ Park(w, k)
         \/ Repark(w, k)
         \/ FinishDelay(w, k)
    \/ CommitRetry(w)
    \/ CommitFailure(w)
    \/ SaveDue(w)
    \/ Complete(w)

WorkerFault(w) ==
    \/ \E r \in Runs : LockFails(w, r)
    \/ LoadFails(w)
    \/ Lost(w)

SchedulerStep(i) == Wake(i) \/ SweepRetries(i) \/ SweepPush(i)

StartupStep(i) ==
    \/ Start(i)
    \/ \E r \in Runs : ResetOne(i, r)
    \/ LoadPending(i)
    \/ RequeuePush(i)
    \/ StartWorkers(i)

Next ==
    \/ \E i \in Instances :
         \/ \E r \in Runs : Create(i, r) \/ RetryRun(i, r)
         \/ SchedulerStep(i)
         \/ StartupStep(i)
         \/ Crash(i)
    \/ \E w \in Workers : WorkerStep(w) \/ WorkerFault(w)
    \/ Tick

Spec == Init /\ [][Next]_vars

\* Goroutines that can run do run, the scheduler's ticker fires, a stopped
\* process is restarted and time passes.  Nobody has to create or retry a
\* run, and nothing has to fail.
Fairness ==
    /\ \A w \in Workers : WF_vars(WorkerStep(w))
    /\ \A i \in Instances : WF_vars(SchedulerStep(i)) /\ WF_vars(StartupStep(i))
    /\ WF_vars(Tick)

FairSpec == Spec /\ Fairness

-----------------------------------------------------------------------------
(* Properties.                                                              *)

TypeOK ==
    /\ row \in [Runs -> Row]
    /\ age \in [Runs -> Nat]
    /\ done \in [Runs -> SUBSET Steps]
    /\ parked \in [Runs -> [Steps -> Time]]
    /\ phase \in [Instances -> {"down", "reset", "requeue", "up"}]
    /\ todo \in [Instances -> [Runs -> Row \cup {None}]]
    /\ batch \in [Instances -> SUBSET Runs]
    /\ sweep \in [Instances -> {"idle", "woken", "push"}]
    /\ jobs \in [Instances -> Seq(Runs)]
    /\ pc \in [Workers -> {"idle", "locked", "walk", "ok", "retryable", "fatal", "save"}]
    /\ cur \in [Workers -> Runs \cup {None}]
    /\ mem \in [Workers -> Row]
    /\ seen \in [Workers -> SUBSET Steps]
    /\ seenPark \in [Workers -> [Steps -> Time]]
    /\ execs \in [Runs -> [Steps -> Nat]]
    /\ manual \in [Runs -> Nat]
    /\ faults \in Nat
    /\ crashes \in Nat

\* Steps whose completion must be on record before anything after them may
\* happen: the log of a delay that was already due is written best-effort.
Durable == {k \in Steps : Plan[k] # "due"}

\* The steps of a run take effect in plan order: when a step has had its
\* outside effect, every action and delay before it has a success log
\* (executeStepsWithState), across retries, parks, crashes and workers.
InOrder ==
    \A r \in Runs : \A k \in Steps :
        execs[r][k] > 0 => \A j \in Durable : j < k => j \in done[r]

\* A run reported completed has a success log for every action and delay, and
\* every action really happened (processRun, the final status write).
CompletedMeansAllDone ==
    \A r \in Runs :
        row[r].status = "completed" =>
            /\ Durable \subseteq done[r]
            /\ \A k \in Steps : Plan[k] = "action" => execs[r][k] > 0

\* Nothing but RequeueInFlight at process start picks up a run whose row says
\* running, so such a row has a worker on it unless a database write was lost
\* or some process has yet to start.
NoOrphan ==
    \A r \in Runs :
        row[r].status = "running" =>
            \/ \E w \in Workers : Active(w) /\ cur[w] = r
            \/ faults > 0
            \/ \E i \in Instances : phase[i] \in {"down", "reset"}

\* A waiting row and the waiting log of the run's next step agree: the sweeper
\* wakes by the row's wake_at, handleDelayStep decides by the log's, and a
\* waiting row without a deadline would never be woken.
WaitingMatchesLog ==
    \A r \in Runs :
        row[r].status = "waiting" =>
            \E k \in Steps :
                /\ Plan[k] = "delay"
                /\ k \notin done[r]
                /\ \A j \in Durable : j < k => j \in done[r]
                /\ parked[r][k] # None
                /\ row[r].wake = parked[r][k]

\* No step happens more often than its automatic retries allow, for each time
\* a user retries the run, plus once for every crash and every lost write.
AttemptBudget ==
    \A r \in Runs : \A k \in Steps :
        execs[r][k] <= (MaxRetries + 1) * (1 + manual[r]) + crashes + faults

\* A step whose success is on record never happens again: "resumed runs never
\* re-execute completed actions" (RequeueInFlight, executeStepsWithState).
NoReexecution ==
    [][\A r \in Runs : \A k \in Steps : k \in done[r] => execs'[r][k] = execs[r][k]]_vars

\* A delay step finishes only once the deadline it was parked with has come by
\* the clock that set it, also when the run is resumed before: the waker compares
\* with another clock, the database's (handleDelayStep, "Woken early").
DelayHonored ==
    [][\A r \in Runs : \A k \in Steps :
         Plan[k] = "delay" /\ k \in done'[r] \ done[r] => parked[r][k] = 0]_vars

\* A completed run never changes status again, and a failed one only by
\* RetryRun: duplicate queue entries and stale row copies revive neither.
SettledStaysSettled ==
    [][\A r \in Runs :
         /\ row[r].status = "completed" => row'[r].status = "completed"
         /\ row[r].status = "failed" /\ row'[r].status # "failed" =>
              manual'[r] = manual[r] + 1]_vars

\* An automatic retry starts no earlier than its backoff says.
BackoffRespected ==
    [][\A r \in Runs :
         row[r].status = "pending" /\ row'[r].status = "running" => Elapsed(row[r].next)]_vars

\* The rows RequeueInFlight takes for interrupted are: no live worker is on
\* the run when its row is written back.
RecoveryOnlyInterrupted ==
    \A i \in Instances : \A r \in Runs :
        todo[i][r] # None => ~\E w \in Workers : Active(w) /\ cur[w] = r

\* What DurableRun sees of a run: pending, running and waiting are one.
RunState(r) ==
    IF row[r].status \in {"absent", "completed", "failed"} THEN row[r].status ELSE "live"

\* The promise of DurableRun.
Abstract ==
    INSTANCE DurableRun WITH
        Steps <- Durable,
        state <- [r \in Runs |-> RunState(r)],
        finished <- [r \in Runs |-> done[r] \cap Durable]

ImplementsDurableRun == Abstract!Spec

\* Every run that enters is eventually completed or failed: no dropped push,
\* duplicate, backoff, park or restart leaves one behind.  After a lost write a
\* row may say running for as long as the process lives (NoOrphan).
EventuallySettled ==
    \A r \in Runs :
        row[r].status # "absent" ~> row[r].status \in {"completed", "failed"} \/ faults > 0

\* A process that starts gets as far as starting its workers.
StartupCompletes ==
    \A i \in Instances : phase[i] = "down" ~> phase[i] = "up"
=============================================================================
