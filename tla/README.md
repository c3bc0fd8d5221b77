# Formal model of the CRM back end

TLA+ models of the parts of the CRM server whose correctness depends on the order in
which processes, requests and failures interleave, checked with TLC on small instances and
proved with TLAPS for every instance where that is possible. `PROJECT.json` maps every
definition to the lines it translates, lists the runs, and gives for every checked property a mutation of
the code that breaks it.

Paths below are relative to `src/crm-backend/`.

Contents: 1 The system. 2 What is modelled, module by module. 3 The runs. 4 Fairness.
5 The proofs. 6 What the code does not promise. 7 What is abstracted or left out.
8 Plan. 9 How to run it.

## 1. The system

A multi-tenant CRM: one Go server (several processes may run on one database), PostgreSQL as the
only shared memory, Redis for the AI queue, a mail provider outside, a React client. The
processes hold no distributed lock: everything they agree on goes through single SQL statements
and short transactions (`UPDATE ... WHERE status IN ...`, `FOR UPDATE SKIP LOCKED`,
`ON CONFLICT DO NOTHING`), and everything long (a mail, an outside call, a walk through a workflow)
happens between them. That is where the model looks.

### Components

| component | state it keeps | operations | talks to | what makes it correct |
|---|---|---|---|---|
| **run engine** (`internal/automation/engine*.go`, `recovery.go`, `scheduler.go`) | run rows and step logs; jobs channel, worker pool, the worker's copy of the row | create, lock, execute, retry, park, wake, sweep, manual retry, start, recovery, crash | record hooks create runs; executors act outside | steps in order, never repeated once recorded, none forgotten; every run ends |
| **campaign lane** (`internal/marketing/campaign_*.go`, `ab_*.go`) | the campaign row, its roster, the leases of claimed rows; the worker's batch | launch, preview, edit, pause, resume, cancel, delete; claim, check, submit, settle; reap; decide A/B; prune | provider, consent ledger | one mail per address, nothing before launch, one variant per row, sending ends |
| **sequence enrollment** (`internal/marketing/sequence_*.go`) | enrollments with a cursor, claims, runs | create, cancel; feed, claim, count, advance, complete; backfill; prune | segments give the audience, the run engine takes the runs | everyone once, nobody skipped |
| trigger fan-out (`conditions.go`, `run_now.go`) | workflows, idempotency keys | match, enroll | creates runs | one run per event and workflow |
| **schedule timers** (`timers.go`, `scheduler.go`) | pending and fired timer rows; the scan's copy of the workflow | arm (cancel, insert), list due, fire, consume, re-arm, reconcile, prune | creates runs; edits re-arm under it | the next occurrence is armed; no due timer waits for ever; one is consumed with its run on record, or because the workflow was gone, off or could not be read |
| **date-field timers** (`datefield_*.go`) | one timer per record; the payload of each write's goroutine; the rebuild's transaction | derive, cancel, materialize, rebuild (delete, scan, insert) | record writes, workflow edits | at rest every record ahead has its timer |
| **event waits** (`engagement.go`, `engine_wait.go`) | waits of parked runs, stamps in their logs | register, claim, satisfy, time out, finish | email events wake runs | event or deadline, whichever comes first, and the step ends |
| **step walk** (`engine.go`, `step_path.go`, `split.go`) | the side of each fork, as far as the logs tell it | evaluate or re-take a side, resume inside it | run engine | the same side after a resume |
| executors (`executor_*.go`, `assign_routing.go`) | rotation counter | one effect each | records, mail, webhooks | one turn per assignment |
| workflow editing (`handlers.go`, `validator.go`) | workflows, versions | save, toggle, delete (modelled for their timers) | triggers | a run keeps its version; timers follow the last save |
| **email event ledger** (`internal/marketing/webhook_processor.go`, `events_repository.go`) | queued provider events with attempts, suppressions, the soft bounce count, the pause switch | ingest, claim, defer, apply, check rates, finish, return, reap | provider, consent, workflows started by an open | every event settles, an effect precedes its acknowledgment and counts once |
| consent, domains, content, analytics (`internal/marketing`) | ledger rows, domain states, documents | single requests | campaign lane | mostly single transactions |
| **lead ledger** (`internal/integrations/ingest.go`, `webhook_processor.go`, `backfill.go`, `repository.go`) | inbound leads with status, attempts, claim, source and record; contacts | request and replay, receive, claim, fetch, match, write, finish, put back, import, reap, retry | providers, records, triggers | a success has its contact, an import starts no automation, every delivery settles |
| connections, cursors of backfills (`internal/integrations`) | tokens, pages | connect, refresh, page | providers | single requests; a walk that is resumed |
| AI queue, embeddings, gateway (`internal/worker`, `internal/ai`) | Redis list, vectors, budgets | enqueue, pop, score, reconcile | models | best effort by design |
| records, access control, workspaces, auth, reports (`internal/usecase`, `internal/repository`) | the CRM's data | requests, one transaction each | all the rest | database constraints; last owner of a workspace |
| HTTP layer, notifications, packages, client | sessions, subscriptions | routing, push | everything | functional |

`PROJECT.json` has one entry per component, with the reason for each that is not modelled.

### The hard behaviours

* **Locks that end early.** `LockAndGetRun` locks a row, marks it running and commits; the work
  happens after. The row lock does not say who is working.
* **A queue that drops and duplicates.** The jobs channel drops ids when it is full and the sweep offers
  every stranded run again, so an id may be in the channel twice, or nowhere.
* **Outside effects without a transaction.** A mail or an action has happened before the row that
  records it is written; the answer or the write may be lost, and the process may die in between.
* **State read once and used later.** A sender reads the campaign once per batch, a launch works
  on the campaign it read first, the feeder on cursors copied when its tick began.
* **Leases by age.** A claimed row is taken back when it is old; its worker may only be slow.
* **A provider that forgets.** Idempotency keys are honoured for 24 hours, retries may come later.
* **Events in any order.** The provider delivers at least once and reordered: an open may be
  processed before the delivery it is judged by, and a wait's event may come after its deadline.
* **Settling by id alone.** A slow drain writes the outcome of an event, or of a lead's whole row, whose claim was
  reaped and given to another.
* **Timers kept in step by hand.** A request saves a workflow and then cancels and inserts timers in statements of
  their own, while the scan re-arms from the copy it read and record writes re-arm in goroutines.
* **Walks that forget.** A resumed run walks its tree from the root; only logs tell it which side it took.
* **Records that are pruned.** Runs are deleted by age while they were the evidence that a contact
  had been enrolled.

`hazards` in `PROJECT.json` lists each of these where it bites, with the property that would catch it or
the reason no property does.

## 2. What is modelled

### Durable runs: `RunEngine`, refining `DurableRun`

`RunEngine` is the engine of one or several processes on one database.

| variables | code |
|---|---|
| `row`, `done`, `parked`, `age` | `automation_workflow_runs` (status, retry_count, next_retry_at, wake_at, created_at) and the success and waiting logs of its steps |
| `phase`, `todo`, `batch`, `sweep` | where a process is in `Start`/`RequeueInFlight` and the scheduler in `sweepRetries`; the rows each holds in memory |
| `jobs` | the buffered channel |
| `pc`, `cur`, `mem`, `seen`, `seenPark` | a worker in `processRun`: its run, its copy of the row (written back whole) and the step state it loaded |
| `execs`, `manual`, `faults`, `crashes` | history and bounds (`MaxMishaps` bounds manual retries, faults and crashes together) |

Every point where the code lets go of the database is a step boundary: `Create`, `RetryRun`;
`Take` (lock and mark running), `Drop`, `Load`; `Execute` then `CommitSuccess`,
`CommitRetry` or `CommitFailure`; `DueDelay`/`SaveDue`, `Park`, `Repark`, `FinishDelay`; `Complete`;
`Lost` (a failed write or a panic: the job is dropped and the row stays running); `Wake`,
`SweepRetries`, `SweepPush`; `Crash`, `Start`, `ResetOne`, `LoadPending`, `RequeuePush`,
`StartWorkers`; `Tick`. A database time is the number of ticks left until it, so that behaviour does not depend
on the absolute clock and the state space is finite. The sweep asks the database's clock and a step its process's: `Skew` is how far
the first may be ahead, which is how a run comes to be woken before its deadline. The steps of a run are `Plan`: an *action* has an
outside effect, a *delay* parks the run, a *due* delay is one whose deadline has passed when the walk meets it (the
code takes another path for it).

`DurableRun` is what a user of the engine may rely on, with no mechanism in it: steps finish in
order and never unfinish, a run completes after its last step, a completed run is over, a
failed one moves again only by a retry. `ImplementsDurableRun` maps pending, running and waiting to *live*, and
the success logs to *finished*.

### Campaigns: `CampaignRoster`, `CampaignSender`, `CampaignLaunch`, composed by `CampaignLane`, refining `Mailing`

* `CampaignRoster` has the two tables and one operator per SQL statement: the status flips with the
  states they may leave, the roster build, claim, stamp, settle, reap, release, prune. These are atomic, the rest is not.
* `CampaignSender` is the worker of each process (`claim`, load the campaign, check suppression,
  stamp, submit, settle), the reaper with its leases, the A/B decider with the campaigns it has listed, and the
  provider, which is external: it delivers, remembers the key for a day and answers a known key without
  delivering. Its answer may be an acceptance, an error after delivery (a lost ack), an error before it, or a refusal.
* `CampaignLaunch` is the API. A launch is read, begin, clear, build, assign, hold, finish, or a
  revert (assign and hold are the two statements of `AssignABTestCells`, which has no transaction); a preview is read, clear, build; a delete is a flip and a clear; every statement of
  them may fail and every handler may die between two.
* `CampaignLane` is their interleaving on the shared tables and states the properties.
* `Mailing` is what the lane amounts to for its audience: who is due or held back, claimed, found allowed, mailed.
  `ImplementsMailing` reads the first two from the rows, the next two from what the workers hold, the last from the provider. A mail
  needs a claim of a due address while sending and a check of its consent since; every loss, failure and reclaim is the one action `LetGo`.

A row's surrogate id is the pair (address, roster build), which is what makes the idempotency key
of a rebuilt roster different from the old one.

### Sequences: `SequenceFeed`, refining `OnceFeed`

Every process has a feeder. `Tick` copies the active enrollments; `Load`, `Resolve`, `Enroll`/`EnrollFails`,
`Count`, `Advance`, `Complete` are the statements of `feedOne`, with the claim and the run in
one transaction; `Boot` is the claim backfill that precedes the feeder in `main.go`; `Prune` deletes
finished runs, `Finish` ends them. Around them contacts join and leave, the workflow is switched and
deleted, enrollments are created and canceled. `times`, `by` and `steady` are history: how often a contact was enrolled, for whom first, and who has been in
the segment since the enrollment was made.

The initial states contain runs from before the claims table existed, since those are what the backfill is for.

`OnceFeed` has no feeders, pages, claims or runs: a contact is enrolled at most once, a position goes forward over nobody who is owed a
run, a count is covered by contacts enrolled for it, and what has ended is over. `ImplementsOnceFeed` reads it off the enrollments and the history.

### Time triggers: `WorkflowTimers`

One workflow whose trigger is a cron expression or a date field, and the timer rows it owns. `pending` and `fired`
are the rows of `automation_timers` by status; a row's key is its fire time, for a date trigger with its record, and
`gen` stands for the id, which tells the rows apart that one key has had.

| actor | actions |
|---|---|
| the scheduler's scan | `ScanBegin`, `Reconcile` (arms what an earlier failure left unarmed), `ListDue`, `NextDue`, `Fire`, `MarkFired`, `Rearm`; `Prune` |
| whoever arms a schedule, request or scan | `ArmCancelNothing`/`ArmCancel`, `ArmInsert`: the two statements of `ArmScheduleTimer` |
| a request | `ReadForUpdate`, `ReadForToggle`, `SoftDelete`, `SaveWorkflow` (the whole row it read), `CallArm`, `FindDateTimers`, `CancelDateTimers`, `SpawnRebuild` |
| the rebuild of a date trigger | `SwapBegin`, `SwapDelete`, `SwapScan`, `SwapInsert`, `SwapFails`: one READ COMMITTED transaction whose deletes are seen by others only at its commit |
| a write of a record | `WriteRecord`, then its goroutine: `ListDateWorkflows`, `FindRecordTimers`, `Materialize` |
| around them | `Tick`, `Crash` |

`lost` is history: somebody armed from a copy of the workflow or the record that was superseded by then, or a
statement of theirs failed. The properties about timers at rest except exactly that.

### The walk through a tree: `StepWalk`

One run of a workflow with conditions, splits, actions, delays and event waits, at the level of what the walk knows and
what it reads again. `Take` and `Load` begin an attempt; `Fork` takes the side the logs pin or else evaluates
(a condition on the records as loaded for this attempt or on a wait's outcome, a split by its hash);
`Skip`, `Execute`, `CommitSuccess`, `CommitError` and `Complete` are the rest of a walk, `Park`,
`Register`, `Repark`, `FinishWait` and `Clear` the parking steps. `WakeDueDelays` and `WakeDue` are the sweeps; an
engagement event is `ClaimEventWaits` and one `SatisfyWaitingRun` for each wait it claimed; `Change` edits a
record, `RetryRun` is a user's retry. `RunEngine` has the queue and several workers; here one worker at a time has the run,
and the tree, the records and the events are what varies.

### Delivery events: `MailEvents`

The ledger of one organisation, the drain of each process and the reaper. `Receive` inserts (a duplicate
delivery finds its row and changes nothing); `ClaimPendingEvents`; `DeferEvent` for an open that is still in its grace;
`Suppress`, `CheckRates` and `Pause` for complaints, `CountSoft` and `UpsertSoft` for soft bounces, `Emit` and
`Trigger` for opens; `Settle` writes *done*, *pending* or *failed* by id, whoever has the row now;
`ReapStrandedEvents` takes claims back, also those of a drain that is only slow; `Crash` may strike between any two. Each
statement may fail.

### Inbound leads: `LeadIngest`

The ledger of one organisation (`row`, the columns the program decides by), the contacts the leads become, and everybody
who works on a delivery with a copy of its row: `work` is what an actor holds, `hand` the rest of a drain's batch, `todo` the rest of an
import's walk.

| actor | actions |
|---|---|
| a client of the capture API | `Request` (insert under its Idempotency-Key, or look), `Replay` (the switch on the prior row's status) |
| the webhook and the drains | `Receive`; `Claim` of a batch; `FetchFails`, `FetchRefused`, `Quarantine`, `Fetched`; `Repend` after a failed write |
| the backfill and the reconciliation poller | `StartImport`, `Import`, `LookAtPrior`, `EndImport` |
| the core they share (`processEvent`) | `Match`, `Write`, `WriteFails`, `FailEvent`, `Finish` |
| around them | `Reap` (the four statements of `ReapStrandedEvents`), `Ask` and `Requeue` (an admin's retry), `Toggle` (the form), `Die` |

`Save` is `FinishEvent`: the whole row from the copy, whatever has become of it meanwhile. `Match` and `Write` are apart, since two deliveries about
one person may both find no contact; a unique index settles that for emails and nothing does for phones. A drain may be
slower than the reaper's grace (it holds a whole batch from the claim on); a request or an import is bounded by its ledger deadline
and never is.

## 3. The runs

Names of the bounds are those in the modules; every counter that the code leaves unbounded has one.

| run | instance | what it shows |
|---|---|---|
| `engine` | one process, one worker, two runs of *due, action, delay*, a channel of two; one mishap (a failed call, a panic, a crash or a manual retry), one automatic retry, a database clock one tick ahead; fairness | no orphan, deadlines that agree, no delay over early, no re-execution, refinement of `DurableRun`; pushes are dropped and repeated, and without a lost write every run ends |
| `duplicate_push` | two workers, one action | **violation**: an action that is already on record is executed again |
| `campaign_send` | two addresses, one process, one death, one provider error, one pause, one day, no lost write, with and without A/B; fairness | a sent row was delivered; a sent campaign is drained; the A/B remainder waits and is released; nobody is mailed twice although the provider has forgotten (a row of a dead worker; a tried row does not wait through the day); refinement of `Mailing`; a campaign that is not paused ends |
| `campaign_requests` | two handlers, two launches, a preview, an edit, cancel, delete, a failed statement, a lost write or a dead handler; an opt-out at any time | one launcher at a time; an opt-out is honoured by every send that could see it |
| `preview_race` | two handlers, a launch and a preview | **violation**: the preview wipes the roster that is being sent; the address is mailed again under a new key |
| `long_pause` | one address, one process, one lost answer, one pause, one day | **violation**: the row waits for its retry while the campaign is paused for a day; after the resume the provider does not know the key and delivers again |
| `sequence` | two contacts, a page of two, two feeders, one failed statement or lost answer, one crash, one member who comes or goes, one switch or delete, pruning; fairness | nobody twice, nobody skipped, completed means enrolled, the count is backed by runs, refinement of `OnceFeed`, the enrollment ends |
| `timers` | two schedules and a date trigger, one request (update, toggle or delete), one write of one record, a clock that reaches the first fire time, one failed statement or death; fairness | timers at rest are those of the workflow and its records; a due timer is settled; a schedule is armed again |
| `walk_tree` | eight steps: two waits, two conditions (one on a wait, one on the record), a split, a delay; an open and a click, an edited record, a retry, a failed statement, a crash; fairness | one side of each fork on record, *happened* means matched, no wait cut short, resumes where it stopped, every wait ends |
| `walk_flip` | a condition with one empty side, then a delay; one edit of the record | **violation**: the run goes into a side it had passed over |
| `mail_events` | any two of: an open, its delivery, two complaints, two soft bounces, an unsubscribe; two complaints reach the rate; two drains, batches of two, two attempts, one failure or death; fairness | suppressed before done, the soft count backed by events, the breaker trips although each drain saw one complaint, a prefetch starts nothing, failed means tried, every event settles |
| `lead_ingest` | one lead and one keyed request about the same person; a drain, a client, an import, the reaper, one retry by an admin; two attempts, one failed statement, fetch or write, one death, the form switched once; fairness | a success has its contact, an import starts nothing, no delivery is claimed beyond its budget, each settles |

Why these bounds are enough. *Engine*: runs do not share rows, only the channel and the workers. Two runs
and their duplicates compete for the one worker and for a channel of two; three steps put the action between both kinds of delay and
the end of the run after a parked one; one mishap strikes at any point of either run, and the clock of the database, one tick ahead, wakes a run before its
deadline so that it parks again. A second worker is in `duplicate_push`. *Campaign*: rows are independent but for the
batch, the drain check and the A/B cells, so two addresses suffice (one in each cell, or a cell and the
remainder); two attempts are one retry and the terminal attempt. `campaign_send` has one process because several of its
properties are ones a slow second worker weakens (section 6). *Sequence*: the page of two is full and also the last; two
feeders can be one page apart. *Timers*: the workflow is the only row two requests share, and a second request
adds only requests that overtake each other, which `lost` excepts; timers of different records never
meet. *Walk*: two waits so that a late event can find the run at the next one, a condition that reads a wait and one that reads a
record, a fork inside whose side a step parks. *Mail*: events meet only where an open looks for its delivery and where
complaints and soft bounces are counted, always two of them, so two come in any behaviour (`MaxReceived`) out of seven; `TripAt = 2` needs
both complaints, which one drain may have as a batch or two drains one each. *Leads*: two deliveries of one
person are what can disagree about a contact; one drain suffices to be overtaken, by the reaper and then by an import, a retry or its own next claim.

The type invariants are in no run: they are proved for every instance (section 5).
So is `NoDoubleDelivery` with two workers, under the assumptions of `DeliveredOnce`.

Larger instances that were also run without an error: `timers` with two requests, for `ScheduleArmed`
(830 000 states), and with two requests and a write, for `DatesCovered` (815 000); `engine` with two workers on two runs of one
delay and `Skew = 0`, for `EventuallySettled` (540 000); an open, its
delivery, two complaints and a soft bounce of `mail_events` all at once, claimed one by one (10.6 million).

The four violations are disagreements between the code and its own comments, quoted in `findings`. Each run that reports one checks nothing else.

## 4. Fairness

`FairSpec` asks for weak fairness of what the process schedules by itself and nothing of anybody else.

* **Engine**: a worker with a job goes on (goroutine of a pool), an idle one takes from the channel, the
  scheduler's cron keeps sweeping and pushing, time passes, a process that is down is started again (the
  platform restarts it) and gets through its start-up. Not assumed: that an action succeeds, that a push finds room.
* **Campaign**: the worker loop, the reaper and the decider tick; a lease gets old; an
  A/B window elapses; a request that has begun ends. Not assumed: that anybody launches, pauses or
  resumes, that the provider accepts, that rows become eligible in any order.
* **Sequence**: the ticker of a process ticks and a page goes on; a process is booted again. Not
  assumed: anything of the API, the contacts, the engine or the pruner.

* **Timers**: the scan runs again and again, a request, a rebuild and a goroutine that has begun goes on. Not assumed:
  that the clock goes on, that anybody edits or writes.
* **Walk**: a worker takes what is pending, the sweeper wakes what is due, the clock goes on, an event that has claimed a
  wait goes on to wake its run. Not assumed: that an event comes, a record changes, a user retries.
* **Mail**: drains and reaper go on, the grace of an open passes. Not assumed: that an event comes, that a
  workflow is started by the goroutine of an open.
* **Leads**: a drain, a request and an import that have begun go on, drains claim what is pending, the reaper ticks. Not
  assumed: that anybody sends, imports or retries, that a fetch or a write succeeds.

## 5. The proofs

TLAPS proves these for every value of the constants. A theorem's assumptions are the ASSUMEs of its module, and those
named here. All are invariance arguments: a strengthened invariant holds initially, every action
preserves it (one step per action in the proof), and it implies the property.
The three refinements (`EngineImplementsDurableRun`, `LaneImplementsMailing`, `FeederImplementsOnceFeed`) rest on such an invariant as well.

**`RunEngineProofs`.** `TypeCorrect`; `StepsHappenInOrder` and `CompletionIsEarned` for any number of processes, workers and
runs, by `OrderInv`: whatever a worker has *seen* as finished is on record, the step it is at has everything before it seen, and records never go away. A worker's copy of
the steps may be old but is never too large; this is why duplicates cannot break the order. `NeverReexecuted`, `SettledForGood`, `EngineImplementsDurableRun`
assume one worker (`SoleInv`: what is on record of its run is what it has seen, and its row says running for as long as it is at work). With two workers the first is
false, as `duplicate_push` shows.
`NothingOrphaned` (any number of processes and workers) is carried by `OrphanInv`: a running row is worked on, or some process has yet to reset it, or a
write was lost; the work is in the steps that end a job, of which each leaves the row in another status or counts a fault. `WaitsAreTimed`
(one worker) needs `WaitInv`: the deadlines a worker has read are those of the logs, for every step it has yet to pass; so the delay it parks at is the first one
not on record, and row and log get the same deadline. `DelaysAreHonored` is the other half (one worker): a delay goes on record as over only at
its deadline, whatever the skew of the clocks, since the walk compares the deadline of the log with its own clock. That no row
equals `None` is assumed (`NullAssumption`), since the model lets a variable hold either.

**`CampaignProofs`.** `CampaignTypeCorrect`; `LaunchIsExclusive` (a launcher implies status *snapshotting*, which only
a launcher can have entered); `LaunchComesFirst` (before the launch every row is absent or
pending and no worker holds anything); `SentIsDelivered` (an accepted answer in a worker's hand, or
on the row, was a delivery); `WinnerStands`. These, and `OptOutStands` (who is not mailable and in nobody's
hand stays so), hold for any workers, handlers, previews, edits, failures and days.
`SentIsFinal` assumes one worker and no previews (`SoleSender`, `MaxPreviews = 0`). `DrainInv` says that the worker is idle in a campaign
that is sent, so no late outcome can return one of its rows. With two workers a slow one may write over a row the other has settled
(section 6), and a preview begun in the draft may still build its rows when the campaign is over.

**`CampaignDeliveryProofs`.** `DeliveredOnce`, `RowsKeepTheirKey`, `RemainderWaits` under `Undisturbed`: no previews
or edits (`MaxPreviews = MaxEdits = 0`), and no day passes (`MaxDays = 0`), or days pass but not
over a tried row that waits, and no write is lost (`~LongPauses /\ MaxLost = 0`).
The invariant `IInv` ties every key ever submitted to the one row it was made from, every delivery to a key, and every row that may be sent
again to a key that the provider still remembers; `RestInv` keeps the A/B cells apart. Every part of the assumption is needed: a
preview rebuilds rows under new ids (`preview_race`), an edit that meets a launch gives a row another variant,
a resume after a day outlives the provider's memory (`long_pause`), and a lost stamp hides from the reaper that a row was
tried (section 6). Under it, the number of processes, launches, crashes, lost answers, pauses and
cancels is arbitrary.
`LaneImplementsMailing` rests on `IInv` and `RestInv` under the same assumption. Four kinds of step are one of the mailing by themselves
(claim, check, delivering submission, decision) and have a lemma each; `RowKey` gives that who is claimed is not held, `DeliverInv` that who is delivered
to was not mailed before. The status flips, and the three statements that fill the roster, which `Exclusive` puts into *snapshotting*, touch
nothing else. All the rest is calm in the sense of `IInv`'s own proof, and only lets go.

**`SequenceFeedProofs`.** `SequenceTypeCorrect`; `EnrolledAtMostOnce` from `OnceInv`: while a process is up, every contact with a run has a claim, and
whoever was enrolled has a claim or a run. It assumes `BackfillMayFail = FALSE`: `main.go` logs a
failed backfill and goes on, and then runs of an earlier build are not protected from pruning
and a second enrollment; the comment there accepts this.
`CursorPassesNobody` and `CompletedMeansEnrolled` need no such assumption: `CoverInv` says
that behind every cursor, in a row, in a tick's copy or in a page, all steady contacts are enrolled, and that the page in hand leaves no gap between the cursor and its last row. The page is the
`PageSize` smallest members, so the lemma about it argues by cardinality of the members below a contact.
`CountNeverInflated` assumes `BackfillMayFail = FALSE` too. A count is a number, so `BackedInv` gives it witnesses: there are
pairwise disjoint sets of contacts, one for each enrollment's row and one for each feeder at work, every contact in them enrolled by that
enrollment, and no count is larger than its set. A feeder that adds its count hands its set over; one that dies drops it.
`FeederImplementsOnceFeed` puts these together step by step: `CoverInv` allows an advance and a completion, `BackedInv` a new count, `OnceInv` an
enrollment; `WhileActive` makes a late write of a finished enrollment a stutter. It assumes `BackfillMayFail = FALSE` for the same reason.

**`WorkflowTimersProofs`.** `TimersTypeCorrect` by `TInv`: types, finiteness of every set of rows the actors hold (`NewRow` takes a generation
nobody holds, so all of them must be finite) and what the locals of an actor in the middle of
something are (`LocalInv`: the scan re-arms schedules only, a rebuild concerns a date trigger). `ConsumedTimersRan` says when a timer is consumed: with its run on record, or after the scan took the
workflow for gone, which it does when that is deleted or off at that moment, or when the read of it fails. `FiredInv` carries it: a
scan about to consume a timer of a workflow it took for active has its run on record. The comment of `scanTimers` claims more and
is refuted by the failed read (`PendingUntilRun`, section 6).
Four facts carry the next two: `Sorted` (an arming holds rows of schedules, a rebuild or a goroutine rows of its records), `Past` (what was fired, or the
scan has in hand, is due), `Owned` (an arming belongs to a request or a scan that waits for it), `Ready` (what is about to insert asked for a
schedule). `SchedulesStayArmed` needs `ScheduleInv`, which says what each actor still owes: `NoStray`, that an occurrence of another
expression, or of a workflow that is off, has a request that is still to arm or is among the targets of a cancel to come; `Covered`,
that an active schedule has its occurrence pending, and not just in the hands of a scan that consumes it without re-arming, or somebody who will arm it and finds
the key free (`Useful`); `LateHarmless`, that an arming which is not useful cancels only what a useful one is about to
cancel too. TLC checked these on `timers` before they were proved. `DatesStayCovered` needs `DateInv`: a record whose date lies ahead is `Brought`, which is to say that
a rebuild of the present workflow is still to be spawned, or is open and has the record's key among those found once it has scanned, or
the goroutine of the latest write of the record has not applied it, or its timer is pending and no open DELETE has it. Both hold for
any number of requests, writes, records, failures and deaths. The exceptions are in the properties: `lost`, which takes in every step from a copy
of the workflow or the record that was superseded by then (the scan's stale re-arm, overlapping saves, goroutines of one record applied out of
order) and every failed statement or death that cost a timer, and for dates more records than the scan limit of a rebuild.

**`StepWalkProofs`.** `WalkTypeCorrect`, `OneSideForGood`, `HappenedWasClaimed`, `NoneEndsEarly` for any tree, by four parts:
`PlaceInv` (which kind of step the walk can be at in each state), `MemoryInv` (a walk knows exactly the steps that are
on record), `SidesInv` (it has taken one side of each fork it passed, none that a step on record speaks against, and every side
around the step at hand) and `ClaimInv` (whatever says that a wait's event came, an event claimed the wait).
The assumption on trees is that a step comes after the forks it is inside of, is not on both sides of one, and is inside of
whatever side its fork is inside of.
`AttemptsResume` needs `PathInv`, which ties the attempts together by the `Verdict` of the database on a fork: a side with a step on record, or else
what the condition says now. While the records stay as they are, a walk takes exactly that side (`VerdictInv`), whatever it has passed and
not finished lies on a side it did not take (`PassedInv`), and every unfinished step that has a later one on record is off
by the verdict of one of its forks (`FrontInv`); so the step at hand, none of whose forks speaks against it, has nothing behind it. Two
things had to be proved about change: a step that goes on record on the side of its verdict turns no verdict (`VerdictStays`), and
a wait that ends turns none before it. The latter needs `AnswersComeFirst`, that a condition reads the outcome only of a wait
listed before it. The builder offers no other (`waitStepsBefore` in the client's `waitOutcomes.ts`), and `models.go:282` speaks of "a following
If/Else"; the server does not validate it, and TLC refutes the property for a tree whose condition reads a later wait and has an empty
side (section 6).

**`MailEventsProofs`.** `MailTypeCorrect`, `SuppressedBeforeDone`, `SoftBouncesCountOnce`, `RateReachedMeansPaused`, `NoWorkflowByPrefetch`,
`GivenUpAfterItsAttempts` for any events, drains and failures: `HandInv` (what a drain holds is in the ledger and of the kind its step is for), `DoneInv` (whoever is about to settle has suppressed),
`SoftInv` (a count in hand is at most the soft bounces there are), `BreakerInv` (while the rate is reached and marketing is not paused, some complaint
still has its check to come), `PrefetchInv`, `TriedInv` (neither a row nor a copy of it shows more attempts than troubles, but for the present claim).

**`LeadIngestProofs`.** `LedgerTypeCorrect`; `AnsweredLeadsExist` from `WrittenInv`: not only the row and the answer but every copy that may yet be
saved over the row shows a record only when its person has a contact, and so does whoever matched a contact or is about to finish. `ImportsNeverRun`
from `QuietInv`: the row of an import carries its source from the insert on, and every copy of somebody past the look carries one too
(`CopiesSourced`), so no save of an overtaken actor takes it away; hence neither the reaper nor a retry puts the row into the queue and no drain ever has
it (`ImportsApart`). This is the claim of the comment in `ReapStrandedEvents`, and of `classifyRetry`, for any number of drains, requests, imports,
deaths and retries.
`PoisonGivesUp` assumes `MaxAttempts <= 3` (`BudgetAssumption`; `maxWebhookAttempts` is 3), for with four the property is false (section 6). Its invariant
`EndsInv` speaks of each lead that no living drain was overtaken on: at most one drain has it, in its batch or at work (`HeldOnce`), none while it is queued
or failed unwritten (`HeldUnderWay`); the row counts the claims that no retry gave back whenever it is queued or has no source
(`RowCounts`), and so does the copy of the drain (`CopiesCount`). The one save of an older count is that of an import, which runs a failed row again: its copy
counts two at least, so that with three attempts what the drain puts back then has one left at most. TLC checked `EndsInv` with two drains and with two
imports before it was proved.

Model-checked only: all liveness (`EventuallySettled`, `SendingEnds`, `FeedingEnds`, `DueIsSettled`, `ScheduleGoesOn`, `WaitEnds`, `EventSettles`, `DeliverySettles`),
since neither ENABLED nor fairness is in the prover's reach. What the violation runs check is false, and so not proved.

## 6. What the code does not promise

Properties one may expect and TLC refutes. Four are runs of the project and are reported as findings. Of the others, some
follow from the design, and some contradict a comment too; for those the comment is quoted in the table. Each is reproduced by
setting the constants named (everything else as in the run given) and checking the property in place of the run's.

| property | constants | what happens |
|---|---|---|
| `NoReexecution`, two workers | `dup_push.cfg` | the sweep re-offers a run still queued; both workers load the log before either commits |
| `NoDoubleDelivery`, previews | `preview_race.cfg` | a preview clears the roster a launch has begun to send |
| `InDocumentOrder` | `walk_flip.cfg` | a side without a step leaves nothing on record; after the delay behind it the condition is asked again, of a changed record |
| `BackoffRespected` | `dup_push.cfg`, one slot | a duplicate entry left from before the failure is taken at once: `LockAndGetRun` does not look at next_retry_at |
| `StartupCompletes` | `engine`, `QueueCap = 1` | recovery sends to the channel before a worker exists: more ready pending runs than the channel holds (100 in the code) block the start for ever |
| `RecoveryOnlyInterrupted` | `dup_push.cfg`, two `Instances`, one slot, `QueueCap = 1` | a process that starts takes the running rows of another that is alive for interrupted |
| `NoDoubleDelivery`, long pauses | `long_pause.cfg` | a retryable error hid a delivery, the campaign is paused for more than a day and resumed: the key is forgotten; `domain/campaign.go:108-112` has "so a long pause can't duplicate-deliver past the window" |
| `NoDoubleDelivery`, lost stamp | `campaign_send`, `MaxLost = 1` | the dispatch stamp is best effort: without it the reaper returns a row that was mailed a day ago |
| `SentStaysSent` | `campaign_send`, two `Senders` | a slow worker writes its outcome over the row a second worker has already settled |
| `OneKeyPerRow`, edits | `campaign_send`, `MaxEdits = 1` | the launch assigns variants from the campaign it read before an edit changed the test |
| `SendingEnds`, edits | `campaign_send`, `MaxEdits = 1` | the same race leaves a remainder held that no decider will list |
| `LaunchEnds` | `campaign_send`, `MaxFailures = 1` | a handler dies, or its revert fails, during a launch: nothing ever leaves *snapshotting* |
| `PendingUntilRun` | `timers` | the read of an active workflow fails and the scan takes it for gone: its due timer is consumed, with no run, while `scheduler.go:211-212` has "a due timer stays pending until its run is durably created" |
| `NoOldOccurrence` | `timers` | the scan arms the cron expression it read over the one an edit has just armed (the comment of `ArmScheduleTimer` is about the edit alone) |
| `ResumesWhereItStopped`, a later wait | a tree *condition, action on its yes side, wait, action* whose condition reads the wait; a retry | the condition said no before the wait and says yes after it; the retried run executes the action in front of the wait |
| `ImportMissesNothing` | `lead_ingest` | an import looks for a prior delivery by source, which a row of the webhook lacks until it is written (`backfill.go:283`): a lead that the webhook failed or quarantined is passed over, while `reconcile.go:10-15` says that the poller imports "any the webhook missed", an exhausted attempt budget included |
| `RecordKept` | `lead_ingest` | a drain that was overtaken saves its whole row over the one that has the record (`FinishEvent`); `retry.go:24-28` names it ("a losing run writes NULL back over a result another run just committed") and calls it unreachable "if we do not replay stored payloads on demand", but the reaper and the imports bring it about without anybody asking; `reaper.go:26-29` sets the grace "well above" what a live delivery can hold, which a drain's batch exceeds |
| `DeliverySettles` without its exception for rows with a record | `lead_ingest` | an overtaken drain puts a row back that an import has meanwhile finished (`RependEvent` asks for no status); the drain that claims it next dies, and as the row has a record the reaper never releases it |
| `PoisonEnds`, overtaken leads | `lead_ingest`, without the exception of `overtaken` | the wholesale save of an overtaken drain puts an old count of attempts back |
| `PoisonEnds`, a larger budget | `lead_ingest`, `MaxAttempts = 4`, `MaxFaults = 5` | a drain fails the row and puts it back in two statements (`failEvent`, `RependEvent`); an import that looked at the row in between runs it again and saves the count it read over that of the later claims, so a fifth follows. With the three attempts of the code the count it saves is too high for that |
| a strand with budget goes back to the queue | `lead_ingest`, `MaxAttempts = 3` | a failed write has stamped the source on the webhook's row; when the next drain dies on it the reaper takes it for an import and fails it, with attempts left; `repository.go:281-285` has "a stranded one goes BACK to `pending` to be re-claimed, UNLESS it has already used its attempt budget", and `:298-299` "a row that died before finishing still has source_id NULL" |
| `TimedOutLeftUntouched` | `walk_tree` | a late event of a wait that has timed out wakes the run from its next park; it parks again and nothing is lost |

Also seen in the models and promised nowhere: the soft bounce count may be written from an older snapshot over a newer and
then be too low; a rate check or a pause that fails is logged and not repeated for its complaint; a late
`FinishEvent` or `RependEvent` overwrites the state a second claimant wrote; the workflow an open starts is lost if the process
dies before its goroutine has run; of two overlapping updates of a workflow the later save undoes the earlier.

## 7. What is abstracted or left out

* **Engine.** Branches, splits and event waits (a linear plan instead; `StepWalk` has them). One sweeper step at a time per process; the
  LIMIT 500 of its queries is larger than any instance. Errors of the start-up queries. What an
  action does: it happens, and reports success, a failure that may be retried, or one that may not. Retention
  of runs (in `SequenceFeed`, where it matters).
* **Campaigns.** Backoff times (a returned row may be claimed at once), the organisation-wide pause
  switch, progress events, cancellation of the context inside the rate limiter's wait, readiness beyond "the
  audience is not empty". The status *scheduled* is declared by the code and set by none of it. Suppressions
  are added, never lifted. Finishing a drained campaign happens between two rounds of a worker. No
  worker holds a row for a whole day (`Quiet`), and that all processes stay down for one is left out. One
  campaign: the statements never touch two.
* **Sequences.** The limit of 20 enrollments per tick and their order; a workflow that is deleted stays deleted.
  What becomes of a run is the engine's matter, so a run is *live* or *done*.
* **Timers.** Times are naturals and a cron expression is the set of times it names; time zones, the parsing of
  expressions and the batch limit of the scan are left out. One workflow; fired rows may be pruned at any age.
  A test lead never arms a timer.
* **Walk.** One worker at a time (duplicates are `RunEngine`'s). What a condition compares and how a split
  hashes: a condition says yes or no of the record as loaded, a split always says the same. Retry times: a failed
  attempt may be repeated at once.
* **Mail events.** The order of a claim, signatures, how an event finds its send and its contact, and the reporting rows. A
  delivered event is done when received (its row is only looked up). `ripe` replaces the clock of the grace.
* **Leads.** The rotation of owners (a failed create takes a second ticket), deals, consent, the health of connections, test leads, the batch
  route and the older webhook, the daily cap, pruning and redaction; imports with enrollment switched on; pages and cursors of a walk (it sees
  each lead of the form once, in any order). A fetch gives the lead, fails for now or for good.
* **Not modelled at all**: the components so marked in section 1. Authentication and access control are
  left out on purpose; text generation, queries and transport have no interleaving a state model would show.

## 8. Plan

Done, in order of importance: run engine and its abstraction; campaign lane; sequence enrollment; time triggers;
the walk through a tree with its event waits; delivery events; the ledger of inbound leads; the proofs of section 5.

Next modules:

1. The cursors of the lead backfill over `LeadIngest`, in the manner of `SequenceFeed`.
2. Trigger fan-out: matching a record's write to workflows, one run per event and workflow; composed with `RunEngine`'s `Create`.
3. `AssignRotation`, `WorkspaceOwners`, the AI job queue: small.

Compositions worth making: `StepWalk` with two workers; `MailEvents`' `Emit` with `StepWalk`'s emissions; suppressions with `CampaignSender`'s opt-out.

Abstract specifications worth stating next: a calendar (each occurrence of the workflow in force runs once, late or not) for `WorkflowTimers`; an
inbox (each lead one contact, each answer kept) for `LeadIngest`, which first needs the overtaken drain of section 6 to be ruled out.

Every safety property and every refinement of a passing run is proved. Theorem to add: a bound on claims that holds for overtaken leads too,
and for any number of attempts.

## 9. How to run it

`tlc -config engine.cfg MCRunEngine` (and likewise with the module and configuration each run names in
`PROJECT.json`), `tlapm RunEngineProofs.tla` (and the other `*Proofs` modules). `MCRunEngine`, `MCCampaign`,
`MCSequenceFeed`, `MCWorkflowTimers`, `MCStepWalk`, `MCMailEvents` and `MCLeadIngest` only add the plans, trees, model values and symmetry sets of the instances.
