---------------------------- MODULE SequenceFeed ----------------------------
(***************************************************************************)
(* Feeding segments into one drip sequence: the enrollments of              *)
(* marketing/sequence_repository.go, the feeder of sequence_feeder.go in    *)
(* every server process, the durable claim of automation/repository.go and  *)
(* the run pruner that works against it.                                    *)
(*                                                                          *)
(* A tick copies the active enrollments and takes them one by one: it reads *)
(* the workflow, resolves the page of the segment behind the copied cursor, *)
(* enrolls the page contact by contact, adds to the count and moves the     *)
(* cursor. Nothing is locked between these steps: other feeders, the API,   *)
(* the pruner and a crash may come between any two.                         *)
(*                                                                          *)
(* Contacts are naturals in the order of their ids; 0 is uuid.Nil, the      *)
(* cursor of an enrollment whose feeder_cursor is still NULL.               *)
(***************************************************************************)
EXTENDS Naturals, FiniteSets

CONSTANTS
    Contacts,       \* contact ids
    Segments,       \* segments that are enrolled
    Jobs,           \* rows marketing_sequence_enrollments may get
    Feeders,        \* server processes
    PageSize,       \* sequenceFeedPageSize
    BackfillMayFail,\* may the claim backfill of a boot fail?
    MaxFaults,      \* bound: failed statements
    MaxCrashes,     \* bound: crashes of a process
    MaxChurn,       \* bound: contacts that join or leave a segment
    MaxToggles,     \* bound: times the workflow is switched or deleted
    MaxMishaps      \* bound: all of these together

ASSUME ContactAssumption == IsFiniteSet(Contacts) /\ Contacts \subseteq Nat \ {0}
ASSUME PageAssumption == PageSize \in Nat \ {0}
ASSUME SwitchAssumption == BackfillMayFail \in BOOLEAN
ASSUME BoundAssumption ==
    {MaxFaults, MaxCrashes, MaxChurn, MaxToggles, MaxMishaps} \subseteq Nat

Nobody == "nobody"
NoCursor == 0
Statuses == {"none", "active", "completed", "blocked", "canceled"}
Job == [status : Statuses, segment : Segments \cup {Nobody}, cursor : Contacts \cup {NoCursor},
        count : Nat]
NoJob == [status |-> "none", segment |-> Nobody, cursor |-> NoCursor, count |-> 0]

\* What a tick copied of an enrollment: its id and its cursor.
Entry == [job : Jobs, cursor : Contacts \cup {NoCursor}]
\* The locals of feedOne: the enrollment and its cursor as copied, the rows
\* of the page still to enroll, lastOK and enrolled.
Steps == {"down", "idle", "next", "resolve", "enroll", "count", "advance", "complete"}
Local == [step : Steps, job : Jobs \cup {Nobody}, cursor : Contacts \cup {NoCursor},
          rows : SUBSET Contacts, lastOK : Contacts \cup {NoCursor}, enrolled : Nat]
Outside(s) == [step |-> s, job |-> Nobody, cursor |-> NoCursor, rows |-> {},
               lastOK |-> NoCursor, enrolled |-> 0]

VARIABLES
    workflow,       \* the sequence workflow: active, inactive or deleted
    members,        \* [Segments -> contacts the audience query returns now]
    job,            \* [Jobs -> Job]
    claims,         \* contacts with a row in automation_run_idempotency_claims
    run,            \* [Contacts -> the run row of the contact's key]
    todo,           \* [Feeders -> enrollments its tick still has to take]
    feed,           \* [Feeders -> Local]
    \* History: how often a contact was enrolled, for which enrollment first,
    \* and who has been in the segment ever since the enrollment was made.
    times, by, steady,
    faults, crashes, churn, toggles

tableVars == <<job, claims, run, times, by, steady>>
feederVars == <<todo, feed>>
worldVars == <<workflow, members, churn, toggles>>
faultVars == <<faults, crashes>>
vars == <<tableVars, feederVars, worldVars, faultVars>>


TypeOK ==
    /\ workflow \in {"active", "inactive", "deleted"}
    /\ members \in [Segments -> SUBSET Contacts]
    /\ job \in [Jobs -> Job]
    /\ claims \subseteq Contacts
    /\ run \in [Contacts -> {"none", "live", "done"}]
    /\ todo \in [Feeders -> SUBSET Entry]
    /\ feed \in [Feeders -> Local]
    /\ times \in [Contacts -> Nat]
    /\ by \in [Contacts -> Jobs \cup {Nobody}]
    /\ steady \in [Jobs -> SUBSET Contacts]
    /\ faults \in 0..MaxFaults /\ crashes \in 0..MaxCrashes
    /\ churn \in 0..MaxChurn /\ toggles \in 0..MaxToggles

(***************************************************************************)
(* A process of this build comes up for the first time. Runs an earlier     *)
(* build enrolled may be there without a claim; it had no claims table.     *)
(***************************************************************************)
Init ==
    /\ workflow \in {"active", "inactive"}
    /\ members \in [Segments -> SUBSET Contacts]
    /\ job = [j \in Jobs |-> NoJob]
    /\ claims = {}
    /\ run \in [Contacts -> {"none", "live"}]
    /\ todo = [f \in Feeders |-> {}]
    /\ feed = [f \in Feeders |-> Outside("down")]
    /\ times = [c \in Contacts |-> IF run[c] = "none" THEN 0 ELSE 1]
    /\ by = [c \in Contacts |-> Nobody]
    /\ steady = [j \in Jobs |-> {}]
    /\ faults = 0 /\ crashes = 0 /\ churn = 0 /\ toggles = 0

Room == faults + crashes + churn + toggles < MaxMishaps
Fault == Room /\ faults < MaxFaults /\ faults' = faults + 1
NoFault == UNCHANGED faults

-----------------------------------------------------------------------------
(***************************************************************************)
(* The API and the world around the feeder.                                 *)
(***************************************************************************)

\* Create: the workflow exists, active or not, and the partial unique index
\* allows one active enrollment of a segment.
Create(j, s) ==
    /\ job[j].status = "none"
    /\ workflow # "deleted"
    /\ \A k \in Jobs : ~(job[k].status = "active" /\ job[k].segment = s)
    /\ job' = [job EXCEPT ![j] = [status |-> "active", segment |-> s,
                                  cursor |-> NoCursor, count |-> 0]]
    /\ steady' = [steady EXCEPT ![j] = members[s]]
    /\ UNCHANGED <<claims, run, times, by, feederVars, worldVars, faultVars>>

Cancel(j) ==
    /\ job[j].status \in {"active", "blocked"}
    /\ job' = [job EXCEPT ![j].status = "canceled"]
    /\ UNCHANGED <<claims, run, times, by, steady, feederVars, worldVars, faultVars>>

Toggle ==
    /\ Room /\ toggles < MaxToggles /\ toggles' = toggles + 1
    /\ workflow # "deleted"
    /\ workflow' = IF workflow = "active" THEN "inactive" ELSE "active"
    /\ UNCHANGED <<tableVars, feederVars, members, churn, faultVars>>

SoftDelete ==
    /\ Room /\ toggles < MaxToggles /\ toggles' = toggles + 1
    /\ workflow # "deleted"
    /\ workflow' = "deleted"
    /\ UNCHANGED <<tableVars, feederVars, members, churn, faultVars>>

Join(c, s) ==
    /\ Room /\ churn < MaxChurn /\ churn' = churn + 1
    /\ c \notin members[s]
    /\ members' = [members EXCEPT ![s] = @ \cup {c}]
    /\ UNCHANGED <<tableVars, feederVars, workflow, toggles, faultVars>>

Leave(c, s) ==
    /\ Room /\ churn < MaxChurn /\ churn' = churn + 1
    /\ c \in members[s]
    /\ members' = [members EXCEPT ![s] = @ \ {c}]
    /\ steady' = [j \in Jobs |-> IF job[j].segment = s THEN steady[j] \ {c} ELSE steady[j]]
    /\ UNCHANGED <<job, claims, run, times, by, feederVars, workflow, toggles, faultVars>>

\* The engine brings an enrolled run to an end.
Finish(c) ==
    /\ run[c] = "live"
    /\ run' = [run EXCEPT ![c] = "done"]
    /\ UNCHANGED <<job, claims, times, by, steady, feederVars, worldVars, faultVars>>

\* PruneCompletedRuns, in any process that is up: the runs that finished more
\* than 90 days ago are deleted. Claims are not.
Prune(old) ==
    /\ \E f \in Feeders : feed[f].step # "down"
    /\ old # {} /\ \A c \in old : run[c] = "done"
    /\ run' = [c \in Contacts |-> IF c \in old THEN "none" ELSE run[c]]
    /\ UNCHANGED <<job, claims, times, by, steady, feederVars, worldVars, faultVars>>

-----------------------------------------------------------------------------
(***************************************************************************)
(* The feeder.                                                              *)
(***************************************************************************)

\* AutoMigrate runs before the feeder and the pruner start. It claims the key
\* of every enrolled run that is still there; its error is only logged.
Boot(f) ==
    /\ feed[f].step = "down"
    /\ feed' = [feed EXCEPT ![f] = Outside("idle")]
    /\ \/ claims' = claims \cup {c \in Contacts : run[c] # "none"}
       \/ BackfillMayFail /\ UNCHANGED claims
    /\ UNCHANGED <<job, run, times, by, steady, todo, worldVars, faultVars>>

\* tick: the active enrollments with the cursor they have now.
Tick(f) ==
    /\ feed[f].step = "idle"
    /\ feed' = [feed EXCEPT ![f] = Outside("next")]
    /\ todo' = [todo EXCEPT ![f] = {[job |-> j, cursor |-> job[j].cursor] :
                                       j \in {k \in Jobs : job[k].status = "active"}}]
    /\ UNCHANGED <<tableVars, worldVars, faultVars>>

TickEnds(f) ==
    /\ feed[f].step = "next" /\ todo[f] = {}
    /\ feed' = [feed EXCEPT ![f] = Outside("idle")]
    /\ UNCHANGED <<tableVars, todo, worldVars, faultVars>>

\* Mutant: the row is written whatever has become of the enrollment.
AtAnyTime(j, row) == [job EXCEPT ![j] = row]
\* The statements of the feeder leave an enrollment alone that is not active.
WhileActive(j, row) ==
    IF job[j].status = "active" THEN [job EXCEPT ![j] = row] ELSE job

\* feedOne up to its readiness checks. A read that fails and a workflow that
\* is not active leave the enrollment for the next tick.
Load(f, e) ==
    /\ feed[f].step = "next" /\ e \in todo[f]
    /\ todo' = [todo EXCEPT ![f] = @ \ {e}]
    /\ \/ /\ workflow = "active"
          /\ feed' = [feed EXCEPT ![f] = [Outside("resolve") EXCEPT
                          !.job = e.job, !.cursor = e.cursor, !.lastOK = e.cursor]]
          /\ NoFault /\ UNCHANGED job
       \/ workflow = "inactive" /\ NoFault /\ UNCHANGED <<feed, job>>
       \/ Fault /\ UNCHANGED <<feed, job>>
       \/ /\ workflow = "deleted"
          /\ job' = WhileActive(e.job, [job[e.job] EXCEPT !.status = "blocked"])
          /\ NoFault /\ UNCHANGED feed
    /\ UNCHANGED <<claims, run, times, by, steady, worldVars, crashes>>

Behind(s, cursor) == {c \in members[s] : c > cursor}
\* ResolveSegmentPage: the next PageSize contacts of the segment.
NextPage(s, cursor) ==
    {c \in Behind(s, cursor) :
        Cardinality({d \in Behind(s, cursor) : d < c}) < PageSize}

\* Mutant: a page that is not full is taken for the end of the segment.
ShortIsLast(rows) == Cardinality(rows) < PageSize
IsEnd(rows) == rows = {}

Resolve(f) ==
    /\ feed[f].step = "resolve"
    /\ \/ /\ LET rows == NextPage(job[feed[f].job].segment, feed[f].cursor)
             IN  feed' = [feed EXCEPT ![f].rows = rows,
                              ![f].step = IF IsEnd(rows) THEN "complete" ELSE "enroll"]
          /\ NoFault
       \/ Fault /\ feed' = [feed EXCEPT ![f] = Outside("next")]
    /\ UNCHANGED <<tableVars, todo, worldVars, crashes>>

\* Mutant: the dedupe of CreateRun, which lasts as long as the run row.
InsertsByRunRow(c) == run[c] = "none"
\* CreateRunWithDurableClaim inserts a run for a contact that has neither a
\* claim nor a run; in any case the contact has a claim afterwards.
Inserts(c) == c \notin claims /\ run[c] = "none"

ClaimAndRun(c, j) ==
    /\ claims' = claims \cup {c}
    /\ IF Inserts(c)
       THEN /\ run' = [run EXCEPT ![c] = "live"]
            /\ times' = [times EXCEPT ![c] = @ + 1]
            /\ by' = [by EXCEPT ![c] = j]
       ELSE UNCHANGED <<run, times, by>>

\* Mutant: re-fed contacts are counted as well.
GainedEveryone(c) == 1
Gained(c) == IF Inserts(c) THEN 1 ELSE 0

\* Where the loop over the page leads: back when nothing moved, past the count
\* when nothing was new.
AfterPage(local) ==
    IF local.lastOK = local.cursor THEN Outside("next")
    ELSE [local EXCEPT !.rows = {},
                       !.step = IF local.enrolled > 0 THEN "count" ELSE "advance"]

\* Mutant: whichever row comes first, as without the ORDER BY.
AnyRow(f, c) == c \in feed[f].rows
NextRow(f, c) == c \in feed[f].rows /\ \A d \in feed[f].rows : c <= d

Enroll(f, c) ==
    /\ feed[f].step = "enroll" /\ NextRow(f, c)
    /\ ClaimAndRun(c, feed[f].job)
    /\ LET local == [feed[f] EXCEPT !.rows = @ \ {c}, !.lastOK = c,
                                    !.enrolled = @ + Gained(c)]
       IN  feed' = [feed EXCEPT ![f] = IF local.rows = {} THEN AfterPage(local) ELSE local]
    /\ UNCHANGED <<job, steady, todo, worldVars, faultVars>>

\* The transaction fails, or commits and its answer is lost: the page ends here.
EnrollFails(f, c) ==
    /\ feed[f].step = "enroll" /\ NextRow(f, c)
    /\ Fault
    /\ ClaimAndRun(c, feed[f].job) \/ UNCHANGED <<claims, run, times, by>>
    /\ feed' = [feed EXCEPT ![f] = AfterPage(feed[f])]
    /\ UNCHANGED <<job, steady, todo, worldVars, crashes>>

\* AdvanceEnrollmentCursor, first statement. If it fails there is no second.
Count(f) ==
    /\ feed[f].step = "count"
    /\ LET j == feed[f].job IN
       \/ /\ job' = WhileActive(j, [job[j] EXCEPT !.count = @ + feed[f].enrolled])
          /\ feed' = [feed EXCEPT ![f].step = "advance", ![f].enrolled = 0]
          /\ NoFault
       \/ /\ Fault /\ UNCHANGED job
          /\ feed' = [feed EXCEPT ![f] = Outside("next")]
    /\ UNCHANGED <<claims, run, times, by, steady, todo, worldVars, crashes>>

\* Mutant: without the IS NULL branch a NULL cursor compares with nothing.
FurtherNotNull(j, cursor) == job[j].cursor # NoCursor /\ job[j].cursor < cursor
Further(j, cursor) == job[j].cursor < cursor

\* Its second statement.
Advance(f) ==
    /\ feed[f].step = "advance"
    /\ feed' = [feed EXCEPT ![f] = Outside("next")]
    /\ LET j == feed[f].job IN
       \/ /\ job' = IF Further(j, feed[f].lastOK)
                    THEN WhileActive(j, [job[j] EXCEPT !.cursor = feed[f].lastOK])
                    ELSE job
          /\ NoFault
       \/ Fault /\ UNCHANGED job
    /\ UNCHANGED <<claims, run, times, by, steady, todo, worldVars, crashes>>

Complete(f) ==
    /\ feed[f].step = "complete"
    /\ feed' = [feed EXCEPT ![f] = Outside("next")]
    /\ LET j == feed[f].job IN
       \/ /\ job' = WhileActive(j, [job[j] EXCEPT !.status = "completed"])
          /\ NoFault
       \/ Fault /\ UNCHANGED job
    /\ UNCHANGED <<claims, run, times, by, steady, todo, worldVars, crashes>>

Crash(f) ==
    /\ Room /\ crashes < MaxCrashes /\ crashes' = crashes + 1
    /\ feed[f].step # "down"
    /\ feed' = [feed EXCEPT ![f] = Outside("down")]
    /\ todo' = [todo EXCEPT ![f] = {}]
    /\ UNCHANGED <<tableVars, worldVars, faults>>

FeederStep(f) ==
    \/ Boot(f) \/ Tick(f) \/ TickEnds(f)
    \/ \E e \in Entry : Load(f, e)
    \/ Resolve(f)
    \/ \E c \in Contacts : Enroll(f, c) \/ EnrollFails(f, c)
    \/ Count(f) \/ Advance(f) \/ Complete(f)

Next ==
    \/ \E j \in Jobs : Cancel(j) \/ \E s \in Segments : Create(j, s)
    \/ Toggle \/ SoftDelete
    \/ \E c \in Contacts : Finish(c) \/ \E s \in Segments : Join(c, s) \/ Leave(c, s)
    \/ \E old \in SUBSET Contacts : Prune(old)
    \/ \E f \in Feeders : FeederStep(f) \/ Crash(f)

Spec == Init /\ [][Next]_vars

\* The ticker of every process keeps ticking and a process that died is
\* restarted; nothing is assumed of the API, the contacts, the engine or the
\* pruner.
FairSpec == Spec /\ \A f \in Feeders : WF_vars(FeederStep(f))

-----------------------------------------------------------------------------
\* sequence_feeder.go:168: each contact is enrolled into the sequence at most
\* once, forever: through re-enrolled segments, overlapping feeders, crashes,
\* lost answers, the pruner, and runs that are older than the claims table.
EnrolledOnce == \A c \in Contacts : times[c] <= 1

\* sequence_feeder.go:151: the cursor passes nobody. Whoever has been in the
\* segment since the enrollment was made and lies at or before its cursor has
\* been enrolled, whatever page was cut short and whichever feeder moved it.
NobodySkipped ==
    \A j \in Jobs : \A c \in steady[j] : c <= job[j].cursor => times[c] > 0

\* A completed enrollment has enrolled everybody who was there throughout,
\* the new members of a segment that is enrolled a second time included.
DrainedMeansEnrolled ==
    \A j \in Jobs : job[j].status = "completed" => \A c \in steady[j] : times[c] > 0

\* enrolled_count never claims more than the runs the enrollment created, even
\* when two feeders feed the same page or an answer is lost.
CountIsBacked ==
    \A j \in Jobs : job[j].count <= Cardinality({c \in Contacts : by[c] = j})

\* The promise of OnceFeed: besides the four invariants above, that an enrollment
\* which ended has ended, whatever a feeder still holds of it, that its position
\* and count only rise, and only while it is active, and that contacts are only
\* enrolled for an enrollment that was made.
Abstract ==
    INSTANCE OnceFeed WITH
        state <- [j \in Jobs |-> job[j].status],
        owed <- steady,
        position <- [j \in Jobs |-> job[j].cursor],
        count <- [j \in Jobs |-> job[j].count]

ImplementsOnceFeed == Abstract!Spec

\* An active enrollment is not fed for ever: it ends, unless the workflow is
\* switched off for good.
FeedingEnds ==
    \A j \in Jobs : job[j].status = "active" ~> (job[j].status # "active" \/ workflow = "inactive")

=============================================================================
