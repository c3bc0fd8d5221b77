------------------------------ MODULE StepWalk ------------------------------
(***************************************************************************)
(* One workflow run on its way through a tree of steps: conditions and       *)
(* splits that choose a side, actions, delays and waits that an opened or     *)
(* clicked mail ends early (engine.go, engine_wait.go, engagement.go).        *)
(*                                                                           *)
(* Every attempt walks the tree again from the root. What it may skip and     *)
(* which side it must take it knows only from the logs of finished and         *)
(* parked steps; the rest it evaluates again, from the trigger's payload and   *)
(* from records loaded for this attempt. RunEngine models the queue, the       *)
(* workers and the timing of retries; here one worker at a time has the run.   *)
(* Steps are numbered as the definition lists them, a condition before both    *)
(* of its sides and the yes side before the no side.                           *)
(***************************************************************************)
EXTENDS Integers, FiniteSets

CONSTANTS
    Steps,          \* 1..N
    Kind,           \* [Steps -> Kinds]
    Within,         \* [Steps -> the sides a step is inside of]
    Reads,          \* [Steps -> the wait whose "happened" a condition reads, or NoStep]
    TakesA,         \* [Steps -> the side splitTakesA hashes for a split]
    Timeout,        \* [Steps -> ticks a delay or a wait is parked for]
    Awaits,         \* [Steps -> the event type of a wait]
    EventTypes,     \* email_opened, email_clicked
    Emissions,      \* engagement events of the run's contact, each at most once
    TypeOf,         \* [Emissions -> their event type]
    MaxRetries,     \* automatic retries of one step
    MaxChanges,     \* bound: changes of the records a condition reads
    MaxManual,      \* bound: manual retries
    MaxFaults,      \* bound: failed statements
    MaxCrashes      \* bound: deaths of the server process

NoStep == 0
Kinds == {"action", "delay", "wait", "condition", "split"}
Forks == {s \in Steps : Kind[s] \in {"condition", "split"}}
DataForks == {f \in Forks : Kind[f] = "condition" /\ Reads[f] = NoStep}
Parks == {s \in Steps : Kind[s] \in {"delay", "wait"}}
Waits == {s \in Steps : Kind[s] = "wait"}
Actions == {s \in Steps : Kind[s] = "action"}
Sides == Steps \X BOOLEAN

ASSUME StepAssumption ==
    /\ IsFiniteSet(Steps) /\ Steps \subseteq Nat \ {0}
    /\ Kind \in [Steps -> Kinds]
    /\ Within \in [Steps -> SUBSET Sides]
    \* A tree: what is inside of a side is inside of every side around it.
    /\ \A s \in Steps : \A x \in Within[s] :
          /\ x[1] \in Forks /\ x[1] < s /\ <<x[1], ~x[2]>> \notin Within[s]
          /\ Within[x[1]] \subseteq Within[s]
ASSUME ForkAssumption ==
    /\ Reads \in [Forks -> Waits \cup {NoStep}]
    /\ TakesA \in [Forks -> BOOLEAN]
ASSUME ParkAssumption ==
    /\ Timeout \in [Parks -> Nat \ {0}]
    /\ Awaits \in [Waits -> EventTypes] /\ TypeOf \in [Emissions -> EventTypes]
ASSUME WalkBoundAssumption == {MaxRetries, MaxChanges, MaxManual, MaxFaults, MaxCrashes} \subseteq Nat

VARIABLES
    \* the database
    status, retries, wake,  \* the run's row; wake names the step wake_at is of
    log,            \* [Steps -> status of the step's action log]
    left,           \* [Parks -> ticks until the deadline in its log and its wait row]
    stamped,        \* parked steps whose log says event_satisfied
    happened,       \* waits whose finished log says so
    waits,          \* [Waits -> its row in automation_event_waits]
    data,           \* [DataForks -> what the condition on record data would say now]
    \* the worker
    at, pos,        \* where executeStepsWithState is: past pos, or at it
    chosen,         \* sides this walk took
    done, parked, sat,  \* state.completed, state.waiting and its stamps
    knows,          \* evalCtx: [DataForks -> what the condition says in this walk]
    answers,        \* evalCtx.Actions: waits known to have happened
    \* each engagement event: resumeEventWaits
    em, claimed,    \* its step and the waits it has claimed
    \* history
    effects,        \* actions whose outside effect happened
    matched,        \* waits an event claimed
    changes, manual, faults, crashes

rowVars == <<status, retries, wake>>
logVars == <<log, left, stamped, happened>>
workVars == <<at, pos, chosen, done, parked, sat, knows, answers>>
eventVars == <<em, claimed>>
boundVars == <<changes, manual, faults, crashes>>
vars == <<rowVars, logVars, waits, data, workVars, eventVars, effects, matched, boundVars>>

Side == {<<f, b>> : f \in Forks, b \in BOOLEAN}
TypeOK ==
    /\ status \in {"pending", "running", "waiting", "completed", "failed"}
    /\ retries \in 0..MaxRetries
    /\ wake \in Parks \cup {NoStep}
    /\ log \in [Steps -> {"none", "waiting", "success"}]
    /\ left \in [Parks -> Nat]
    /\ stamped \subseteq Waits /\ happened \subseteq Waits
    /\ waits \in [Waits -> {"none", "open", "satisfied"}]
    /\ data \in [DataForks -> BOOLEAN]
    /\ at \in {"idle", "load", "walk", "effect", "register", "clear"}
    /\ pos \in Steps \cup {NoStep}
    /\ chosen \subseteq Side
    /\ done \subseteq Steps /\ parked \subseteq Parks
    /\ sat \subseteq Waits /\ answers \subseteq Waits
    /\ knows \in [DataForks -> BOOLEAN]
    /\ em \in [Emissions -> {"new", "claimed", "done"}]
    /\ claimed \in [Emissions -> SUBSET Waits]
    /\ effects \subseteq Actions /\ matched \subseteq Waits
    /\ changes \in 0..MaxChanges /\ manual \in 0..MaxManual
    /\ faults \in 0..MaxFaults /\ crashes \in 0..MaxCrashes

Init ==
    /\ status = "pending" /\ retries = 0 /\ wake = NoStep
    /\ log = [s \in Steps |-> "none"]
    /\ left = [s \in Parks |-> 0]
    /\ stamped = {} /\ happened = {}
    /\ waits = [s \in Waits |-> "none"]
    /\ data \in [DataForks -> BOOLEAN]
    /\ at = "idle" /\ pos = NoStep /\ chosen = {}
    /\ done = {} /\ parked = {} /\ sat = {} /\ answers = {}
    /\ knows = [f \in DataForks |-> FALSE]
    /\ em = [e \in Emissions |-> "new"]
    /\ claimed = [e \in Emissions |-> {}]
    /\ effects = {} /\ matched = {}
    /\ changes = 0 /\ manual = 0 /\ faults = 0 /\ crashes = 0

Fault == faults < MaxFaults /\ faults' = faults + 1

\* processRun returns: everything the walk held is forgotten.
Return ==
    /\ at' = "idle" /\ pos' = NoStep /\ chosen' = {}
    /\ done' = {} /\ parked' = {} /\ sat' = {} /\ answers' = {}
    /\ knows' = [f \in DataForks |-> FALSE]

-----------------------------------------------------------------------------
(***************************************************************************)
(* The start of an attempt.                                                 *)
(***************************************************************************)

Take ==
    /\ at = "idle" /\ status = "pending"
    /\ status' = "running" /\ at' = "load"
    /\ UNCHANGED <<retries, wake, logVars, waits, data, pos, chosen, done, parked, sat, knows,
                   answers, eventVars, effects, matched, boundVars>>

\* Mutant: the outcome of a wait is not read back.
LoadWithoutOutputs ==
    /\ at = "load"
    /\ at' = "walk"
    /\ done' = {s \in Steps : log[s] = "success"}
    /\ parked' = {s \in Parks : log[s] = "waiting"}
    /\ sat' = stamped
    /\ answers' = {}
    /\ knows' = data
    /\ UNCHANGED <<rowVars, logVars, waits, data, pos, chosen, eventVars, effects, matched, boundVars>>
\* The version, the logs with their outputs, and the records of the context.
\* A failed read fails the run.
Load ==
    /\ at = "load"
    /\ \/ /\ at' = "walk"
          /\ done' = {s \in Steps : log[s] = "success"}
          /\ parked' = {s \in Parks : log[s] = "waiting"}
          /\ sat' = stamped
          /\ answers' = happened
          /\ knows' = data
          /\ UNCHANGED <<status, pos, chosen, faults>>
       \/ Fault /\ status' = "failed" /\ Return
    /\ UNCHANGED <<retries, wake, logVars, waits, data, eventVars, effects, matched, changes, manual, crashes>>

-----------------------------------------------------------------------------
(***************************************************************************)
(* The walk. The next step is the first one behind pos whose sides were all  *)
(* taken; its recursion returns to the parent list by itself.                *)
(***************************************************************************)

Ahead == {s \in Steps : s > pos /\ Within[s] \subseteq chosen}
IsNext(s) == s \in Ahead /\ \A t \in Ahead : s <= t

\* state.started
Started == done \cup parked
\* hasAnyStepStarted
AnyStarted(f, b) == \E s \in Started : <<f, b>> \in Within[s]

\* Mutant: only finished steps pin a side.
PinnedByDone(f, b) == \E s \in done : <<f, b>> \in Within[s]
\* A side with a started step is taken again, the yes side first.
Pinned(f, b) == AnyStarted(f, b)

\* EvaluateConditions, or splitTakesA.
Evaluate(f) ==
    IF Kind[f] = "split" THEN TakesA[f]
    ELSE IF Reads[f] = NoStep THEN knows[f] ELSE Reads[f] \in answers
SideOf(f) == Pinned(f, TRUE) \/ (~Pinned(f, FALSE) /\ Evaluate(f))

Fork(f) ==
    /\ at = "walk" /\ IsNext(f) /\ f \in Forks
    /\ chosen' = chosen \cup {<<f, SideOf(f)>>}
    /\ pos' = f
    /\ UNCHANGED <<rowVars, logVars, waits, data, at, done, parked, sat, knows, answers, eventVars,
                   effects, matched, boundVars>>

Skip(s) ==
    /\ at = "walk" /\ IsNext(s) /\ s \in done
    /\ pos' = s
    /\ UNCHANGED <<rowVars, logVars, waits, data, at, chosen, done, parked, sat, knows, answers,
                   eventVars, effects, matched, boundVars>>

\* The effect of an action, of which the run does not know yet.
Execute(s) ==
    /\ at = "walk" /\ IsNext(s) /\ s \in Actions \ done
    /\ effects' = effects \cup {s}
    /\ at' = "effect" /\ pos' = s
    /\ UNCHANGED <<rowVars, logVars, waits, data, chosen, done, parked, sat, knows, answers,
                   eventVars, matched, boundVars>>

\* commitActionAndRun after the action succeeded; when it fails the row stays running.
CommitSuccess ==
    /\ at = "effect"
    /\ \/ /\ log' = [log EXCEPT ![pos] = "success"]
          /\ done' = done \cup {pos}
          /\ retries' = 0
          /\ at' = "walk"
          /\ UNCHANGED <<pos, chosen, parked, sat, knows, answers, faults>>
       \/ Fault /\ Return /\ UNCHANGED <<log, retries>>
    /\ UNCHANGED <<status, wake, left, stamped, happened, waits, data, eventVars, effects, matched,
                   changes, manual, crashes>>

\* The action returned an error, whatever it did outside. The attempt goes back
\* to the queue while retries are left, and fails the run otherwise.
CommitError ==
    /\ at = "effect"
    /\ \/ /\ retries < MaxRetries
          /\ status' = "pending" /\ retries' = retries + 1
          /\ UNCHANGED faults
       \/ status' = "failed" /\ UNCHANGED <<retries, faults>>
       \/ Fault /\ UNCHANGED <<status, retries>>
    /\ Return
    /\ UNCHANGED <<wake, logVars, waits, data, eventVars, effects, matched, changes, manual, crashes>>

Complete ==
    /\ at = "walk" /\ Ahead = {}
    /\ \/ status' = "completed" /\ UNCHANGED faults
       \/ Fault /\ UNCHANGED status
    /\ Return
    /\ UNCHANGED <<retries, wake, logVars, waits, data, eventVars, effects, matched, changes, manual, crashes>>

-----------------------------------------------------------------------------
(***************************************************************************)
(* Delays and waits.                                                        *)
(***************************************************************************)

\* The log and the row in one transaction.
Park(s) ==
    /\ at = "walk" /\ IsNext(s) /\ s \in Parks \ Started
    /\ \/ /\ log' = [log EXCEPT ![s] = "waiting"]
          /\ left' = [left EXCEPT ![s] = Timeout[s]]
          /\ status' = "waiting" /\ wake' = s
          /\ IF s \in Waits
             THEN /\ at' = "register" /\ pos' = s
                  /\ UNCHANGED <<chosen, done, parked, sat, knows, answers>>
             ELSE Return
          /\ UNCHANGED faults
       \/ Fault /\ Return /\ UNCHANGED <<status, wake, log, left>>
    /\ UNCHANGED <<retries, stamped, happened, waits, data, eventVars, effects, matched,
                   changes, manual, crashes>>

\* registerEventWait, a statement of its own after the run is parked.
Register ==
    /\ at = "register"
    /\ \/ waits' = [waits EXCEPT ![pos] = IF @ = "none" THEN "open" ELSE @] /\ UNCHANGED faults
       \/ Fault /\ UNCHANGED waits
    /\ Return
    /\ UNCHANGED <<rowVars, logVars, data, eventVars, effects, matched, changes, manual, crashes>>

\* Mutant: a parked step that is resumed is over, whenever it is due.
NotDueNever(s) == FALSE
NotDue(s) == ~(s \in Waits /\ s \in sat) /\ left[s] > 0
\* Resumed before its time: parked again with the same deadline.
Repark(s) ==
    /\ at = "walk" /\ IsNext(s) /\ s \in parked \ done
    /\ NotDue(s)
    /\ \/ status' = "waiting" /\ wake' = s /\ UNCHANGED faults
       \/ Fault /\ UNCHANGED <<status, wake>>
    /\ Return
    /\ UNCHANGED <<retries, logVars, waits, data, eventVars, effects, matched, changes, manual, crashes>>

\* finishWaitStep.
FinishWait(s) ==
    /\ at = "walk" /\ IsNext(s) /\ s \in parked \ done
    /\ ~NotDue(s)
    /\ \/ /\ log' = [log EXCEPT ![s] = "success"]
          /\ happened' = happened \cup ({s} \cap sat)
          /\ answers' = answers \cup ({s} \cap sat)
          /\ done' = done \cup {s}
          /\ wake' = NoStep /\ retries' = 0
          /\ at' = IF s \in Waits THEN "clear" ELSE "walk"
          /\ pos' = s
          /\ UNCHANGED <<chosen, parked, sat, knows, faults>>
       \/ Fault /\ Return /\ UNCHANGED <<log, happened, wake, retries>>
    /\ UNCHANGED <<status, left, stamped, waits, data, eventVars, effects, matched, changes, manual, crashes>>

\* ClearEventWaitsForRun drops every wait of the run; a failure is ignored.
Clear ==
    /\ at = "clear" /\ at' = "walk"
    /\ \/ waits' = [s \in Waits |-> "none"] /\ UNCHANGED faults
       \/ Fault /\ UNCHANGED waits
    /\ UNCHANGED <<rowVars, logVars, data, pos, chosen, done, parked, sat, knows, answers, eventVars,
                   effects, matched, changes, manual, crashes>>

\* Mutant: a wait is left to its event.
WakeDueDelays ==
    /\ status = "waiting" /\ wake \notin Waits /\ left[wake] = 0
    /\ status' = "pending" /\ wake' = NoStep
    /\ UNCHANGED <<retries, logVars, waits, data, workVars, eventVars, effects, matched, boundVars>>
\* WakeDueWaitingRuns.
WakeDue ==
    /\ status = "waiting" /\ left[wake] = 0
    /\ status' = "pending" /\ wake' = NoStep
    /\ UNCHANGED <<retries, logVars, waits, data, workVars, eventVars, effects, matched, boundVars>>

-----------------------------------------------------------------------------
(***************************************************************************)
(* An engagement event: claim the waits, then wake the run for each of them. *)
(***************************************************************************)

\* ClaimEventWaits: open waits for this event whose deadline is ahead.
ClaimEventWaits(e) ==
    LET hit == {s \in Waits : waits[s] = "open" /\ Awaits[s] = TypeOf[e] /\ left[s] > 0}
    IN
    /\ em[e] = "new"
    /\ \/ /\ waits' = [s \in Waits |-> IF s \in hit THEN "satisfied" ELSE waits[s]]
          /\ claimed' = [claimed EXCEPT ![e] = hit]
          /\ em' = [em EXCEPT ![e] = IF hit = {} THEN "done" ELSE "claimed"]
          /\ matched' = matched \cup hit
          /\ UNCHANGED faults
       \/ Fault /\ em' = [em EXCEPT ![e] = "done"] /\ UNCHANGED <<waits, claimed, matched>>
    /\ UNCHANGED <<rowVars, logVars, data, workVars, effects, changes, manual, crashes>>

\* Mutant: the stamp goes to whatever step the run is parked at.
StampedParked(s) == {t \in Waits : log[t] = "waiting"}
StampedOf(s) == {t \in {s} : log[t] = "waiting"}
\* SatisfyWaitingRun: one transaction, guarded by the row's status only.
SatisfyWaitingRun(e, s) ==
    /\ em[e] = "claimed" /\ s \in claimed[e]
    /\ \/ /\ status = "waiting"
          /\ status' = "pending" /\ wake' = NoStep
          /\ stamped' = stamped \cup StampedOf(s)
          /\ UNCHANGED faults
       \/ status # "waiting" /\ UNCHANGED <<status, wake, stamped, faults>>
       \/ Fault /\ UNCHANGED <<status, wake, stamped>>
    /\ claimed' = [claimed EXCEPT ![e] = @ \ {s}]
    /\ em' = [em EXCEPT ![e] = IF claimed[e] = {s} THEN "done" ELSE @]
    /\ UNCHANGED <<retries, log, left, happened, waits, data, workVars, effects, matched,
                   changes, manual, crashes>>

-----------------------------------------------------------------------------
(***************************************************************************)
(* Around the run.                                                          *)
(***************************************************************************)

RetryRun ==
    /\ status = "failed" /\ manual < MaxManual
    /\ status' = "pending" /\ retries' = 0
    /\ manual' = manual + 1
    /\ UNCHANGED <<wake, logVars, waits, data, workVars, eventVars, effects, matched,
                   changes, faults, crashes>>

\* A record that a condition reads is edited.
Change(f) ==
    /\ changes < MaxChanges /\ changes' = changes + 1
    /\ data' = [data EXCEPT ![f] = ~@]
    /\ UNCHANGED <<rowVars, logVars, waits, workVars, eventVars, effects, matched,
                   manual, faults, crashes>>

Tick ==
    /\ \E s \in Parks : left[s] > 0
    /\ left' = [s \in Parks |-> IF left[s] > 0 THEN left[s] - 1 ELSE 0]
    /\ UNCHANGED <<rowVars, log, stamped, happened, waits, data, workVars, eventVars, effects,
                   matched, boundVars>>

\* The process dies with its worker and its goroutines; the next start puts a
\* running row back to pending.
Crash ==
    /\ crashes < MaxCrashes /\ crashes' = crashes + 1
    /\ status' = IF status = "running" THEN "pending" ELSE status
    /\ Return
    /\ em' = [e \in Emissions |-> IF em[e] = "claimed" THEN "done" ELSE em[e]]
    /\ claimed' = [e \in Emissions |-> {}]
    /\ UNCHANGED <<retries, wake, logVars, waits, data, effects, matched, changes, manual, faults>>

-----------------------------------------------------------------------------
WorkerStep ==
    \/ Take \/ Load \/ CommitSuccess \/ CommitError \/ Complete \/ Register \/ Clear
    \/ \E s \in Steps : Fork(s) \/ Skip(s) \/ Execute(s) \/ Park(s) \/ Repark(s) \/ FinishWait(s)
EventStep(e) == ClaimEventWaits(e) \/ \E s \in Waits : SatisfyWaitingRun(e, s)

Next ==
    \/ WorkerStep
    \/ WakeDue
    \/ \E e \in Emissions : EventStep(e)
    \/ RetryRun \/ Tick \/ Crash
    \/ \E f \in DataForks : Change(f)

Spec == Init /\ [][Next]_vars

\* The pool takes what is pending, the sweeper wakes what is due and the clock
\* goes on. No event has to come and nobody has to retry by hand.
FairSpec == Spec /\ WF_vars(WorkerStep) /\ WF_vars(WakeDue) /\ WF_vars(Tick)
            /\ \A e \in Emissions : WF_vars(\E s \in Waits : SatisfyWaitingRun(e, s))

-----------------------------------------------------------------------------
(***************************************************************************)
(* Properties.                                                              *)
(***************************************************************************)

\* Steps on opposite sides of one fork.
Apart(s, t) == \E f \in Forks : <<f, TRUE>> \in Within[s] /\ <<f, FALSE>> \in Within[t]

\* However often the tree is walked again, the logs never show both sides of a
\* condition or a split: a side that made progress is the side of every later
\* attempt, also when its only progress is a step parked in it.
OneSideOnRecord ==
    \A s, t \in Steps : log[s] # "none" /\ log[t] # "none" => ~Apart(s, t)

\* A wait says the event happened only when an event of its type claimed it in
\* its time, and not because some other wait of the run was satisfied late.
HappenedWasMatched == happened \subseteq matched

\* A delay or a wait that ends without its event ends at its deadline, however
\* early the run was woken.
NoWaitCutShort ==
    [][\A s \in Parks : log[s] = "waiting" /\ log'[s] = "success" => s \in happened' \/ left[s] = 0]_vars

\* Action s takes effect behind nothing: no later step is on record yet.
InDocumentOrder == [][\A s \in effects' \ effects : \A t \in Steps : log[t] # "none" => t < s]_vars

\* While the records the conditions read stay as they are, every attempt goes
\* on where the one before it stopped, through retries, waits, events and crashes.
ResumesWhereItStopped ==
    [][changes = 0 => \A s \in effects' \ effects : \A t \in Steps : log[t] # "none" => t < s]_vars

\* A parked step ends, also when its event is lost: the run goes on, fails, or
\* is left running by a failed statement until the next start.
WaitEnds ==
    \A s \in Parks :
        log[s] = "waiting" ~>
            \/ log[s] = "success"
            \/ status = "failed"
            \/ status = "running" /\ at = "idle"

\* The comment of SatisfyWaitingRun: a run already woken by its timeout is left
\* untouched. A late event wakes it all the same when it is parked at its next step.
TimedOutLeftUntouched ==
    [][\A e \in Emissions, s \in Waits :
          s \in claimed[e] /\ s \notin claimed'[e] /\ log[s] = "success" =>
              UNCHANGED status]_vars
=============================================================================
