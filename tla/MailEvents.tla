----------------------------- MODULE MailEvents -----------------------------
(***************************************************************************)
(* The ledger of delivery events of one organization: the webhook that       *)
(* inserts them (webhook_handlers.go), the drains of every process that claim *)
(* and apply them, the reaper (webhook_processor.go, events_repository.go),   *)
(* and what they lead to: suppressions, the soft bounce count, the breaker    *)
(* that pauses marketing, and the workflows a human open starts.              *)
(*                                                                           *)
(* The provider delivers at least once and in any order. A drain works on     *)
(* copies of the rows it claimed and settles each by its id alone, so a slow   *)
(* drain may write after its claim was reaped and given to another.           *)
(***************************************************************************)
EXTENDS Integers, FiniteSets, FiniteSetsExt

CONSTANTS
    Events,         \* webhook events, each with its own svix-id
    KindOf,         \* [Events -> Kinds]
    DeliveredOf,    \* [opens -> the delivered event within machineOpenWindow, or NoEvent]
    NoEvent,
    Drains,         \* one drain loop per process
    Batch,          \* resendClaimBatch
    MaxAttempts,    \* resendMaxAttempts
    TripAt,         \* complaints that reach breakerPauseRate at the org's volume
    MaxReceived,    \* bound: of the events, how many come
    MaxFaults       \* bound: failed statements and deaths of a process

\* An unsubscribe is suppressed like a complaint and trips nothing.
Kinds == {"complaint", "unsubscribe", "soft_bounce", "delivered", "opened"}
Bearing == {e \in Events : KindOf[e] \in {"complaint", "unsubscribe"}}
Complaints == {e \in Events : KindOf[e] = "complaint"}
SoftBounces == {e \in Events : KindOf[e] = "soft_bounce"}
Opens == {e \in Events : KindOf[e] = "opened"}

ASSUME EventAssumption ==
    /\ IsFiniteSet(Events) /\ NoEvent \notin Events
    /\ KindOf \in [Events -> Kinds]
    /\ DeliveredOf \in [Opens -> {e \in Events : KindOf[e] = "delivered"} \cup {NoEvent}]
ASSUME MailBoundAssumption ==
    /\ {Batch, MaxAttempts, TripAt} \subseteq Nat \ {0}
    /\ {MaxReceived, MaxFaults} \subseteq Nat

Statuses == {"absent", "pending", "processing", "done", "failed"}
Local == [step : {"idle", "apply", "count", "rates", "pause", "settle", "failed"},
          batch : SUBSET Events, tries : [Events -> Nat], cur : SUBSET Events, seen : Nat]

VARIABLES
    status, attempts, \* of the rows, by svix-id
    ripe,           \* opens that happened more than engagementGrace ago
    suppressed,     \* [organization's] addresses with a suppression, by event
    soft,           \* soft_bounce_count
    paused,         \* marketing_paused
    drain,          \* [Drains -> Local]
    triggering,     \* opens whose TriggerEvent goroutine runs
    enrolled,       \* opens that started a workflow
    \* history
    inTime,         \* opens whose delivered row was there before they were ripe
    trouble,        \* [Events -> attempts that failed or were reaped, up to MaxAttempts]
    missed,         \* a check of the rates or a pause failed
    faults

ledgerVars == <<status, attempts>>
effectVars == <<suppressed, soft, paused, triggering, enrolled>>
historyVars == <<inTime, trouble, missed>>
vars == <<ledgerVars, ripe, effectVars, drain, historyVars, faults>>

NoTries == [e \in Events |-> 0]
Idle == [step |-> "idle", batch |-> {}, tries |-> NoTries, cur |-> {}, seen |-> 0]

TypeOK ==
    /\ status \in [Events -> Statuses]
    /\ attempts \in [Events -> Nat]
    /\ ripe \subseteq Opens
    /\ suppressed \subseteq Bearing
    /\ soft \in 0..Cardinality(SoftBounces)
    /\ paused \in BOOLEAN
    /\ drain \in [Drains -> Local]
    /\ triggering \subseteq Opens /\ enrolled \subseteq Opens
    /\ inTime \subseteq Opens
    /\ trouble \in [Events -> 0..MaxAttempts]
    /\ missed \in BOOLEAN
    /\ faults \in 0..MaxFaults

Init ==
    /\ status = [e \in Events |-> "absent"]
    /\ attempts = [e \in Events |-> 0]
    /\ ripe = {}
    /\ suppressed = {} /\ soft = 0 /\ paused = FALSE
    /\ drain = [d \in Drains |-> Idle]
    /\ triggering = {} /\ enrolled = {}
    /\ inTime = {} /\ trouble = [e \in Events |-> 0]
    /\ missed = FALSE
    /\ faults = 0

Fault == faults < MaxFaults /\ faults' = faults + 1
NoFault == UNCHANGED faults
InLedger == {e \in Events : status[e] # "absent"}
Troubled(e) == Min({trouble[e] + 1, MaxAttempts})
Go(d, step) == drain' = [drain EXCEPT ![d].step = step]
\* The event the drain works on.
Cur(d, e) == drain[d].cur = {e}
\* The drain goes on with another copy of its batch.
Leave(d, e) ==
    IF drain[d].batch = {}
    THEN drain' = [drain EXCEPT ![d] = Idle]
    ELSE \E next \in drain[d].batch :
            drain' = [drain EXCEPT ![d].step = "apply", ![d].cur = {next},
                                   ![d].batch = @ \ {next}, ![d].tries[e] = 0]

-----------------------------------------------------------------------------
(***************************************************************************)
(* The webhook.                                                             *)
(***************************************************************************)

\* A delivered event is there for the rates and the machine check: a drain has
\* nothing to apply, so its claim and its settling are left out.
LedgerOnly(e) == KindOf[e] = "delivered"

\* InsertEvent. A repeated delivery finds the row by its svix-id; after a
\* failed insert the provider delivers again.
Receive(e) ==
    /\ e \notin InLedger /\ Cardinality(InLedger) < MaxReceived
    /\ status' = [status EXCEPT ![e] = IF LedgerOnly(e) THEN "done" ELSE "pending"]
    /\ UNCHANGED <<attempts, ripe, effectVars, drain, historyVars, faults>>

\* The grace of an open ends, whether or not it has been received.
Ripen(e) ==
    /\ e \in Opens \ ripe
    /\ ripe' = ripe \cup {e}
    /\ inTime' = IF DeliveredOf[e] \in InLedger THEN inTime \cup {e} ELSE inTime
    /\ UNCHANGED <<ledgerVars, effectVars, drain, trouble, missed, faults>>

-----------------------------------------------------------------------------
(***************************************************************************)
(* A drain.                                                                 *)
(***************************************************************************)

\* Mutant: a row that was claimed before is not found again.
PendingFresh == {e \in Events : status[e] = "pending" /\ attempts[e] = 0}
Pending == {e \in Events : status[e] = "pending"}
\* At most Batch rows; which come first is not modelled.
ClaimPendingEvents(d) ==
    /\ drain[d].step = "idle"
    /\ \E S \in kSubset(Min({Batch, Cardinality(Pending)}), Pending) : \E e \in S :
        /\ status' = [x \in Events |-> IF x \in S THEN "processing" ELSE status[x]]
        /\ attempts' = [x \in Events |-> IF x \in S THEN attempts[x] + 1 ELSE attempts[x]]
        /\ drain' = [drain EXCEPT ![d] =
                       [step |-> "apply", cur |-> {e}, batch |-> S \ {e}, seen |-> 0,
                        tries |-> [x \in Events |-> IF x \in S THEN attempts'[x] ELSE 0]]]
    /\ UNCHANGED <<ripe, effectVars, historyVars, faults>>

\* Mutant: nothing waits for the delivered event.
ShouldDeferNever(e) == FALSE
ShouldDefer(e) == e \in Opens \ ripe
\* Mutant: waiting costs an attempt.
DeferKeepsAttempt(d) ==
    \E e \in Events :
        /\ drain[d].step = "apply" /\ Cur(d, e) /\ ShouldDefer(e)
        /\ status' = [status EXCEPT ![e] = "pending"]
        /\ Leave(d, e)
        /\ UNCHANGED <<attempts, ripe, effectVars, historyVars, faults>>
\* DeferEvent gives the attempt back.
DeferEvent(d) ==
    \E e \in Events :
        /\ drain[d].step = "apply" /\ Cur(d, e) /\ ShouldDefer(e)
        /\ \/ /\ status' = [status EXCEPT ![e] = "pending"]
              /\ attempts' = [attempts EXCEPT ![e] = IF @ > 0 THEN @ - 1 ELSE 0]
                    /\ NoFault
           \/ Fault /\ UNCHANGED <<status, attempts>>
        /\ Leave(d, e)
        /\ UNCHANGED <<ripe, effectVars, historyVars>>

\* Mutant: an error of the suppression is taken for success.
SuppressAlways(d) ==
    \E e \in Bearing :
        /\ drain[d].step = "apply" /\ Cur(d, e)
        /\ \/ suppressed' = suppressed \cup {e} /\ NoFault
           \/ Fault /\ UNCHANGED suppressed
        /\ Go(d, "settle")
        /\ UNCHANGED <<ledgerVars, ripe, soft, paused, triggering, enrolled, historyVars>>
\* AddSuppression, insert or ignore.
Suppress(d) ==
    \E e \in Bearing :
        /\ drain[d].step = "apply" /\ Cur(d, e)
        /\ \/ /\ suppressed' = suppressed \cup {e} /\ NoFault
              /\ Go(d, IF e \in Complaints THEN "rates" ELSE "settle")
           \/ Fault /\ UNCHANGED suppressed /\ Go(d, "failed")
        /\ UNCHANGED <<ledgerVars, ripe, soft, paused, triggering, enrolled, historyVars>>

\* Mutant: the rates are over the events that were handled.
RatedHandled == {e \in Complaints : status[e] = "done"}
\* DeliverabilityRates over the ledger, the event itself included.
Rated == Complaints \cap InLedger
CheckRates(d) ==
    /\ drain[d].step = "rates"
    /\ \/ /\ Go(d, IF Cardinality(Rated) >= TripAt THEN "pause" ELSE "settle")
          /\ NoFault /\ UNCHANGED missed
       \/ Fault /\ missed' = TRUE /\ Go(d, "settle")
    /\ UNCHANGED <<ledgerVars, ripe, effectVars, inTime, trouble>>

\* SetMarketingPaused; a failure is logged and forgotten.
Pause(d) ==
    /\ drain[d].step = "pause"
    /\ \/ paused' = TRUE /\ NoFault /\ UNCHANGED missed
       \/ Fault /\ missed' = TRUE /\ UNCHANGED paused
    /\ Go(d, "settle")
    /\ UNCHANGED <<ledgerVars, ripe, suppressed, soft, triggering, enrolled, inTime, trouble>>

\* RecordSoftBounce counts the ledger as of its statement's snapshot; its
\* upsert may wait for the row of another.
CountSoft(d) ==
    \E e \in SoftBounces :
        /\ drain[d].step = "apply" /\ Cur(d, e)
        /\ \/ /\ drain' = [drain EXCEPT ![d].step = "count",
                                        ![d].seen = Cardinality(SoftBounces \cap InLedger)]
              /\ NoFault
           \/ Fault /\ Go(d, "failed")
        /\ UNCHANGED <<ledgerVars, ripe, effectVars, historyVars>>
\* Mutant: a blind increment.
SoftPlusOne(n) == soft + 1
SoftAfter(n) == n
UpsertSoft(d) ==
    /\ drain[d].step = "count"
    /\ soft' = SoftAfter(drain[d].seen)
    /\ drain' = [drain EXCEPT ![d].step = "settle", ![d].seen = 0]
    /\ UNCHANGED <<ledgerVars, ripe, suppressed, paused, triggering, enrolled, historyVars, faults>>

\* emitEngagementTrigger: a human open of a campaign mail starts a goroutine;
\* a failed lookup drops it. Deletion of the campaign and opt-out clicks end here too.
Human(e) == DeliveredOf[e] \notin InLedger
Emit(d) ==
    \E e \in Opens :
        /\ drain[d].step = "apply" /\ Cur(d, e) /\ ~ShouldDefer(e)
        /\ \/ triggering' = (IF Human(e) THEN triggering \cup {e} ELSE triggering) /\ NoFault
           \/ Fault /\ UNCHANGED triggering
        /\ Go(d, "settle")
        /\ UNCHANGED <<ledgerVars, ripe, suppressed, soft, paused, enrolled, historyVars>>

\* triggerEventInternal: the run's key is the message's, so a repeat inserts nothing.
Trigger(e) ==
    /\ e \in triggering
    /\ triggering' = triggering \ {e}
    /\ \/ enrolled' = enrolled \cup {e} /\ NoFault
       \/ Fault /\ UNCHANGED enrolled
    /\ UNCHANGED <<ledgerVars, ripe, suppressed, soft, paused, drain, historyVars>>

\* FinishEvent or RependEvent, by id whoever holds the claim by now. When the
\* statement fails the row is left to the reaper.
Settle(d) ==
    \E e \in Events :
        /\ drain[d].step \in {"settle", "failed"}
        /\ Cur(d, e)
        /\ \/ /\ status' = [status EXCEPT ![e] =
                     IF drain[d].step = "settle" THEN "done"
                     ELSE IF drain[d].tries[e] >= MaxAttempts THEN "failed" ELSE "pending"]
              /\ NoFault
           \/ Fault /\ UNCHANGED status
        /\ trouble' = [trouble EXCEPT ![e] = IF drain[d].step = "failed" THEN Troubled(e) ELSE @]
        /\ Leave(d, e)
        /\ UNCHANGED <<attempts, ripe, effectVars, inTime, missed>>

-----------------------------------------------------------------------------
(***************************************************************************)
(* The reaper, time, admins and crashes.                                     *)
(***************************************************************************)

ReapedStatus(e) == IF attempts[e] >= MaxAttempts THEN "failed" ELSE "pending"
\* The claims that are past resendReapGrace, of a dead drain or of a slow one.
ReapStrandedEvents(S) ==
    /\ S # {} /\ \A e \in S : status[e] = "processing"
    /\ status' = [e \in Events |-> IF e \in S THEN ReapedStatus(e) ELSE status[e]]
    /\ trouble' = [e \in Events |-> IF e \in S THEN Troubled(e) ELSE trouble[e]]
    /\ UNCHANGED <<attempts, ripe, effectVars, drain, inTime, missed, faults>>

\* A process dies with its drain and the goroutines it started.
Crash(d) ==
    /\ Fault
    /\ drain' = [drain EXCEPT ![d] = Idle]
    /\ triggering' \in SUBSET triggering
    /\ UNCHANGED <<ledgerVars, ripe, suppressed, soft, paused, enrolled, historyVars>>

-----------------------------------------------------------------------------
DrainStep(d) ==
    \/ ClaimPendingEvents(d) \/ DeferEvent(d) \/ Suppress(d) \/ CheckRates(d) \/ Pause(d)
    \/ CountSoft(d) \/ UpsertSoft(d) \/ Emit(d) \/ Settle(d)

Next ==
    \/ \E e \in Events : Receive(e) \/ Ripen(e) \/ Trigger(e)
    \/ \E d \in Drains : DrainStep(d) \/ Crash(d)
    \/ \E S \in SUBSET Events : ReapStrandedEvents(S)

Spec == Init /\ [][Next]_vars

\* The loops of every process go on and time passes. No event has to come.
FairSpec ==
    /\ Spec
    /\ \A d \in Drains : WF_vars(DrainStep(d))
    /\ \A e \in Opens : WF_vars(Ripen(e))
    /\ WF_vars(\E S \in SUBSET Events : ReapStrandedEvents(S))

-----------------------------------------------------------------------------
(***************************************************************************)
(* Properties.                                                              *)
(***************************************************************************)

\* An event that is done has had its effect: a complaint or an unsubscribe is
\* never acknowledged without its suppression, whatever fails or dies.
DoneMeansSuppressed == \A e \in Bearing : status[e] = "done" => e \in suppressed

\* A soft bounce counts once, however often its event is delivered, applied,
\* reaped and applied again (the comment of RecordSoftBounce).
SoftCountBacked == soft <= Cardinality(SoftBounces \cap InLedger)

\* When the complaints that reach the rate have all been handled marketing is
\* paused, also when each drain saw only its own: unless the check or the pause
\* failed or an event was given up on.
BreakerTrips ==
    /\ \A e \in Complaints \cap InLedger : status[e] = "done"
    /\ \A d \in Drains : drain[d].step = "idle"
    /\ Cardinality(Complaints \cap InLedger) >= TripAt
    /\ ~missed
    => paused

\* A prefetch by a mail proxy starts no workflow when the delivered event came
\* within the grace, in whatever order the two webhooks arrive.
PrefetchStartsNothing == \A e \in inTime : e \notin triggering \cup enrolled

\* Waiting for the grace costs no attempt: an event fails only after as many
\* failed or abandoned attempts as it has (the comment of process).
FailedMeansTried == \A e \in Events : status[e] = "failed" => trouble[e] >= MaxAttempts

\* What has been received is in the end applied or given up on, for good: no
\* crash, failure or slow drain leaves an event in its claim for ever.
EventSettles == <>[](\A e \in Events : status[e] \in {"absent", "done", "failed"})
=============================================================================
