----------------------------- MODULE LeadIngest -----------------------------
(***************************************************************************)
(* The ledger of inbound leads of one organization (internal/integrations).  *)
(* A lead comes by one of three ways: a client calls the capture API with an  *)
(* Idempotency-Key; a provider calls a webhook, which only queues the lead    *)
(* for a drain that fetches it; or an import walks the form's history (the    *)
(* backfill an admin starts, or the reconciliation poller). All of them write  *)
(* the contact through one core (processEvent) and then save the whole ledger *)
(* row from the copy they hold, so whoever was overtaken writes old columns    *)
(* back. A reaper releases the rows of the dead, an admin may queue a failed   *)
(* delivery again.                                                            *)
(***************************************************************************)
EXTENDS Integers, FiniteSets, FiniteSetsExt

CONSTANTS
    Keys,           \* deliveries of the capture API, by Idempotency-Key
    Leads,          \* leads of one form at the provider, by the provider's id
    People,         \* whom the deliveries are about
    Who,            \* [Deliveries -> People]
    Emailed,        \* the people whose leads carry an email; others have a phone
    Clients,        \* requests to the capture API that may be under way at once
    Drains,         \* one webhook processor per process
    Importers,      \* walks of the form that may be under way at once
    Batch,          \* webhookClaimBatch
    MaxAttempts,    \* maxWebhookAttempts
    \* bounds
    MaxFaults,      \* failed statements, fetches and writes
    MaxDeaths,      \* drains, requests and imports that die
    MaxRequests, MaxImports, MaxRetries, MaxToggles

Deliveries == Keys \cup Leads
Actors == Clients \cup Drains \cup Importers

ASSUME LeadAssumption ==
    /\ Keys \cap Leads = {}
    /\ Who \in [Deliveries -> People] /\ Emailed \subseteq People
    /\ Clients \cap Drains = {} /\ Clients \cap Importers = {} /\ Drains \cap Importers = {}
ASSUME LeadBoundAssumption ==
    /\ {Batch, MaxAttempts} \subseteq Nat \ {0}
    /\ {MaxFaults, MaxDeaths, MaxRequests, MaxImports, MaxRetries, MaxToggles} \subseteq Nat

\* The columns the program decides by. A row has a connection iff it is a lead's.
Row == [status : {"absent", "pending", "processing", "processed", "failed", "quarantined"},
        attempts : Nat,
        claimed : BOOLEAN,      \* claimed_at is set
        source : BOOLEAN,       \* source_id is set
        record : BOOLEAN]       \* result_record_id is set
NoRow == [status |-> "absent", attempts |-> 0, claimed |-> FALSE, source |-> FALSE, record |-> FALSE]

\* What one actor holds of the delivery it works on.
Local == [step : {"idle", "look", "match", "write", "finish", "fail", "refuse", "repend"},
          on : SUBSET Deliveries, copy : Row, found : BOOLEAN]
Idle == [step |-> "idle", on |-> {}, copy |-> NoRow, found |-> FALSE]

VARIABLES
    row,            \* integration_events
    contacts,       \* [People -> number of contacts]
    open,           \* the form has a source and it is live
    work,           \* [Actors -> Local]
    hand,           \* [Drains -> copies of the claimed rows still to be processed]
    todo,           \* [Importers -> leads of the walk still to be looked at]
    asked,          \* deliveries a retry request has read and found retryable
    \* history and bounds
    origin,         \* who inserted the row
    live,           \* deliveries written with automation running
    told,           \* keys a client was told a success for
    claims,         \* [Leads -> times a drain claimed it]
    requeued,       \* [Leads -> times a retry put it back]
    overtaken,      \* leads that were reaped under a drain that still lived
    faults, deaths, requests, imports, toggles

ledgerVars == <<row, contacts, open>>
actorVars == <<work, hand, todo, asked>>
retryVars == <<claims, requeued, overtaken>>
historyVars == <<origin, live, told, retryVars>>
boundVars == <<faults, deaths, requests, imports, toggles>>
vars == <<ledgerVars, actorVars, historyVars, boundVars>>

NoCopies == [d \in Deliveries |-> NoRow]
Held(w) == {d \in Deliveries : hand[w][d] # NoRow}

TypeOK ==
    /\ row \in [Deliveries -> Row]
    /\ contacts \in [People -> Nat]
    /\ open \in BOOLEAN
    /\ work \in [Actors -> Local]
    /\ hand \in [Drains -> [Deliveries -> Row]]
    /\ todo \in [Importers -> SUBSET Leads]
    /\ asked \subseteq Leads
    /\ origin \in [Deliveries -> {"none", "client", "webhook", "import"}]
    /\ live \subseteq Deliveries /\ told \subseteq Keys
    /\ claims \in [Leads -> Nat] /\ requeued \in [Leads -> Nat] /\ overtaken \subseteq Leads
    /\ {faults, deaths, requests, imports, toggles} \subseteq Nat

Init ==
    /\ row = NoCopies
    /\ contacts = [p \in People |-> 0]
    /\ open \in BOOLEAN
    /\ work = [a \in Actors |-> Idle]
    /\ hand = [w \in Drains |-> NoCopies]
    /\ todo = [i \in Importers |-> {}]
    /\ asked = {}
    /\ origin = [d \in Deliveries |-> "none"]
    /\ live = {} /\ told = {}
    /\ claims = [d \in Leads |-> 0] /\ requeued = [d \in Leads |-> 0] /\ overtaken = {}
    /\ faults = 0 /\ deaths = 0 /\ requests = 0 /\ imports = 0 /\ toggles = 0

Fault == faults < MaxFaults /\ faults' = faults + 1
NoFault == UNCHANGED faults
Works(a, d) == work[a].on = {d}
At(a, step) == work[a].step = step
Go(a, step) == work' = [work EXCEPT ![a].step = step]
Leave(a) == work' = [work EXCEPT ![a] = Idle]
\* IngestClaimed and Ingest hand the row to processEvent.
Take(a, d, copy) ==
    work' = [work EXCEPT ![a] = [Idle EXCEPT !.step = "match", !.on = {d},
                                             !.copy = [copy EXCEPT !.source = TRUE]]]
\* FinishEvent: the wholesale save of the copy.
Save(d, copy, status) == row' = [row EXCEPT ![d] = [copy EXCEPT !.status = status]]
\* A save that is only logged when it fails.
SaveOrLose(d, copy, status) == (NoFault /\ Save(d, copy, status)) \/ (Fault /\ UNCHANGED row)
\* RependEvent: by the id alone, whatever has become of the row.
PutBack(d) == row' = [row EXCEPT ![d].status = "pending", ![d].claimed = FALSE]

-----------------------------------------------------------------------------
(***************************************************************************)
(* The webhook and the drains.                                              *)
(***************************************************************************)

\* Receive, enqueue and the dedupe index: the provider delivers at least once, and
\* again after a failed insert; a repeated delivery finds the row.
Receive(d) ==
    /\ row[d].status = "absent"
    /\ row' = [row EXCEPT ![d] = [NoRow EXCEPT !.status = "pending"]]
    /\ origin' = [origin EXCEPT ![d] = "webhook"]
    /\ UNCHANGED <<contacts, open, actorVars, live, told, retryVars, boundVars>>

Pending == {d \in Deliveries : row[d].status = "pending"}
\* Mutant: the claim is not counted.
ClaimedUncounted(d) == [row[d] EXCEPT !.status = "processing", !.claimed = TRUE]
Claimed(d) == [row[d] EXCEPT !.status = "processing", !.claimed = TRUE, !.attempts = @ + 1]

\* ClaimPendingEvents: one statement for the whole batch.
Claim(w, S) ==
    /\ At(w, "idle") /\ Held(w) = {}
    /\ S # {} /\ Cardinality(S) = Min({Batch, Cardinality(Pending)})
    /\ row' = [d \in Deliveries |-> IF d \in S THEN Claimed(d) ELSE row[d]]
    /\ hand' = [hand EXCEPT ![w] = [d \in Deliveries |-> IF d \in S THEN Claimed(d) ELSE NoRow]]
    /\ claims' = [d \in Leads |-> IF d \in S THEN claims[d] + 1 ELSE claims[d]]
    /\ UNCHANGED <<contacts, open, work, todo, asked, origin, live, told, requeued, overtaken, boundVars>>

\* process: the next of the batch.
NextOfBatch(w, d) ==
    /\ At(w, "idle") /\ d \in Held(w)
    /\ hand' = [hand EXCEPT ![w][d] = NoRow]
    /\ UNCHANGED <<contacts, open, todo, asked, historyVars, deaths, requests, imports, toggles>>

\* A transient failure of FetchLead or of a lookup: back to the queue while there
\* is budget. The statement that puts it back, or fails it, may fail as well.
FetchFails(w, d) ==
    /\ NextOfBatch(w, d) /\ Fault
    /\ UNCHANGED work
    /\ \/ /\ hand[w][d].attempts < MaxAttempts
          /\ PutBack(d)
       \/ /\ hand[w][d].attempts >= MaxAttempts
          /\ Save(d, hand[w][d], "failed")
       \/ UNCHANGED row

\* A 4xx, an unusable delivery, a connection removed: failed at once.
FetchRefused(w, d) ==
    /\ NextOfBatch(w, d)
    /\ UNCHANGED work
    /\ SaveOrLose(d, hand[w][d], "failed")

\* The form has no source, or a disabled one.
Quarantine(w, d) ==
    /\ NextOfBatch(w, d)
    /\ ~open
    /\ UNCHANGED work
    /\ SaveOrLose(d, hand[w][d], "quarantined")

Fetched(w, d) ==
    /\ NextOfBatch(w, d) /\ NoFault
    /\ open
    /\ Take(w, d, hand[w][d])
    /\ UNCHANGED row

\* After a failed write that may be repeated, in a statement of its own.
Repend(w, d) ==
    /\ At(w, "repend") /\ Works(w, d)
    /\ Leave(w)
    /\ \/ NoFault /\ PutBack(d)
       \/ Fault /\ UNCHANGED row
    /\ UNCHANGED <<contacts, open, hand, todo, asked, historyVars, deaths, requests, imports, toggles>>

-----------------------------------------------------------------------------
(***************************************************************************)
(* The core, processEvent, which all three ways share.                      *)
(***************************************************************************)

CoreSame == UNCHANGED <<open, hand, todo, asked, origin, retryVars, deaths, requests, imports, toggles>>

\* findMatch: an email matches its contact; a phone that several contacts share
\* matches none of them.
Matches(p) == IF p \in Emailed THEN contacts[p] > 0 ELSE contacts[p] = 1

Match(a, d) ==
    /\ At(a, "match") /\ Works(a, d)
    /\ work' = [work EXCEPT ![a].step = "write", ![a].found = Matches(Who[d])]
    /\ NoFault /\ CoreSame
    /\ UNCHANGED <<row, contacts, live, told>>

\* An import suppresses automation, the other two ways run it.
Runs(a) == a \notin Importers

\* upsert: update the contact that was found, else create one. The unique index
\* turns a second create of the same email into an update of the winner's contact.
Upsert(a, d) ==
    /\ IF work[a].found \/ (Who[d] \in Emailed /\ contacts[Who[d]] > 0)
       THEN UNCHANGED contacts
       ELSE contacts' = [contacts EXCEPT ![Who[d]] = @ + 1]
    /\ live' = IF Runs(a) THEN live \cup {d} ELSE live

\* The write succeeds, or it does and its answer is lost.
Write(a, d) ==
    /\ At(a, "write") /\ Works(a, d)
    /\ Upsert(a, d)
    /\ \/ Go(a, "finish") /\ NoFault
       \/ Go(a, "fail") /\ Fault
    /\ CoreSame /\ UNCHANGED <<row, told>>

\* The lead is refused for what it is, or a lookup or the write fails.
WriteFails(a, d) ==
    /\ work[a].step \in {"match", "write"} /\ Works(a, d)
    /\ \/ Go(a, "refuse") /\ NoFault
       \/ Go(a, "fail") /\ Fault
    /\ CoreSame /\ UNCHANGED <<row, contacts, live, told>>

\* A drain tries again what may be repeated, while there is budget.
AfterFailure(a, repeatable) ==
    IF a \in Drains /\ repeatable /\ work[a].copy.attempts < MaxAttempts
    THEN Go(a, "repend")
    ELSE Leave(a)

\* failEvent.
FailEvent(a, d) ==
    /\ work[a].step \in {"fail", "refuse"} /\ Works(a, d)
    /\ SaveOrLose(d, work[a].copy, "failed")
    /\ AfterFailure(a, At(a, "fail"))
    /\ CoreSame /\ UNCHANGED <<contacts, live, told>>

\* FinishEvent with the record, and the answer to a client. When it fails nothing is
\* saved and the error goes to the caller.
Finish(a, d) ==
    /\ At(a, "finish") /\ Works(a, d)
    /\ \/ /\ NoFault
          /\ Save(d, [work[a].copy EXCEPT !.record = TRUE], "processed")
          /\ told' = IF a \in Clients THEN told \cup {d} ELSE told
          /\ Leave(a)
       \/ /\ Fault
          /\ AfterFailure(a, TRUE)
          /\ UNCHANGED <<row, told>>
    /\ CoreSame /\ UNCHANGED <<contacts, live>>

-----------------------------------------------------------------------------
(***************************************************************************)
(* The capture API.                                                         *)
(***************************************************************************)

\* A row as a request or an import inserts it: never claimable.
Inserted(stamped) ==
    [NoRow EXCEPT !.status = "processing", !.attempts = 1, !.claimed = stamped, !.source = TRUE]
\* Insert the row and go on to the core, or look at the one that is there.
InsertOrLook(a, d, new) ==
    \/ /\ row[d].status = "absent"
       /\ row' = [row EXCEPT ![d] = new]
       /\ Take(a, d, new)
    \/ /\ row[d].status # "absent"
       /\ work' = [work EXCEPT ![a] = [Idle EXCEPT !.step = "look", !.on = {d}]]
       /\ UNCHANGED row
From(d, who) ==
    origin' = IF row[d].status = "absent" THEN [origin EXCEPT ![d] = who] ELSE origin
\* The row is run again in place: the ledger says failed until the core saves it.
Rerun(a, d) == Take(a, d, [row[d] EXCEPT !.status = "processing", !.attempts = @ + 1])
Rerunnable(d) == row[d].status \in {"failed", "quarantined"}

\* Ingest: a client sends a key, for the first time or again.
Request(c, d) ==
    /\ requests < MaxRequests /\ requests' = requests + 1
    /\ At(c, "idle")
    /\ InsertOrLook(c, d, Inserted(FALSE))
    /\ From(d, "client")
    /\ UNCHANGED <<contacts, open, hand, todo, asked, live, told, retryVars,
                   faults, deaths, imports, toggles>>

\* Mutant: whatever has a row is answered as a success.
ReplayAnyRow(c, d) ==
    /\ At(c, "look") /\ Works(c, d)
    /\ told' = told \cup {d}
    /\ Leave(c)
    /\ CoreSame /\ NoFault /\ UNCHANGED <<row, contacts, live>>

\* The replay switch: a success is answered again, a failure run again; the rest
\* is told to come back (409).
Replay(c, d) ==
    /\ At(c, "look") /\ Works(c, d)
    /\ \/ /\ row[d].status = "processed" /\ row[d].record
          /\ told' = told \cup {d}
          /\ Leave(c)
       \/ /\ Rerunnable(d)
          /\ Rerun(c, d)
          /\ UNCHANGED told
       \/ /\ ~Rerunnable(d) /\ ~(row[d].status = "processed" /\ row[d].record)
          /\ Leave(c)
          /\ UNCHANGED told
    /\ CoreSame /\ NoFault /\ UNCHANGED <<row, contacts, live>>

-----------------------------------------------------------------------------
(***************************************************************************)
(* The imports: the backfill of a form and the reconciliation poller.       *)
(***************************************************************************)

\* Backfill and reconcileForm look whether the form is live once, at the start.
StartImport(i) ==
    /\ imports < MaxImports /\ imports' = imports + 1
    /\ At(i, "idle") /\ todo[i] = {}
    /\ open
    /\ todo' = [todo EXCEPT ![i] = Leads]
    /\ UNCHANGED <<ledgerVars, work, hand, asked, historyVars, faults, deaths, requests, toggles>>

\* walkFormLeads, importBackfillLead.
Import(i, d) ==
    /\ At(i, "idle") /\ d \in todo[i]
    /\ todo' = [todo EXCEPT ![i] = @ \ {d}]
    /\ InsertOrLook(i, d, Inserted(TRUE))
    /\ From(d, "import")
    /\ UNCHANGED <<contacts, open, hand, asked, live, told, retryVars, boundVars>>

\* FindEventByProviderID asks for the source: a row the webhook inserted has none
\* until it is written. What has a record or is under way is left alone.
LookAtPrior(i, d) ==
    /\ At(i, "look") /\ Works(i, d)
    /\ IF row[d].source /\ ~row[d].record /\ Rerunnable(d)
       THEN Rerun(i, d)
       ELSE Leave(i)
    /\ CoreSame /\ NoFault /\ UNCHANGED <<row, contacts, live, told>>

\* Caught up, out of pages or time, cancelled, or refused by the provider.
EndImport(i) ==
    /\ At(i, "idle") /\ todo[i] # {}
    /\ todo' = [todo EXCEPT ![i] = {}]
    /\ UNCHANGED <<ledgerVars, work, hand, asked, historyVars, boundVars>>

-----------------------------------------------------------------------------
(***************************************************************************)
(* The reaper, the admin, and deaths.                                       *)
(***************************************************************************)

\* Mutant: only what carries claimed_at is looked for.
StrandedClaimed(d) ==
    /\ row[d].status = "processing" /\ ~row[d].record /\ row[d].claimed
    /\ \A a \in Clients \cup Importers : ~Works(a, d)

\* A drain holds a whole batch from its claim on and may be slower than reapGrace; a
\* request and an import are bounded by their ledger deadline and never are.
Stranded(d) ==
    /\ row[d].status = "processing" /\ ~row[d].record
    /\ \A a \in Clients \cup Importers : ~Works(a, d)

\* Mutant: a strand goes back to the queue whoever inserted it.
ReclaimableAnySource(d) == row[d].claimed /\ row[d].attempts < MaxAttempts
Reclaimable(d) == row[d].claimed /\ ~row[d].source /\ row[d].attempts < MaxAttempts

\* ReapStrandedEvents, its four statements.
Reap(d) ==
    /\ Stranded(d)
    /\ IF Reclaimable(d)
       THEN PutBack(d)
       ELSE row' = [row EXCEPT ![d].status = "failed"]
    /\ overtaken' = IF \E w \in Drains : d \in Held(w) \/ Works(w, d) THEN overtaken \cup ({d} \cap Leads)
                                                                      ELSE overtaken
    /\ UNCHANGED <<contacts, open, actorVars, origin, live, told, claims, requeued, boundVars>>

\* RetryEvent reads the row, classifies it and looks at the form ...
Ask(d) ==
    /\ requeued[d] < MaxRetries /\ d \notin asked
    /\ Rerunnable(d) /\ ~row[d].record /\ ~row[d].source
    /\ open
    /\ asked' = asked \cup {d}
    /\ UNCHANGED <<ledgerVars, work, hand, todo, historyVars, boundVars>>

\* ... and RequeueEventForRetry updates it if it may still be retried.
Requeue(d) ==
    /\ d \in asked
    /\ asked' = asked \ {d}
    /\ IF Rerunnable(d) /\ ~row[d].record
       THEN PutBack(d) /\ requeued' = [requeued EXCEPT ![d] = @ + 1]
       ELSE UNCHANGED <<row, requeued>>
    /\ UNCHANGED <<contacts, open, work, hand, todo, origin, live, told, claims, overtaken, boundVars>>

\* The form is enabled, or its source disabled.
Toggle ==
    /\ toggles < MaxToggles /\ toggles' = toggles + 1
    /\ open' = ~open
    /\ UNCHANGED <<row, contacts, actorVars, historyVars, faults, deaths, requests, imports>>

\* Whatever an actor had in hand is gone with its process.
Die(a) ==
    /\ deaths < MaxDeaths /\ deaths' = deaths + 1
    /\ Leave(a)
    /\ hand' = [w \in Drains |-> IF w = a THEN NoCopies ELSE hand[w]]
    /\ todo' = [i \in Importers |-> IF i = a THEN {} ELSE todo[i]]
    /\ UNCHANGED <<ledgerVars, asked, historyVars, faults, requests, imports, toggles>>

-----------------------------------------------------------------------------
OfBatch(w, d) == FetchFails(w, d) \/ FetchRefused(w, d) \/ Quarantine(w, d) \/ Fetched(w, d)
Core(a, d) == Match(a, d) \/ Write(a, d) \/ WriteFails(a, d) \/ FailEvent(a, d) \/ Finish(a, d)
DrainStep(w) ==
    \/ \E S \in SUBSET Pending : Claim(w, S)
    \/ \E d \in Deliveries : OfBatch(w, d) \/ Core(w, d) \/ Repend(w, d)
ClientStep(c) == \E d \in Keys : Replay(c, d) \/ Core(c, d)
ImportStep(i) == \E d \in Leads : Import(i, d) \/ LookAtPrior(i, d) \/ Core(i, d)
ReapStep == \E d \in Deliveries : Reap(d)

Next ==
    \/ \E d \in Leads : Receive(d) \/ Ask(d) \/ Requeue(d)
    \/ \E w \in Drains : DrainStep(w)
    \/ \E c \in Clients : ClientStep(c) \/ \E d \in Keys : Request(c, d)
    \/ \E i \in Importers : ImportStep(i) \/ StartImport(i) \/ EndImport(i)
    \/ ReapStep
    \/ Toggle
    \/ \E a \in Actors : Die(a)

Spec == Init /\ [][Next]_vars

\* Drains, requests, imports and the reaper go on. Nobody has to send anything.
FairSpec ==
    /\ Spec
    /\ \A w \in Drains : WF_vars(DrainStep(w))
    /\ \A c \in Clients : WF_vars(ClientStep(c))
    /\ \A i \in Importers : WF_vars(ImportStep(i))
    /\ WF_vars(ReapStep)

-----------------------------------------------------------------------------
\* A success that a client was told, or that the ledger shows, has its contact.
AnsweredIsWritten ==
    \A d \in Deliveries : d \in told \/ row[d].record => contacts[Who[d]] > 0

\* A lead that an import brought in is never written with automation running.
ImportsStayQuiet == \A d \in Leads : origin[d] = "import" => d \notin live

\* A delivery is claimed no more often than its budget and the retries allow, unless
\* a slow drain was overtaken and put an old count back.
PoisonEnds == \A d \in Leads \ overtaken : claims[d] <= MaxAttempts + requeued[d]

\* What is queued or under way is settled: a dead worker's claim goes back to the
\* queue. Excepted is a row that has its record: the reaper takes no such row, so
\* one that a late write left unsettled with its record stays as it is.
Unsettled(d) == row[d].status \in {"pending", "processing"}
DeliverySettles == \A d \in Deliveries : Unsettled(d) ~> ~Unsettled(d) \/ row[d].record

\* The ledger does not forget the record a delivery made.
RecordKept == [][\A d \in Deliveries : row[d].record => row'[d].record]_vars

\* An import passes over a lead only if it was written or is under way.
PassesOver(i, d) == At(i, "look") /\ Works(i, d) /\ work'[i].step = "idle" /\ UNCHANGED deaths
ImportMissesNothing ==
    [][\A i \in Importers, d \in Leads : PassesOver(i, d) => row[d].record \/ Unsettled(d)]_vars

=============================================================================
