--------------------------- MODULE CampaignSender ---------------------------
(***************************************************************************)
(* The send lane: the worker of campaign_sender.go in each server process,  *)
(* the reaper, and the provider it mails through.                           *)
(*                                                                          *)
(* A worker claims rows, reads the campaign once for the batch, and takes   *)
(* the rows one by one: live suppression check, provider throttle, dispatch *)
(* stamp, submission, and the write of the outcome. Between any two of these*)
(* other workers, the reaper and the API may act, and the process may die.  *)
(*                                                                          *)
(* The provider is external: it delivers a message and remembers its        *)
(* idempotency key for a day, in which it answers the same key without      *)
(* delivering again.                                                        *)
(***************************************************************************)
EXTENDS CampaignRoster

CONSTANTS
    Senders,        \* server processes
    Batch,          \* campaignClaimBatch
    MaxCrashes,     \* bound: crashes of a process
    MaxErrors,      \* bound: failed reads, submissions that end in an error
    MaxLost,        \* bound: writes of an outcome that fail
    MaxDays,        \* bound: days that pass
    LongPauses,     \* may a campaign stay paused for a day?
    MayOptOut       \* bound: addresses whose owner may unsubscribe

ASSUME BatchAssumption == Batch \in Nat \ {0}
ASSUME SenderBounds ==
    /\ MaxCrashes \in Nat
    /\ MaxErrors \in Nat
    /\ MaxLost \in Nat
    /\ MaxDays \in Nat
ASSUME SwitchAssumption == LongPauses \in BOOLEAN /\ MayOptOut \subseteq Addresses

\* What a worker holds of a row: the columns RETURNING gave it.
Copy == [to : Addresses, build : Nat, attempts : 0..MaxAttempts,
         variant : Variants \cup {NoVariant}]
NoCopy == [to |-> "nobody", build |-> 0, attempts |-> 0, variant |-> NoVariant]
Keys == Addresses \X Nat \X (Variants \cup {NoVariant})
KeyOf(r) == <<r.to, r.build, r.variant>>

VARIABLES
    mailable,       \* addresses with a lawful basis and no suppression
    step,           \* [Senders -> where the worker is]
    batch,          \* [Senders -> SUBSET Copy]: claimed and still to be taken
    view,           \* [Senders -> outcome of loadCampaignContext for the batch]
    cur,            \* [Senders -> Copy]: the row in hand
    reply,          \* [Senders -> the provider's answer to it]
    deciding,       \* processes whose A/B decider has this campaign on its list
    submitted,      \* keys ever submitted
    remembered,     \* keys the provider still answers from memory
    fading,         \* remembered for a day already
    delivered,      \* [Addresses -> messages delivered; 2 stands for more]
    days, errors, lost, crashes

workerVars == <<step, batch, view, cur, reply, deciding>>
providerVars == <<submitted, remembered, fading, delivered>>
faultVars == <<days, errors, lost, crashes>>
senderVars == <<mailable, workerVars, providerVars, faultVars>>

SenderInit ==
    /\ mailable = Addresses
    /\ step = [s \in Senders |-> "idle"]
    /\ batch = [s \in Senders |-> {}]
    /\ view = [s \in Senders |-> "none"]
    /\ cur = [s \in Senders |-> NoCopy]
    /\ reply = [s \in Senders |-> "none"]
    /\ deciding = {}
    /\ submitted = {}
    /\ remembered = {}
    /\ fading = {}
    /\ delivered = [a \in Addresses |-> 0]
    /\ days = 0 /\ errors = 0 /\ lost = 0 /\ crashes = 0

Error == errors < MaxErrors /\ errors' = errors + 1
NoError == UNCHANGED errors

\* The errors of the writes that settle or return a row are dropped.
Written(write) ==
    \/ write /\ UNCHANGED lost
    \/ lost < MaxLost /\ lost' = lost + 1 /\ UNCHANGED roster

Settle(s, write) ==
    /\ Written(write)
    /\ UNCHANGED <<campaign, builds, mailable, deciding, providerVars, days, crashes>>

-----------------------------------------------------------------------------
\* The worker

CopyOf(a) == [to |-> a, build |-> roster[a].build, variant |-> roster[a].variant,
              attempts |-> Another(roster[a].attempts)]

Claim(s) ==
    /\ step[s] = "idle"
    /\ \E chosen \in SUBSET Claimable :
        /\ chosen # {}
        /\ Cardinality(chosen) <= Batch
        /\ ClaimSendableRecipients(chosen)
        /\ batch' = [batch EXCEPT ![s] = {CopyOf(a) : a \in chosen}]
    /\ step' = [step EXCEPT ![s] = "load"]
    /\ UNCHANGED <<campaign, builds, mailable, view, cur, reply, deciding, providerVars, faultVars>>

\* Every drain ends by finalizing the campaigns it finds drained.
Finalize(s) ==
    /\ step[s] = "idle"
    /\ MarkDrained
    /\ UNCHANGED <<roster, builds, senderVars>>

\* GetCampaignByID does not see a deleted campaign. "permanent" stands for
\* every other reason not to send that no retry cures.
LoadCampaignContext(s) ==
    /\ step[s] = "load"
    /\ step' = [step EXCEPT ![s] = "take"]
    /\ \/ /\ campaign.deleted
          /\ view' = [view EXCEPT ![s] = "permanent"]
          /\ NoError
       \/ /\ ~campaign.deleted
          /\ view' = [view EXCEPT ![s] =
                        IF campaign.status = "sending" THEN "ok" ELSE "paused_or_canceled"]
          /\ NoError
       \/ /\ \E reason \in {"transient", "permanent"} : view' = [view EXCEPT ![s] = reason]
          /\ Error
    /\ UNCHANGED <<rosterVars, mailable, batch, cur, reply, deciding, providerVars, days, lost, crashes>>

\* The batch is done: the worker drops what it knew of the campaign.
EndBatch(s) ==
    /\ step[s] = "take"
    /\ batch[s] = {}
    /\ step' = [step EXCEPT ![s] = "idle"]
    /\ view' = [view EXCEPT ![s] = "none"]
    /\ UNCHANGED <<rosterVars, mailable, batch, cur, reply, deciding, providerVars, faultVars>>

\* A campaign that cannot send: its rows go back, or fail.
GiveUp(s) ==
    /\ step[s] = "take"
    /\ view[s] # "ok"
    /\ \E r \in batch[s] :
        /\ batch' = [batch EXCEPT ![s] = @ \ {r}]
        /\ Settle(s, IF \/ view[s] = "paused_or_canceled"
                        \/ view[s] = "transient" /\ r.attempts < MaxAttempts
                     THEN RependRecipient(r) ELSE MarkRecipientFailed(r))
    /\ UNCHANGED <<step, view, cur, reply, errors>>

\* Mutant: the claim is taken for the check.
CheckAtClaim(s) ==
    /\ step[s] = "take"
    /\ view[s] = "ok"
    /\ \E r \in batch[s] :
        /\ batch' = [batch EXCEPT ![s] = @ \ {r}]
        /\ cur' = [cur EXCEPT ![s] = r]
    /\ step' = [step EXCEPT ![s] = "checked"]
    /\ UNCHANGED <<rosterVars, mailable, view, reply, deciding, providerVars, faultVars>>

\* The live check of IsSendable; what it read is not read again.
CheckSendable(s) ==
    /\ step[s] = "take"
    /\ view[s] = "ok"
    /\ \E r \in batch[s] :
        /\ r.to \in mailable
        /\ batch' = [batch EXCEPT ![s] = @ \ {r}]
        /\ cur' = [cur EXCEPT ![s] = r]
    /\ step' = [step EXCEPT ![s] = "checked"]
    /\ UNCHANGED <<rosterVars, mailable, view, reply, deciding, providerVars, faultVars>>

\* Suppressed, or the ledger could not be read: then the row is tried again
\* while it has attempts left, and suppressed when it has none.
Refuse(s) ==
    /\ step[s] = "take"
    /\ view[s] = "ok"
    /\ \E r \in batch[s] :
        /\ batch' = [batch EXCEPT ![s] = @ \ {r}]
        /\ \/ r.to \notin mailable /\ NoError /\ Settle(s, MarkRecipientSuppressed(r))
           \/ /\ Error
              /\ Settle(s, IF r.attempts < MaxAttempts
                           THEN RependRecipient(r) ELSE MarkRecipientSuppressed(r))
    /\ UNCHANGED <<step, view, cur, reply>>

\* Between the check and the stamp the worker waits for the provider's rate
\* limit, as long as it takes.
Dispatch(s) ==
    /\ step[s] = "checked"
    /\ Settle(s, MarkRecipientDispatched(cur[s]))
    /\ step' = [step EXCEPT ![s] = "dispatched"]
    /\ UNCHANGED <<batch, view, cur, reply, errors>>

MintFails(s) ==
    /\ step[s] = "checked"
    /\ Error
    /\ Settle(s, MarkRecipientFailed(cur[s]))
    /\ step' = [step EXCEPT ![s] = "take"]
    /\ cur' = [cur EXCEPT ![s] = NoCopy]
    /\ UNCHANGED <<batch, view, reply>>

\* The provider delivers a key it does not remember.
Deliver(r) ==
    /\ remembered' = remembered \cup {KeyOf(r)}
    /\ delivered' = IF KeyOf(r) \in remembered THEN delivered
                    ELSE [delivered EXCEPT ![r.to] = IF @ = 0 THEN 1 ELSE 2]

\* The request is answered; or it is delivered and the answer is lost; or it
\* is not delivered: 5xx, 429 and network errors may be retried, 4xx may not.
SendMarketingEmail(s) ==
    /\ step[s] = "dispatched"
    /\ step' = [step EXCEPT ![s] = "answered"]
    /\ submitted' = submitted \cup {KeyOf(cur[s])}
    /\ \/ /\ Deliver(cur[s])
          /\ \/ reply' = [reply EXCEPT ![s] = "accepted"] /\ NoError
             \/ reply' = [reply EXCEPT ![s] = "retryable"] /\ Error
       \/ /\ \E e \in {"retryable", "refused"} : reply' = [reply EXCEPT ![s] = e]
          /\ Error
          /\ UNCHANGED <<remembered, delivered>>
    /\ UNCHANGED <<rosterVars, mailable, batch, view, cur, deciding, fading, days, lost, crashes>>

\* Mutant: an answer that was lost is taken for a success.
OutcomeOptimistic(s, r) ==
    IF reply[s] \in {"accepted", "retryable"} THEN MarkRecipientSent(r)
    ELSE MarkRecipientFailed(r)

\* MarkRecipientSent, or handleSendError.
Outcome(s, r) ==
    IF reply[s] = "accepted" THEN MarkRecipientSent(r)
    ELSE IF reply[s] = "retryable" /\ r.attempts < MaxAttempts THEN RependRecipient(r)
    ELSE MarkRecipientFailed(r)

RecordOutcome(s) ==
    /\ step[s] = "answered"
    /\ Settle(s, Outcome(s, cur[s]))
    /\ step' = [step EXCEPT ![s] = "take"]
    /\ cur' = [cur EXCEPT ![s] = NoCopy]
    /\ reply' = [reply EXCEPT ![s] = "none"]
    /\ UNCHANGED <<batch, view, errors>>

WorkerStep(s) ==
    \/ Claim(s) \/ Finalize(s) \/ LoadCampaignContext(s) \/ EndBatch(s) \/ GiveUp(s)
    \/ CheckSendable(s) \/ Refuse(s) \/ Dispatch(s) \/ MintFails(s)
    \/ SendMarketingEmail(s) \/ RecordOutcome(s)

\* The process dies and its rows stay in processing; the next one starts idle.
SenderCrash(s) ==
    /\ step[s] # "idle" \/ s \in deciding
    /\ crashes < MaxCrashes
    /\ crashes' = crashes + 1
    /\ step' = [step EXCEPT ![s] = "idle"]
    /\ batch' = [batch EXCEPT ![s] = {}]
    /\ view' = [view EXCEPT ![s] = "none"]
    /\ cur' = [cur EXCEPT ![s] = NoCopy]
    /\ reply' = [reply EXCEPT ![s] = "none"]
    /\ deciding' = deciding \ {s}
    /\ UNCHANGED <<rosterVars, mailable, providerVars, days, errors, lost>>

-----------------------------------------------------------------------------
\* The A/B decider of a process lists the campaigns whose test window is over,
\* reads their metrics, which may favour either variant, and decides.

ListUndecided(s) ==
    /\ s \notin deciding
    /\ ~campaign.deleted
    /\ campaign.status = "sending"
    /\ campaign.test
    /\ campaign.winner = NoVariant
    /\ deciding' = deciding \cup {s}
    /\ UNCHANGED <<rosterVars, mailable, step, batch, view, cur, reply, providerVars, faultVars>>

Decide(s) ==
    /\ s \in deciding
    /\ deciding' = deciding \ {s}
    /\ \E winner \in Variants : DecideABWinner(winner)
    /\ UNCHANGED <<builds, mailable, step, batch, view, cur, reply, providerVars, faultVars>>

-----------------------------------------------------------------------------
\* The reaper, the pruner, and time

Reap ==
    /\ ReapStrandedRecipients
    /\ UNCHANGED <<campaign, builds, senderVars>>

\* campaignRosterRetention after the campaign finished.
Prune ==
    /\ roster # [a \in Addresses |-> NoRow]
    /\ PruneCompletedRoster
    /\ UNCHANGED <<campaign, builds, senderVars>>

\* campaignReapGrace passes: for a dead worker's row, or for a slow one's.
LeaseExpires(a) ==
    /\ roster[a].status = "processing"
    /\ ~roster[a].late
    /\ roster' = [roster EXCEPT ![a].late = TRUE]
    /\ UNCHANGED <<campaign, builds, senderVars>>

\* A row that was tried is tried again, or reaped, within minutes, unless the
\* campaign stays paused. Without LongPauses a day passes only over rows that died
\* with their worker. (That every process stays down for a day is left out; for the
\* row it is the same as a pause.)
Tried(a) == roster[a].status = "pending" /\ roster[a].stamp # "never"
Quiet == \A s \in Senders : step[s] = "idle"
DayPasses ==
    /\ days < MaxDays
    /\ Quiet
    /\ (\A a \in Addresses : ~Tried(a)) \/ (LongPauses /\ campaign.status = "paused")
    /\ days' = days + 1
    /\ roster' = [a \in Addresses |->
                    [roster[a] EXCEPT !.stamp = IF @ = "recent" THEN "old" ELSE @]]
    /\ fading' = remembered
    /\ UNCHANGED <<campaign, builds, mailable, workerVars, submitted, remembered, delivered,
                   errors, lost, crashes>>

\* The dispatch stamp is older than the acceptance, so by the time a key is
\* forgotten the stamp is old.
ProviderForgets(key) ==
    /\ key \in fading
    /\ remembered' = remembered \ {key}
    /\ fading' = fading \ {key}
    /\ UNCHANGED <<rosterVars, mailable, workerVars, submitted, delivered, faultVars>>

Unsubscribe(a) ==
    /\ a \in MayOptOut \cap mailable
    /\ mailable' = mailable \ {a}
    /\ UNCHANGED <<rosterVars, workerVars, providerVars, faultVars>>

SenderNext ==
    \/ \E s \in Senders : WorkerStep(s) \/ SenderCrash(s) \/ ListUndecided(s) \/ Decide(s)
    \/ Reap \/ Prune
    \/ \E a \in Addresses : LeaseExpires(a) \/ Unsubscribe(a)
    \/ DayPasses
    \/ \E key \in fading : ProviderForgets(key)

=============================================================================
