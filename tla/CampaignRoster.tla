--------------------------- MODULE CampaignRoster ---------------------------
(***************************************************************************)
(* The tables marketing_campaigns and marketing_campaign_recipients and the *)
(* statements of campaign_repository.go and ab_repository.go on them, for   *)
(* one campaign. Each operator below is one SQL statement (or one           *)
(* transaction) and is atomic; who issues it, and what happens in between,  *)
(* is in CampaignSender and CampaignLaunch.                                 *)
(*                                                                          *)
(* A row's surrogate id is the pair of its address and of the roster build  *)
(* that inserted it. Backoffs and batch limits are abstracted: a claim takes*)
(* any few of the rows it may take. attempts saturates at MaxAttempts, the  *)
(* only value it is compared with. 'scheduled' is left out: no code sets it.*)
(***************************************************************************)
EXTENDS Naturals, FiniteSets

CONSTANTS
    Addresses,      \* email addresses
    MaxAttempts,    \* campaignMaxAttempts
    MaxLaunches,    \* bound: Launch requests
    MaxPreviews     \* bound: Snapshot requests

ASSUME AttemptsAssumption == MaxAttempts \in Nat \ {0}
ASSUME RequestsAssumption == MaxLaunches \in Nat /\ MaxPreviews \in Nat

CampaignStatuses == {"draft", "snapshotting", "sending", "paused", "sent", "canceled"}
RecipientStatuses == {"absent", "pending", "processing", "sent", "failed", "suppressed"}
Variants == {"A", "B"}
NoVariant == "none"

Row == [build : Nat, status : RecipientStatuses, attempts : 0..MaxAttempts,
        variant : Variants \cup {NoVariant},
        held : BOOLEAN,                         \* scheduled_for is far in the future
        stamp : {"never", "recent", "old"},     \* dispatched_at: NULL, below or above 24h
        late : BOOLEAN]                         \* locked_at is older than campaignReapGrace

Campaign == [status : CampaignStatuses, deleted : BOOLEAN,
             audience : SUBSET Addresses,       \* what segment_ids select
             test : BOOLEAN,                    \* ab_test_pct > 0, with a subject B
             winner : Variants \cup {NoVariant}]

VARIABLES
    campaign,       \* the campaign's row
    roster,         \* [Addresses -> Row]: its recipients, "absent" where there is none
    builds          \* roster builds so far

rosterVars == <<campaign, roster, builds>>

NewRow(n, s) == [build |-> n, status |-> s, attempts |-> 0, variant |-> NoVariant,
                 held |-> FALSE, stamp |-> "never", late |-> FALSE]
FreshRow(n) == NewRow(n, "pending")
NoRow == NewRow(0, "absent")

RosterInit ==
    /\ campaign \in [status : {"draft"}, deleted : {FALSE}, audience : {Addresses},
                     test : BOOLEAN, winner : {NoVariant}]
    /\ roster = [a \in Addresses |-> NoRow]
    /\ builds = 0

Rows(s) == {a \in Addresses : roster[a].status = s}

-----------------------------------------------------------------------------
\* marketing_campaigns

\* A status flip is one UPDATE guarded by the states it may leave; it reports
\* whether it found the row there.
CanSet(from) == campaign.status \in from /\ ~campaign.deleted
SetStatus(to, from) ==
    campaign' = IF CanSet(from) THEN [campaign EXCEPT !.status = to] ELSE campaign

CanBegin == CanSet({"draft"})
BeginLaunch == SetStatus("snapshotting", {"draft"})
FinishLaunch == SetStatus("sending", {"snapshotting"})
RevertLaunch == SetStatus("draft", {"snapshotting"})

\* Mutants: a paused campaign finished as well; rows in flight forgotten.
MarkDrainedPaused ==
    /\ campaign.status \in {"sending", "paused"}
    /\ Rows("pending") \cup Rows("processing") = {}
    /\ campaign' = [campaign EXCEPT !.status = "sent"]
MarkDrainedPendingOnly ==
    /\ campaign.status = "sending"
    /\ Rows("pending") = {}
    /\ campaign' = [campaign EXCEPT !.status = "sent"]

\* MarkDrainedCampaignsSent does not look at deleted_at.
MarkDrained ==
    /\ campaign.status = "sending"
    /\ Rows("pending") \cup Rows("processing") = {}
    /\ campaign' = [campaign EXCEPT !.status = "sent"]

UpdateCampaign(audience, test) ==
    /\ campaign.status = "draft"
    /\ ~campaign.deleted
    /\ campaign' = [campaign EXCEPT !.audience = audience, !.test = test]

SoftDelete ==
    /\ ~campaign.deleted
    /\ campaign' = [campaign EXCEPT !.deleted = TRUE]

-----------------------------------------------------------------------------
\* marketing_campaign_recipients

ClearRoster == roster' = [a \in Addresses |-> NoRow]

\* INSERT ... SELECT ... ON CONFLICT DO NOTHING.
SnapshotRoster(audience) ==
    /\ builds' = builds + 1
    /\ roster' = [a \in Addresses |->
                    IF a \in audience /\ roster[a].status = "absent"
                    THEN FreshRow(builds + 1) ELSE roster[a]]

\* AssignABTestCells is two statements, without a transaction: alternating test
\* cells over a random part of the pending rows, B first; then the rest is held.
Unassigned == {a \in Rows("pending") : roster[a].variant = NoVariant}
Alternating(cells, b) ==
    Cardinality(b) - Cardinality(cells \ b) \in {0, 1}
AssignABTestCells ==
    \E cells \in SUBSET Unassigned : \E b \in SUBSET cells :
        /\ Unassigned # {} => cells # {}
        /\ Alternating(cells, b)
        /\ roster' = [a \in Addresses |->
                        IF a \in cells
                        THEN [roster[a] EXCEPT !.variant = IF a \in b THEN "B" ELSE "A"]
                        ELSE roster[a]]
HoldRemainder ==
    roster' = [a \in Addresses |->
                 IF a \in Unassigned THEN [roster[a] EXCEPT !.held = TRUE] ELSE roster[a]]

\* Mutants: scheduled_for forgotten; a campaign claimable while it is launched.
ClaimableHeld ==
    IF campaign.status = "sending" /\ ~campaign.deleted THEN Rows("pending") ELSE {}
ClaimableEarly ==
    IF campaign.status \in {"snapshotting", "sending"} /\ ~campaign.deleted
    THEN {a \in Rows("pending") : ~roster[a].held}
    ELSE {}

Claimable ==
    IF campaign.status = "sending" /\ ~campaign.deleted
    THEN {a \in Rows("pending") : ~roster[a].held}
    ELSE {}
Another(n) == IF n < MaxAttempts THEN n + 1 ELSE n
ClaimSendableRecipients(chosen) ==
    /\ chosen \subseteq Claimable
    /\ roster' = [a \in Addresses |->
                    IF a \in chosen
                    THEN [roster[a] EXCEPT !.status = "processing", !.late = FALSE,
                                           !.attempts = Another(@)]
                    ELSE roster[a]]

\* The writes that settle or return one row find it by its id alone.
Holds(r) == roster[r.to].status # "absent" /\ roster[r.to].build = r.build
SetRecipient(r, s) ==
    roster' = [roster EXCEPT ![r.to] = IF Holds(r) THEN [@ EXCEPT !.status = s, !.late = FALSE]
                                      ELSE @]
MarkRecipientSent(r) == SetRecipient(r, "sent")
MarkRecipientFailed(r) == SetRecipient(r, "failed")
MarkRecipientSuppressed(r) == SetRecipient(r, "suppressed")
RependRecipient(r) == SetRecipient(r, "pending")
MarkRecipientDispatched(r) ==
    roster' = [roster EXCEPT ![r.to] =
                 IF Holds(r) /\ @.stamp = "never" THEN [@ EXCEPT !.stamp = "recent"] ELSE @]

\* Mutants: no cutoff at 24 hours; settled rows with an old lock reaped; spent
\* rows left in processing.
ReapedStatusAnyAge(x) == IF x.attempts >= MaxAttempts THEN "failed" ELSE "pending"
StrandedAnyStatus == {a \in Rows("processing") : roster[a].late} \cup Rows("sent")
StrandedUnspent ==
    {a \in Rows("processing") : roster[a].late /\ roster[a].attempts < MaxAttempts}

\* A row stranded in processing is failed when its attempts are spent or when
\* the provider may have forgotten its key, and returned otherwise.
ReapedStatus(x) ==
    IF x.attempts >= MaxAttempts \/ x.stamp = "old" THEN "failed" ELSE "pending"
Stranded == {a \in Rows("processing") : roster[a].late}
ReapStrandedRecipients ==
    /\ Stranded # {}
    /\ roster' = [a \in Addresses |->
                    IF a \in Stranded
                    THEN [roster[a] EXCEPT !.status = ReapedStatus(roster[a]), !.late = FALSE]
                    ELSE roster[a]]

PruneCompletedRoster ==
    /\ campaign.status \in {"sent", "canceled"}
    /\ ClearRoster

\* Marks the winner and releases the held rows to it in one transaction, unless
\* another decider was first or the campaign is not sending any more.
CanDecide == campaign.winner = NoVariant /\ campaign.status = "sending"
\* Mutants: the mark not guarded by an empty winner; every pending row stamped.
DecideUnguarded(winner) ==
    /\ campaign' = [campaign EXCEPT !.winner = winner]
    /\ roster' = [a \in Addresses |->
                    IF a \in Unassigned
                    THEN [roster[a] EXCEPT !.variant = winner, !.held = FALSE]
                    ELSE roster[a]]
DecideRestampsAll(winner) ==
    /\ campaign' = IF CanDecide THEN [campaign EXCEPT !.winner = winner] ELSE campaign
    /\ roster' = [a \in Addresses |->
                    IF CanDecide /\ a \in Rows("pending")
                    THEN [roster[a] EXCEPT !.variant = winner, !.held = FALSE]
                    ELSE roster[a]]

DecideABWinner(winner) ==
    /\ campaign' = IF CanDecide THEN [campaign EXCEPT !.winner = winner] ELSE campaign
    /\ roster' = [a \in Addresses |->
                    IF CanDecide /\ a \in Unassigned
                    THEN [roster[a] EXCEPT !.variant = winner, !.held = FALSE]
                    ELSE roster[a]]

=============================================================================
