---------------------------- MODULE CampaignLane ----------------------------
(***************************************************************************)
(* The campaign lane as a whole: the API of CampaignLaunch and the workers  *)
(* of CampaignSender on the tables of CampaignRoster.                       *)
(***************************************************************************)
EXTENDS CampaignSender, CampaignLaunch

vars == <<rosterVars, senderVars, launchVars>>

Init == RosterInit /\ SenderInit /\ LaunchInit

Next ==
    \/ SenderNext /\ UNCHANGED launchVars
    \/ LaunchNext /\ UNCHANGED senderVars

Spec == Init /\ [][Next]_vars

\* Every process is restarted, its loops tick, requests end, rate limits and
\* leases pass, A/B windows elapse. Nobody has to launch, pause or resume.
Fairness ==
    /\ \A s \in Senders : WF_vars(WorkerStep(s) /\ UNCHANGED launchVars)
    /\ WF_vars(Reap /\ UNCHANGED launchVars)
    /\ \A a \in Addresses : WF_vars(LeaseExpires(a) /\ UNCHANGED launchVars)
    /\ \A s \in Senders : WF_vars(ListUndecided(s) /\ UNCHANGED launchVars)
    /\ \A s \in Senders : WF_vars(Decide(s) /\ UNCHANGED launchVars)
    /\ \A c \in Requests :
        WF_vars(at[c] # "idle" /\ RequestStep(c) /\ UNCHANGED senderVars)
FairSpec == Spec /\ Fairness

-----------------------------------------------------------------------------
HandlerSteps == {"idle", "launching", "launch: clear", "launch: build", "launch: assign",
                 "launch: hold", "launch: finish", "launch: revert", "preview: clear", "preview: build",
                 "delete: clear"}
WorkerSteps == {"idle", "load", "take", "checked", "dispatched", "answered"}
Views == {"none", "ok", "paused_or_canceled", "transient", "permanent"}
Replies == {"none", "accepted", "retryable", "refused"}

TypeOK ==
    /\ campaign \in Campaign
    /\ roster \in [Addresses -> Row]
    /\ builds \in Nat
    /\ mailable \in SUBSET Addresses
    /\ step \in [Senders -> WorkerSteps]
    /\ batch \in [Senders -> SUBSET Copy]
    /\ view \in [Senders -> Views]
    /\ cur \in [Senders -> Copy \cup {NoCopy}]
    /\ reply \in [Senders -> Replies]
    /\ deciding \in SUBSET Senders
    /\ submitted \in SUBSET Keys
    /\ remembered \in SUBSET Keys
    /\ fading \in SUBSET Keys
    /\ delivered \in [Addresses -> 0..2]
    /\ days \in 0..MaxDays
    /\ errors \in 0..MaxErrors
    /\ lost \in 0..MaxLost
    /\ crashes \in 0..MaxCrashes
    /\ at \in [Requests -> HandlerSteps]
    /\ read \in [Requests -> Campaign]
    /\ edits \in 0..MaxEdits
    /\ pauses \in 0..MaxPauses
    /\ failures \in 0..MaxFailures
    /\ launches \in 0..MaxLaunches
    /\ previews \in 0..MaxPreviews

\* Nobody gets a campaign twice: an address is mailed at most once, through lost
\* answers, worker deaths and reaped rows (campaign_sender.go: "exactly-once across
\* lost-ack retries + worker restarts"). Its limits: nothing previews or edits the
\* roster, no campaign stays paused for a day over a row to be retried, and where a
\* day passes no write is lost. (Run campaign_send has one worker and loses no
\* write; theorem DeliveredOnce takes any number of them. Runs preview_race and
\* long_pause show a preview and a long pause break it.)
NoDoubleDelivery == \A a \in Addresses : delivered[a] <= 1

\* A roster row is never submitted under two idempotency keys, so the provider
\* can always tell a repetition (ab_repository.go, DecideABWinner: "no roster row
\* is ever sent under two variants").
OneKeyPerRow ==
    \A j, k \in submitted : j[1] = k[1] /\ j[2] = k[2] => j[3] = k[3]

\* A row that says sent was delivered: no lost write, late answer or reaped lease
\* reports a mail that never left.
SentWasDelivered == \A a \in Rows("sent") : delivered[a] >= 1

\* A campaign that says sent has nobody left to mail: none of its rows is waiting
\* or in flight (MarkDrainedCampaignsSent), and none becomes so later.
SentMeansDrained ==
    campaign.status = "sent" => Rows("pending") \cup Rows("processing") = {}

\* Nothing is mailed, and no row is even claimed, before the launch is complete.
NothingBeforeLaunch ==
    campaign.status \in {"draft", "snapshotting"} =>
        /\ \A a \in Addresses : delivered[a] = 0
        /\ \A a \in Addresses : roster[a].status \in {"absent", "pending"}

\* Of concurrent launches one builds the roster and starts the send, the others
\* stop before they touch it (BeginLaunch: "Only one concurrent Launch wins").
Launching == {"launch: clear", "launch: build", "launch: assign", "launch: hold",
              "launch: finish", "launch: revert"}
OneLauncher == \A c, d \in Requests : at[c] \in Launching /\ at[d] \in Launching => c = d

\* In an A/B campaign only test cells are mailed until the winner is known, and
\* then nothing stays held: mark and release are one (DecideABWinner).
RemainderHeldUntilDecided ==
    /\ campaign.test /\ campaign.winner = NoVariant =>
            \A key \in submitted : key[3] # NoVariant
    /\ campaign.winner # NoVariant => \A a \in Rows("pending") : ~roster[a].held

\* An address that has opted out, and that no worker has checked before, is never
\* mailed, now or later: the row may still be claimed, copied and retried.
InHand(a) == \E s \in Senders : step[s] \in {"checked", "dispatched"} /\ cur[s].to = a
OptOutHonored ==
    [][\A a \in Addresses : a \notin mailable /\ ~InHand(a) =>
           a \notin mailable' /\ ~InHand(a)' /\ delivered'[a] = delivered[a]]_vars

\* A sent row stays sent: nothing makes it claimable again. Only the roster as a
\* whole may go, with a finished or deleted campaign.
SentStaysSent ==
    [][\A a \in Addresses : roster[a].status = "sent" => roster'[a].status \in {"sent", "absent"}]_vars

\* The winner of an A/B test never changes, whichever tick decides first.
WinnerIsFinal == [][campaign.winner # NoVariant => campaign'.winner = campaign.winner]_vars

\* A campaign that is sending comes to an end, or is paused or stopped.
SendingEnds == (campaign.status = "sending" /\ ~campaign.deleted) ~>
                    (campaign.status # "sending" \/ campaign.deleted)

\* snapshotting is "the brief, exclusive launch-in-progress state"
\* (domain/campaign.go): a launch leaves it.
LaunchEnds == (campaign.status = "snapshotting") ~>
                    (campaign.status # "snapshotting" \/ campaign.deleted)

-----------------------------------------------------------------------------
\* The campaign as its audience sees it: who is on the roster, due or held back,
\* whom a worker has claimed and not yet settled, and whom it is about to mail.
Due == {a \in Addresses : roster[a].status # "absent" /\ ~roster[a].held}
HeldBack == {a \in Addresses : roster[a].status # "absent" /\ roster[a].held}
Claimed == {a \in Addresses : \E s \in Senders :
                \/ \E r \in batch[s] : r.to = a
                \/ step[s] \in {"checked", "dispatched", "answered"} /\ cur[s].to = a}

Abstract == INSTANCE Mailing WITH
    state <- campaign.status, winner <- campaign.winner, Undecided <- NoVariant,
    due <- Due, held <- HeldBack, claimed <- Claimed,
    checked <- {a \in Addresses : InHand(a)}, allowed <- mailable, times <- delivered

\* Whatever workers, handlers, the reaper, the pruner and the provider do, in any
\* order, is a step of a mailing, or no step of it at all.
ImplementsMailing == Abstract!Spec

=============================================================================
