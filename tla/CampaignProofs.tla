--------------------------- MODULE CampaignProofs ---------------------------
(***************************************************************************)
(* Proofs about CampaignLane, for any number of addresses, processes and    *)
(* request handlers and any bounds: what holds whatever happens. What holds *)
(* of deliveries is in CampaignDeliveryProofs.                              *)
(***************************************************************************)
EXTENDS CampaignLane, TLAPS

-----------------------------------------------------------------------------
(* Type correctness.                                                        *)

\* The rows the statements insert are rows (FreshRow, NoRow).
LEMMA FreshTypes ==
    /\ NoRow \in Row
    /\ \A n \in Nat : FreshRow(n) \in Row
<1>1. \A n \in Nat : \A s \in RecipientStatuses : NewRow(n, s) \in Row
  BY AttemptsAssumption DEF NewRow, Row
<1>2. {"absent", "pending"} \subseteq RecipientStatuses
  BY DEF RecipientStatuses
<1> QED
  BY <1>1, <1>2 DEF NoRow, FreshRow

\* The updates the statements make to a row leave a row.
LEMMA RowUpdates ==
    ASSUME NEW x \in Row
    PROVE  /\ \A s \in RecipientStatuses : [x EXCEPT !.status = s, !.late = FALSE] \in Row
           /\ [x EXCEPT !.status = "processing", !.late = FALSE,
                        !.attempts = Another(x.attempts)] \in Row
           /\ \A v \in Variants : [x EXCEPT !.variant = v] \in Row
           /\ \A v \in Variants : [x EXCEPT !.variant = v, !.held = FALSE] \in Row
           /\ \A b \in BOOLEAN : [x EXCEPT !.held = b] \in Row
           /\ \A d \in {"never", "recent", "old"} : [x EXCEPT !.stamp = d] \in Row
           /\ [x EXCEPT !.late = TRUE] \in Row
<1>1. Another(x.attempts) \in 0..MaxAttempts
  BY AttemptsAssumption DEF Another, Row
<1>2. "processing" \in RecipientStatuses
  BY DEF RecipientStatuses
<1> QED
  BY <1>1, <1>2 DEF Row

\* A statement on the roster leaves a roster.
LEMMA ClearType ==
    ClearRoster => roster' \in [Addresses -> Row]
  BY FreshTypes DEF ClearRoster

\* So does a write to one row (SetRecipient).
LEMMA SetRecipientType ==
    ASSUME roster \in [Addresses -> Row], NEW r, NEW s \in RecipientStatuses,
           SetRecipient(r, s)
    PROVE  roster' \in [Addresses -> Row]
<1>1. CASE r.to \in Addresses
  <2>1. roster[r.to] \in Row
    BY <1>1
  <2>2. [roster[r.to] EXCEPT !.status = s, !.late = FALSE] \in Row
    BY <2>1, RowUpdates
  <2> QED
    BY <1>1, <2>1, <2>2 DEF SetRecipient
<1>2. CASE r.to \notin Addresses
  BY <1>2 DEF SetRecipient
<1> QED
  BY <1>1, <1>2

\* What a worker writes back, lost or not, leaves a roster (Settle).
LEMMA SettleType ==
    ASSUME roster \in [Addresses -> Row], NEW r
    PROVE  /\ MarkRecipientSent(r) => roster' \in [Addresses -> Row]
           /\ MarkRecipientFailed(r) => roster' \in [Addresses -> Row]
           /\ MarkRecipientSuppressed(r) => roster' \in [Addresses -> Row]
           /\ RependRecipient(r) => roster' \in [Addresses -> Row]
<1>1. {"sent", "failed", "suppressed", "pending"} \subseteq RecipientStatuses
  BY DEF RecipientStatuses
<1> QED
  BY <1>1, SetRecipientType DEF MarkRecipientSent, MarkRecipientFailed,
     MarkRecipientSuppressed, RependRecipient

\* Cutting the test cells gives some of the rows a variant and leaves the others.
LEMMA CellRows ==
    ASSUME AssignABTestCells, NEW a \in Addresses
    PROVE  \/ roster'[a] = roster[a]
           \/ /\ a \in Unassigned
              /\ \E v \in Variants : roster'[a] = [roster[a] EXCEPT !.variant = v]
<1>1. PICK cells \in SUBSET Unassigned : \E b \in SUBSET cells :
            roster'[a] = IF a \in cells
                         THEN [roster[a] EXCEPT !.variant = IF a \in b THEN "B" ELSE "A"]
                         ELSE roster[a]
  BY DEF AssignABTestCells
<1> QED
  BY <1>1 DEF Variants

\* The statements that touch many rows leave a roster.
LEMMA BulkTypes ==
    ASSUME roster \in [Addresses -> Row], builds \in Nat
    PROVE  /\ \A m : SnapshotRoster(m) => roster' \in [Addresses -> Row] /\ builds' \in Nat
           /\ AssignABTestCells \/ HoldRemainder => roster' \in [Addresses -> Row]
           /\ \A m : ClaimSendableRecipients(m) => roster' \in [Addresses -> Row]
           /\ ReapStrandedRecipients => roster' \in [Addresses -> Row]
<1>1. ASSUME NEW m, SnapshotRoster(m)
      PROVE  roster' \in [Addresses -> Row] /\ builds' \in Nat
  <2>1. FreshRow(builds + 1) \in Row
    BY FreshTypes
  <2> QED
    BY <1>1, <2>1 DEF SnapshotRoster
<1>2. ASSUME AssignABTestCells \/ HoldRemainder
      PROVE  roster' \in [Addresses -> Row]
  <2>1. ASSUME NEW a \in Addresses
        PROVE  roster'[a] \in Row
    <3>1. roster[a] \in Row
      BY <2>1
    <3>2. CASE AssignABTestCells
      <4>1. roster'[a] = roster[a] \/ \E v \in Variants : roster'[a] = [roster[a] EXCEPT !.variant = v]
        BY <2>1, <3>2, CellRows
      <4>2. \A v \in Variants : [roster[a] EXCEPT !.variant = v] \in Row
        BY <3>1, RowUpdates
      <4> QED
        BY <3>1, <4>1, <4>2
    <3>3. CASE HoldRemainder
      BY <3>1, <3>3, RowUpdates DEF HoldRemainder
    <3> QED
      BY <1>2, <3>2, <3>3
  <2>2. roster' = [a \in Addresses |-> roster'[a]]
    BY <1>2 DEF AssignABTestCells, HoldRemainder
  <2> QED
    BY <2>1, <2>2
<1>3. ASSUME NEW m, ClaimSendableRecipients(m)
      PROVE  roster' \in [Addresses -> Row]
  <2>1. \A a \in Addresses :
            [roster[a] EXCEPT !.status = "processing", !.late = FALSE,
                              !.attempts = Another(roster[a].attempts)] \in Row
    BY RowUpdates
  <2> QED
    BY <1>3, <2>1 DEF ClaimSendableRecipients
<1>4. ASSUME ReapStrandedRecipients
      PROVE  roster' \in [Addresses -> Row]
  <2>1. \A a \in Addresses : ReapedStatus(roster[a]) \in RecipientStatuses
    BY DEF ReapedStatus, RecipientStatuses
  <2>2. \A a \in Addresses :
            [roster[a] EXCEPT !.status = ReapedStatus(roster[a]), !.late = FALSE] \in Row
    BY <2>1, RowUpdates
  <2> QED
    BY <1>4, <2>2 DEF ReapStrandedRecipients
<1> QED
  BY <1>1, <1>2, <1>3, <1>4

\* So do the stamp, the decision, the day and the lease.
LEMMA TimeTypes ==
    ASSUME roster \in [Addresses -> Row], campaign \in Campaign
    PROVE  /\ \A r : MarkRecipientDispatched(r) => roster' \in [Addresses -> Row]
           /\ \A w \in Variants : DecideABWinner(w) =>
                roster' \in [Addresses -> Row] /\ campaign' \in Campaign
           /\ DayPasses => roster' \in [Addresses -> Row]
           /\ \A a \in Addresses : LeaseExpires(a) => roster' \in [Addresses -> Row]
<1>1. ASSUME NEW r, MarkRecipientDispatched(r)
      PROVE  roster' \in [Addresses -> Row]
  <2>1. CASE r.to \in Addresses
    <3>1. [roster[r.to] EXCEPT !.stamp = "recent"] \in Row
      BY <2>1, RowUpdates
    <3> QED
      BY <1>1, <2>1, <3>1 DEF MarkRecipientDispatched
  <2>2. CASE r.to \notin Addresses
    BY <1>1, <2>2 DEF MarkRecipientDispatched
  <2> QED
    BY <2>1, <2>2
<1>2. ASSUME NEW w \in Variants, DecideABWinner(w)
      PROVE  roster' \in [Addresses -> Row] /\ campaign' \in Campaign
  <2>1. \A a \in Addresses : [roster[a] EXCEPT !.variant = w, !.held = FALSE] \in Row
    BY RowUpdates
  <2>2. [campaign EXCEPT !.winner = w] \in Campaign
    BY DEF Campaign
  <2> QED
    BY <1>2, <2>1, <2>2 DEF DecideABWinner
<1>3. ASSUME DayPasses
      PROVE  roster' \in [Addresses -> Row]
  <2>1. \A a \in Addresses :
            (IF roster[a].stamp = "recent" THEN "old" ELSE roster[a].stamp)
                \in {"never", "recent", "old"}
    BY DEF Row
  <2>2. \A a \in Addresses :
            [roster[a] EXCEPT !.stamp = IF roster[a].stamp = "recent"
                                        THEN "old" ELSE roster[a].stamp] \in Row
    BY <2>1, RowUpdates
  <2> QED
    BY <1>3, <2>2 DEF DayPasses
<1>4. ASSUME NEW a \in Addresses, LeaseExpires(a)
      PROVE  roster' \in [Addresses -> Row]
  <2>1. [roster[a] EXCEPT !.late = TRUE] \in Row
    BY RowUpdates
  <2> QED
    BY <1>4, <2>1 DEF LeaseExpires
<1> QED
  BY <1>1, <1>2, <1>3, <1>4

\* The parts of TypeOK, with what makes it inductive: an idle worker holds no
\* claimed row, and a busy one has a row in hand.
Busy == {"checked", "dispatched", "answered"}
StoreOK == campaign \in Campaign /\ roster \in [Addresses -> Row] /\ builds \in Nat
WorkerOK ==
    /\ step \in [Senders -> WorkerSteps]
    /\ batch \in [Senders -> SUBSET Copy]
    /\ view \in [Senders -> Views]
    /\ cur \in [Senders -> Copy \cup {NoCopy}]
    /\ reply \in [Senders -> Replies]
    /\ deciding \in SUBSET Senders
WorkInv ==
    \A s \in Senders :
        /\ step[s] = "idle" => batch[s] = {}
        /\ step[s] \in Busy => cur[s] \in Copy
ProviderOK ==
    /\ mailable \in SUBSET Addresses
    /\ submitted \in SUBSET Keys
    /\ remembered \in SUBSET Keys
    /\ fading \in SUBSET Keys
    /\ delivered \in [Addresses -> 0..2]
FaultOK ==
    /\ days \in 0..MaxDays
    /\ errors \in 0..MaxErrors
    /\ lost \in 0..MaxLost
    /\ crashes \in 0..MaxCrashes
ApiOK ==
    /\ at \in [Requests -> HandlerSteps]
    /\ read \in [Requests -> Campaign]
    /\ edits \in 0..MaxEdits
    /\ pauses \in 0..MaxPauses
    /\ failures \in 0..MaxFailures
    /\ launches \in 0..MaxLaunches
    /\ previews \in 0..MaxPreviews
TypeInv == StoreOK /\ WorkerOK /\ WorkInv /\ ProviderOK /\ FaultOK /\ ApiOK

\* The parts are the whole.
LEMMA TypeParts == TypeInv <=> TypeOK /\ WorkInv
BY DEF TypeInv, StoreOK, WorkerOK, ProviderOK, FaultOK, ApiOK, TypeOK

\* The types hold at first.
LEMMA TypeInit == Init => TypeInv
<1> SUFFICES ASSUME Init PROVE TypeInv
  OBVIOUS
<1>1. StoreOK
  <2>1. campaign \in Campaign
    BY DEF Init, RosterInit, Campaign, CampaignStatuses
  <2> QED
    BY <2>1, FreshTypes DEF Init, RosterInit, StoreOK
<1>2. WorkerOK /\ WorkInv
  BY DEF Init, SenderInit, WorkerOK, WorkInv, Busy, WorkerSteps, Views, Replies
<1>3. ProviderOK
  BY DEF Init, SenderInit, ProviderOK
<1>4. FaultOK
  BY SenderBounds DEF Init, SenderInit, FaultOK
<1>5. ApiOK
  BY <1>1, LaunchBounds, RequestsAssumption DEF Init, LaunchInit, ApiOK, StoreOK, HandlerSteps
<1> QED
  BY <1>1, <1>2, <1>3, <1>4, <1>5 DEF TypeInv

\* A copy of a row, and its key (CopyOf, KeyOf).
LEMMA CopyTypes ==
    ASSUME TypeInv
    PROVE  /\ \A a \in Addresses : CopyOf(a) \in Copy
           /\ \A r \in Copy : KeyOf(r) \in Keys
<1>1. ASSUME NEW a \in Addresses PROVE CopyOf(a) \in Copy
  <2>1. roster[a] \in Row
    BY DEF TypeInv, StoreOK
  <2>2. Another(roster[a].attempts) \in 0..MaxAttempts
    BY <2>1, AttemptsAssumption DEF Another, Row
  <2> QED
    BY <2>1, <2>2 DEF CopyOf, Copy, Row
<1>2. \A r \in Copy : KeyOf(r) \in Keys
  BY DEF KeyOf, Keys, Copy
<1> QED
  BY <1>1, <1>2

\* Settling a row, and what a step that settles one leaves alone.
LEMMA SettleKeeps ==
    ASSUME TypeInv, NEW r, NEW s,
           \/ Settle(s, MarkRecipientSent(r)) \/ Settle(s, MarkRecipientFailed(r))
           \/ Settle(s, MarkRecipientSuppressed(r)) \/ Settle(s, RependRecipient(r))
           \/ Settle(s, MarkRecipientDispatched(r))
    PROVE  /\ StoreOK' /\ ProviderOK' /\ lost' \in 0..MaxLost
           /\ UNCHANGED <<deciding, days, crashes>>
<1>1. roster' \in [Addresses -> Row]
  <2>1. \/ MarkRecipientSent(r) \/ MarkRecipientFailed(r) \/ MarkRecipientSuppressed(r)
        \/ RependRecipient(r) \/ MarkRecipientDispatched(r) \/ UNCHANGED roster
    BY DEF Settle, Written
  <2> QED
    BY <2>1, SettleType, TimeTypes DEF TypeInv, StoreOK
<1>2. lost' \in 0..MaxLost
  <2>1. UNCHANGED lost \/ (lost < MaxLost /\ lost' = lost + 1)
    BY DEF Settle, Written
  <2> QED
    BY <2>1, SenderBounds DEF TypeInv, FaultOK
<1>3. UNCHANGED <<campaign, builds, mailable, deciding, submitted, remembered, fading, delivered,
                  days, crashes>>
  BY DEF Settle, providerVars
<1> QED
  BY <1>1, <1>2, <1>3 DEF TypeInv, StoreOK, ProviderOK

\* An error stays within its bound (Error, NoError).
LEMMA ErrorType ==
    ASSUME FaultOK, Error \/ NoError \/ UNCHANGED errors
    PROVE  errors' \in 0..MaxErrors
BY SenderBounds DEF FaultOK, Error, NoError

\* A step of a worker keeps the types.
LEMMA WorkerType ==
    ASSUME TypeInv, NEW s \in Senders, WorkerStep(s), UNCHANGED launchVars
    PROVE  TypeInv'
<1> USE DEF TypeInv
<1>0. ApiOK'
  BY DEF ApiOK, launchVars
<1>1. CASE Claim(s)
  <2>1. PICK chosen \in SUBSET Claimable :
            /\ ClaimSendableRecipients(chosen)
            /\ batch' = [batch EXCEPT ![s] = {CopyOf(a) : a \in chosen}]
    BY <1>1 DEF Claim
  <2>2. chosen \subseteq Addresses
    BY DEF Claimable, Rows
  <2>3. roster' \in [Addresses -> Row]
    BY <2>1, BulkTypes DEF StoreOK
  <2>4. batch' \in [Senders -> SUBSET Copy]
    BY <2>1, <2>2, CopyTypes DEF WorkerOK
  <2>5. WorkerOK' /\ WorkInv'
    BY <1>1, <2>1, <2>4 DEF Claim, WorkerOK, WorkInv, WorkerSteps, Busy
  <2> QED
    BY <1>0, <1>1, <2>3, <2>5
       DEF Claim, StoreOK, ProviderOK, FaultOK, providerVars, faultVars
<1>2. CASE Finalize(s)
  <2>1. campaign' \in Campaign
    BY <1>2 DEF Finalize, MarkDrained, StoreOK, Campaign, CampaignStatuses
  <2> QED
    BY <1>0, <1>2, <2>1
       DEF Finalize, StoreOK, WorkerOK, WorkInv, ProviderOK, FaultOK, senderVars, workerVars,
           providerVars, faultVars
<1>3. CASE LoadCampaignContext(s)
  <2>1. view' \in [Senders -> Views]
    BY <1>3 DEF LoadCampaignContext, WorkerOK, Views
  <2>2. errors' \in 0..MaxErrors
    BY <1>3, ErrorType DEF LoadCampaignContext
  <2> QED
    BY <1>0, <1>3, <2>1, <2>2
       DEF LoadCampaignContext, StoreOK, WorkerOK, WorkInv, ProviderOK, FaultOK, rosterVars,
           providerVars, WorkerSteps, Busy
<1>4. CASE EndBatch(s)
  BY <1>0, <1>4
     DEF EndBatch, StoreOK, WorkerOK, WorkInv, ProviderOK, FaultOK, rosterVars,
         providerVars, faultVars, WorkerSteps, Views, Busy
<1>5. CASE GiveUp(s)
  <2>1. PICK r \in batch[s] :
            /\ batch' = [batch EXCEPT ![s] = batch[s] \ {r}]
            /\ Settle(s, RependRecipient(r)) \/ Settle(s, MarkRecipientFailed(r))
    BY <1>5 DEF GiveUp
  <2>2. StoreOK' /\ ProviderOK' /\ lost' \in 0..MaxLost /\ UNCHANGED <<deciding, days, crashes>>
    BY <2>1, SettleKeeps
  <2> QED
    BY <1>0, <1>5, <2>1, <2>2 DEF GiveUp, WorkerOK, WorkInv, FaultOK
<1>6. CASE CheckSendable(s)
  <2>1. PICK r \in batch[s] :
            /\ batch' = [batch EXCEPT ![s] = batch[s] \ {r}]
            /\ cur' = [cur EXCEPT ![s] = r]
    BY <1>6 DEF CheckSendable
  <2>2. r \in Copy
    BY DEF WorkerOK
  <2> QED
    BY <1>0, <1>6, <2>1, <2>2
       DEF CheckSendable, StoreOK, WorkerOK, WorkInv, ProviderOK, FaultOK, rosterVars,
           providerVars, faultVars, WorkerSteps, Busy
<1>7. CASE Refuse(s)
  <2>1. PICK r \in batch[s] :
            /\ batch' = [batch EXCEPT ![s] = batch[s] \ {r}]
            /\ Settle(s, RependRecipient(r)) \/ Settle(s, MarkRecipientSuppressed(r))
            /\ Error \/ NoError
    BY <1>7 DEF Refuse
  <2>2. StoreOK' /\ ProviderOK' /\ lost' \in 0..MaxLost /\ UNCHANGED <<deciding, days, crashes>>
    BY <2>1, SettleKeeps
  <2>3. errors' \in 0..MaxErrors
    BY <2>1, ErrorType
  <2> QED
    BY <1>0, <1>7, <2>1, <2>2, <2>3 DEF Refuse, WorkerOK, WorkInv, FaultOK
<1>8. CASE Dispatch(s)
  <2>1. StoreOK' /\ ProviderOK' /\ lost' \in 0..MaxLost /\ UNCHANGED <<deciding, days, crashes>>
    BY <1>8, SettleKeeps DEF Dispatch
  <2> QED
    BY <1>0, <1>8, <2>1 DEF Dispatch, WorkerOK, WorkInv, FaultOK, WorkerSteps, Busy
<1>9. CASE MintFails(s)
  <2>1. StoreOK' /\ ProviderOK' /\ lost' \in 0..MaxLost /\ UNCHANGED <<deciding, days, crashes>>
    BY <1>9, SettleKeeps DEF MintFails
  <2>2. errors' \in 0..MaxErrors
    BY <1>9, ErrorType DEF MintFails
  <2> QED
    BY <1>0, <1>9, <2>1, <2>2 DEF MintFails, WorkerOK, WorkInv, FaultOK, WorkerSteps, Busy
<1>10. CASE SendMarketingEmail(s)
  <2>1. cur[s] \in Copy
    BY <1>10 DEF SendMarketingEmail, WorkInv, Busy
  <2>2. KeyOf(cur[s]) \in Keys /\ cur[s].to \in Addresses
    BY <2>1, CopyTypes DEF Copy
  <2>3. \/ Deliver(cur[s])
        \/ UNCHANGED <<remembered, delivered>>
    BY <1>10 DEF SendMarketingEmail
  <2>4. ProviderOK'
    BY <1>10, <2>2, <2>3 DEF SendMarketingEmail, Deliver, ProviderOK
  <2>5. errors' \in 0..MaxErrors
    BY <1>10, ErrorType DEF SendMarketingEmail
  <2>6. reply' \in [Senders -> Replies]
    BY <1>10 DEF SendMarketingEmail, WorkerOK, Replies
  <2> QED
    BY <1>0, <1>10, <2>4, <2>5, <2>6
       DEF SendMarketingEmail, StoreOK, WorkerOK, WorkInv, FaultOK, rosterVars, WorkerSteps, Busy
<1>11. CASE RecordOutcome(s)
  <2>1. \/ Settle(s, MarkRecipientSent(cur[s])) \/ Settle(s, RependRecipient(cur[s]))
        \/ Settle(s, MarkRecipientFailed(cur[s]))
    BY <1>11 DEF RecordOutcome, Outcome
  <2>2. StoreOK' /\ ProviderOK' /\ lost' \in 0..MaxLost /\ UNCHANGED <<deciding, days, crashes>>
    BY <2>1, SettleKeeps
  <2> QED
    BY <1>0, <1>11, <2>2
       DEF RecordOutcome, WorkerOK, WorkInv, FaultOK, WorkerSteps, Replies, Busy
<1> QED
  BY <1>1, <1>2, <1>3, <1>4, <1>5, <1>6, <1>7, <1>8, <1>9, <1>10, <1>11 DEF WorkerStep

\* So does a step of the other actors on the sending side.
LEMMA SenderType ==
    ASSUME TypeInv, SenderNext, UNCHANGED launchVars
    PROVE  TypeInv'
<1> USE DEF TypeInv
<1>0. ApiOK'
  BY DEF ApiOK, launchVars
<1>1. CASE \E s \in Senders : WorkerStep(s)
  BY <1>1, WorkerType
<1>2. ASSUME NEW s \in Senders, SenderCrash(s)
      PROVE  TypeInv'
  BY <1>0, <1>2, SenderBounds
     DEF SenderCrash, StoreOK, WorkerOK, WorkInv, ProviderOK, FaultOK, rosterVars,
         providerVars, WorkerSteps, Views, Replies, Busy
<1>3. ASSUME NEW s \in Senders, ListUndecided(s)
      PROVE  TypeInv'
  BY <1>0, <1>3
     DEF ListUndecided, StoreOK, WorkerOK, WorkInv, ProviderOK, FaultOK, rosterVars,
         providerVars, faultVars
<1>4. ASSUME NEW s \in Senders, Decide(s)
      PROVE  TypeInv'
  <2>1. roster' \in [Addresses -> Row] /\ campaign' \in Campaign
    BY <1>4, TimeTypes DEF Decide, StoreOK
  <2> QED
    BY <1>0, <1>4, <2>1
       DEF Decide, StoreOK, WorkerOK, WorkInv, ProviderOK, FaultOK, providerVars, faultVars
<1>5. CASE Reap \/ Prune \/ \E a \in Addresses : LeaseExpires(a)
  <2>1. roster' \in [Addresses -> Row]
    BY <1>5, BulkTypes, ClearType, TimeTypes DEF Reap, Prune, PruneCompletedRoster, StoreOK
  <2>2. UNCHANGED <<campaign, builds, senderVars>>
    BY <1>5 DEF Reap, Prune, LeaseExpires
  <2> QED
    BY <1>0, <2>1, <2>2
       DEF StoreOK, WorkerOK, WorkInv, ProviderOK, FaultOK, senderVars, workerVars,
           providerVars, faultVars
<1>6. CASE DayPasses
  <2>1. roster' \in [Addresses -> Row]
    BY <1>6, TimeTypes DEF StoreOK
  <2> QED
    BY <1>0, <1>6, <2>1, SenderBounds
       DEF DayPasses, StoreOK, WorkerOK, WorkInv, ProviderOK, FaultOK, workerVars
<1>7. CASE \E key \in fading : ProviderForgets(key)
  BY <1>0, <1>7
     DEF ProviderForgets, StoreOK, WorkerOK, WorkInv, ProviderOK, FaultOK, rosterVars,
         workerVars, faultVars
<1>8. CASE \E a \in Addresses : Unsubscribe(a)
  BY <1>0, <1>8
     DEF Unsubscribe, StoreOK, WorkerOK, WorkInv, ProviderOK, FaultOK, rosterVars,
         workerVars, providerVars, faultVars
<1> QED
  BY <1>1, <1>2, <1>3, <1>4, <1>5, <1>6, <1>7, <1>8 DEF SenderNext

\* A status flip leaves a campaign (SetStatus).
LEMMA SetStatusType ==
    ASSUME campaign \in Campaign, NEW s \in CampaignStatuses, NEW m, SetStatus(s, m)
    PROVE  campaign' \in Campaign
BY DEF SetStatus, Campaign

\* A failure stays within its bound (Fail).
LEMMA FailType ==
    ASSUME ApiOK, Fail \/ UNCHANGED failures
    PROVE  failures' \in 0..MaxFailures
BY LaunchBounds DEF ApiOK, Fail

\* A step of a request keeps the types.
LEMMA RequestType ==
    ASSUME TypeInv, NEW c \in Requests, RequestStep(c), UNCHANGED senderVars
    PROVE  TypeInv'
<1> USE DEF TypeInv
<1>0. WorkerOK' /\ WorkInv' /\ ProviderOK' /\ FaultOK'
  BY DEF WorkerOK, WorkInv, ProviderOK, FaultOK, senderVars, workerVars, providerVars, faultVars
<1>s. {"snapshotting", "sending", "draft"} \subseteq CampaignStatuses
  BY DEF CampaignStatuses
<1>1. CASE LaunchReads(c)
  <2>1. read' \in [Requests -> Campaign] /\ at' \in [Requests -> HandlerSteps]
    BY <1>1 DEF LaunchReads, Goto, StoreOK, ApiOK, HandlerSteps
  <2>2. launches' \in 0..MaxLaunches
    BY <1>1, RequestsAssumption DEF LaunchReads, ApiOK
  <2> QED
    BY <1>0, <1>1, <2>1, <2>2 DEF LaunchReads, StoreOK, ApiOK, rosterVars
<1>2. CASE Begin(c)
  <2>1. campaign' \in Campaign
    BY <1>2, <1>s, SetStatusType DEF Begin, BeginLaunch, StoreOK
  <2> QED
    BY <1>0, <1>2, <2>1 DEF Begin, Goto, StoreOK, ApiOK, boundVars, HandlerSteps
<1>3. CASE Clear(c)
  BY <1>0, <1>3, ClearType DEF Clear, Goto, StoreOK, ApiOK, boundVars, HandlerSteps
<1>4. CASE Build(c)
  <2>1. roster' \in [Addresses -> Row] /\ builds' \in Nat
    BY <1>4, BulkTypes DEF Build, StoreOK
  <2> QED
    BY <1>0, <1>4, <2>1 DEF Build, Goto, StoreOK, ApiOK, boundVars, HandlerSteps
<1>5. CASE Assign(c) \/ Hold(c)
  <2>1. roster' \in [Addresses -> Row]
    BY <1>5, BulkTypes DEF Assign, Hold, StoreOK
  <2> QED
    BY <1>0, <1>5, <2>1 DEF Assign, Hold, Goto, StoreOK, ApiOK, boundVars, HandlerSteps
<1>6. CASE LaunchFails(c)
  <2>1. failures' \in 0..MaxFailures
    BY <1>6, FailType DEF LaunchFails
  <2> QED
    BY <1>0, <1>6, <2>1 DEF LaunchFails, Goto, StoreOK, ApiOK, rosterVars, HandlerSteps
<1>7. CASE Revert(c) \/ Finish(c)
  <2>1. failures' \in 0..MaxFailures
    BY <1>7, FailType DEF Revert, Finish
  <2>2. campaign' \in Campaign
    BY <1>7, <1>s, SetStatusType DEF Revert, Finish, RevertLaunch, FinishLaunch, StoreOK
  <2> QED
    BY <1>0, <1>7, <2>1, <2>2 DEF Revert, Finish, Goto, StoreOK, ApiOK, HandlerSteps
<1>8. CASE SnapshotReads(c)
  <2>1. read' \in [Requests -> Campaign] /\ at' \in [Requests -> HandlerSteps]
    BY <1>8 DEF SnapshotReads, Goto, StoreOK, ApiOK, HandlerSteps
  <2>2. previews' \in 0..MaxPreviews
    <3>1. previews < MaxPreviews /\ previews' = previews + 1
      BY <1>8 DEF SnapshotReads
    <3>2. previews \in 0..MaxPreviews /\ MaxPreviews \in Nat
      BY RequestsAssumption DEF ApiOK
    <3> QED
      BY <3>1, <3>2
  <2> QED
    BY <1>0, <1>8, <2>1, <2>2 DEF SnapshotReads, StoreOK, ApiOK, rosterVars
<1>9. CASE DeleteMarks(c)
  <2>1. campaign' \in Campaign
    BY <1>9 DEF DeleteMarks, SoftDelete, StoreOK, Campaign
  <2> QED
    BY <1>0, <1>9, <2>1 DEF DeleteMarks, Goto, StoreOK, ApiOK, boundVars, HandlerSteps
<1>10. CASE DeleteClears(c)
  <2>1. failures' \in 0..MaxFailures
    BY <1>10, FailType DEF DeleteClears
  <2>2. roster' \in [Addresses -> Row]
    BY <1>10, ClearType DEF DeleteClears, StoreOK
  <2> QED
    BY <1>0, <1>10, <2>1, <2>2 DEF DeleteClears, Goto, StoreOK, ApiOK, HandlerSteps
<1>11. CASE HandlerDies(c)
  <2>1. failures' \in 0..MaxFailures
    BY <1>11, FailType DEF HandlerDies
  <2> QED
    BY <1>0, <1>11, <2>1 DEF HandlerDies, Goto, StoreOK, ApiOK, rosterVars, HandlerSteps
<1> QED
  BY <1>1, <1>2, <1>3, <1>4, <1>5, <1>6, <1>7, <1>8, <1>9, <1>10, <1>11 DEF RequestStep

\* Every step of the API keeps the types.
LEMMA LaunchType ==
    ASSUME TypeInv, LaunchNext, UNCHANGED senderVars
    PROVE  TypeInv'
<1> USE DEF TypeInv
<1>0. WorkerOK' /\ WorkInv' /\ ProviderOK' /\ FaultOK'
  BY DEF WorkerOK, WorkInv, ProviderOK, FaultOK, senderVars, workerVars, providerVars, faultVars
<1>s. {"paused", "sending", "canceled"} \subseteq CampaignStatuses
  BY DEF CampaignStatuses
<1>1. CASE \E c \in Requests : RequestStep(c)
  BY <1>1, RequestType
<1>2. CASE Edit
  <2>1. campaign' \in Campaign
    BY <1>2 DEF Edit, UpdateCampaign, StoreOK, Campaign
  <2> QED
    BY <1>0, <1>2, <2>1, LaunchBounds DEF Edit, StoreOK, ApiOK
<1>3. CASE Pause
  <2>1. campaign' \in Campaign
    BY <1>3, <1>s, SetStatusType DEF Pause, StoreOK
  <2> QED
    BY <1>0, <1>3, <2>1, LaunchBounds DEF Pause, StoreOK, ApiOK
<1>4. CASE Resume \/ Cancel
  <2>1. campaign' \in Campaign
    BY <1>4, <1>s, SetStatusType DEF Resume, Cancel, StoreOK
  <2> QED
    BY <1>0, <1>4, <2>1 DEF Resume, Cancel, StoreOK, ApiOK, launchVars
<1> QED
  BY <1>1, <1>2, <1>3, <1>4 DEF LaunchNext

\* Every step keeps the types.
LEMMA TypeStep == TypeInv /\ [Next]_vars => TypeInv'
<1> SUFFICES ASSUME TypeInv, [Next]_vars PROVE TypeInv'
  OBVIOUS
<1>1. CASE Next
  BY <1>1, SenderType, LaunchType DEF Next
<1>2. CASE UNCHANGED vars
  BY <1>2 DEF TypeInv, StoreOK, WorkerOK, WorkInv, ProviderOK, FaultOK, ApiOK, vars, rosterVars,
     senderVars, workerVars, providerVars, faultVars, launchVars
<1> QED
  BY <1>1, <1>2

\* The types always hold.
LEMMA TypeAlways == Spec => []TypeInv
BY TypeInit, TypeStep, PTL DEF Spec

\* Every variable keeps its type, whatever the processes and the API do and
\* wherever they are interrupted.
THEOREM CampaignTypeCorrect == Spec => []TypeOK
<1>1. TypeInv => TypeOK
  BY TypeParts
<1> QED
  BY <1>1, TypeAlways, PTL

-----------------------------------------------------------------------------
(* What a step does to the campaign.                                        *)

Launched == campaign.status \notin {"draft", "snapshotting"}
Present(a) == roster[a].status # "absent"

\* The sending side never touches a campaign that is not sending, nor its test;
\* a campaign once launched stays launched.
LEMMA SenderMoves ==
    ASSUME TypeInv, SenderNext
    PROVE  /\ campaign'.test = campaign.test
           /\ campaign.status # "sending" => campaign'.status = campaign.status
           /\ Launched => Launched'
           /\ campaign'.winner # campaign.winner => \E s \in Senders : Decide(s)
<1>0. campaign \in Campaign
  BY DEF TypeInv, StoreOK
<1>1. CASE \E s \in Senders : Finalize(s)
  BY <1>0, <1>1 DEF Finalize, MarkDrained, Campaign, Launched
<1>2. CASE \E s \in Senders : Decide(s)
  BY <1>0, <1>2 DEF Decide, DecideABWinner, CanDecide, Campaign, Launched
<1>3. CASE ~\E s \in Senders : Finalize(s) \/ Decide(s)
  <2>1. UNCHANGED campaign
    BY <1>3 DEF SenderNext, WorkerStep, Claim, LoadCampaignContext, EndBatch, GiveUp,
       CheckSendable, Refuse, Dispatch, MintFails, SendMarketingEmail, RecordOutcome, Settle,
       SenderCrash, ListUndecided, Reap, Prune, LeaseExpires, Unsubscribe, DayPasses,
       ProviderForgets, rosterVars
  <2> QED
    BY <2>1 DEF Launched
<1> QED
  BY <1>1, <1>2, <1>3

\* Nor do the requests: an edit is of a draft.
LEMMA LaunchMoves ==
    ASSUME TypeInv, LaunchNext
    PROVE  /\ ~Edit => campaign'.test = campaign.test
           /\ campaign'.winner = campaign.winner
           /\ Launched => Launched'
<1>0. campaign \in Campaign
  BY DEF TypeInv, StoreOK
<1>1. CASE Edit
  BY <1>0, <1>1 DEF Edit, UpdateCampaign, Campaign, Launched
<1>2. CASE \E c \in Requests : Begin(c)
  BY <1>0, <1>2 DEF Begin, BeginLaunch, SetStatus, CanSet, Campaign, Launched
<1>3. CASE \E c \in Requests : Finish(c) \/ Revert(c)
  BY <1>0, <1>3 DEF Finish, Revert, FinishLaunch, RevertLaunch, SetStatus, CanSet, Campaign,
     Launched
<1>4. CASE \E c \in Requests : DeleteMarks(c)
  BY <1>0, <1>4 DEF DeleteMarks, SoftDelete, Campaign, Launched
<1>5. CASE Pause \/ Resume \/ Cancel
  BY <1>0, <1>5 DEF Pause, Resume, Cancel, SetStatus, CanSet, Campaign, Launched
<1>6. CASE \E c \in Requests : \/ LaunchReads(c) \/ Clear(c) \/ Build(c) \/ Assign(c) \/ Hold(c)
                               \/ LaunchFails(c) \/ SnapshotReads(c) \/ DeleteClears(c)
                               \/ HandlerDies(c)
  <2>1. UNCHANGED campaign
    BY <1>6 DEF LaunchReads, Clear, Build, Assign, Hold, LaunchFails, SnapshotReads, DeleteClears,
       HandlerDies, rosterVars
  <2> QED
    BY <2>1 DEF Launched
<1> QED
  BY <1>1, <1>2, <1>3, <1>4, <1>5, <1>6 DEF LaunchNext, RequestStep

-----------------------------------------------------------------------------
(* One launch at a time.                                                    *)

\* Whoever launches holds the campaign in snapshotting.
Exclusive ==
    /\ \A c \in Requests : at[c] \in Launching => campaign.status = "snapshotting"
    /\ OneLauncher

\* Every step keeps the launches exclusive.
LEMMA ExclusiveKept ==
    ASSUME TypeInv, Exclusive, Next
    PROVE  Exclusive'
<1>t. at \in [Requests -> HandlerSteps] /\ campaign \in Campaign
  BY DEF TypeInv, ApiOK, StoreOK
<1>x. /\ \A c \in Requests : at[c] \in Launching => campaign.status = "snapshotting"
      /\ OneLauncher
  BY DEF Exclusive
<1>1. CASE SenderNext /\ UNCHANGED launchVars
  BY <1>1, <1>x, SenderMoves DEF launchVars, Exclusive, OneLauncher
<1>2. CASE LaunchNext
  <2>1. ASSUME NEW c \in Requests, Begin(c)
        PROVE  Exclusive'
    <3>1. CASE CanBegin
      <4>1. \A d \in Requests : at[d] \notin Launching
        BY <1>x, <3>1 DEF CanBegin, CanSet
      <4>2. campaign'.status = "snapshotting"
        BY <1>t, <2>1, <3>1 DEF Begin, BeginLaunch, SetStatus, CanBegin, Campaign
      <4>3. \A d \in Requests : d # c => at'[d] = at[d]
        BY <1>t, <2>1 DEF Begin, Goto
      <4> QED
        BY <4>1, <4>2, <4>3 DEF Exclusive, OneLauncher
    <3>2. CASE ~CanBegin
      <4>1. UNCHANGED campaign
        BY <2>1, <3>2 DEF Begin, BeginLaunch, SetStatus, CanBegin
      <4>2. \A d \in Requests : at'[d] = at[d] \/ at'[d] = "idle"
        BY <1>t, <2>1, <3>2 DEF Begin, Goto
      <4> QED
        BY <1>x, <4>1, <4>2 DEF Exclusive, OneLauncher, Launching
    <3> QED
      BY <3>1, <3>2
  <2>2. ASSUME NEW c \in Requests, Finish(c) \/ Revert(c)
        PROVE  Exclusive'
    <3>1. at[c] \in Launching
      BY <2>2 DEF Finish, Revert, Launching
    <3>2. \A d \in Requests : at'[d] = IF d = c THEN "idle" ELSE at[d]
      BY <1>t, <2>2 DEF Finish, Revert, Goto
    <3>3. \A d \in Requests : at'[d] \notin Launching
      BY <1>x, <3>1, <3>2 DEF Exclusive, OneLauncher, Launching
    <3> QED
      BY <3>3 DEF Exclusive, OneLauncher
  <2>3. ASSUME NEW c \in Requests,
               \/ LaunchReads(c) \/ Clear(c) \/ Build(c) \/ Assign(c) \/ Hold(c) \/ LaunchFails(c)
               \/ SnapshotReads(c) \/ DeleteMarks(c) \/ DeleteClears(c) \/ HandlerDies(c)
        PROVE  Exclusive'
    <3>1. campaign'.status = campaign.status
      BY <1>t, <2>3 DEF LaunchReads, Clear, Build, Assign, Hold, LaunchFails, SnapshotReads,
         DeleteMarks, SoftDelete, DeleteClears, HandlerDies, rosterVars, Campaign
    <3>2. \A d \in Requests : at'[d] \in Launching => at[d] \in Launching
      BY <1>t, <2>3 DEF LaunchReads, Clear, Build, Assign, Hold, LaunchFails, SnapshotReads,
         DeleteMarks, DeleteClears, HandlerDies, Goto, Launching, Building
    <3> QED
      BY <1>x, <3>1, <3>2 DEF Exclusive, OneLauncher
  <2>4. ASSUME Edit \/ Pause \/ Resume \/ Cancel
        PROVE  Exclusive'
    <3>1. UNCHANGED at
      BY <2>4 DEF Edit, Pause, Resume, Cancel, launchVars
    <3>2. campaign.status = "snapshotting" => campaign'.status = "snapshotting"
      BY <1>t, <2>4 DEF Edit, UpdateCampaign, Pause, Resume, Cancel, SetStatus, CanSet, Campaign
    <3> QED
      BY <1>x, <3>1, <3>2 DEF Exclusive, OneLauncher
  <2> QED
    BY <1>2, <2>1, <2>2, <2>3, <2>4 DEF LaunchNext, RequestStep
<1> QED
  BY <1>1, <1>2 DEF Next

\* The launches are always exclusive.
LEMMA ExclusiveAlways == Spec => [](TypeInv /\ Exclusive)
<1>1. Init => Exclusive
  BY DEF Init, LaunchInit, Exclusive, OneLauncher, Launching
<1>2. TypeInv /\ Exclusive /\ [Next]_vars => Exclusive'
  <2>1. ASSUME TypeInv, Exclusive, UNCHANGED vars PROVE Exclusive'
    BY <2>1 DEF Exclusive, OneLauncher, vars, rosterVars, launchVars
  <2> QED
    BY <2>1, ExclusiveKept
<1> QED
  BY <1>1, <1>2, TypeInit, TypeStep, PTL DEF Spec

\* Of concurrent launches one builds the roster and starts the send, however
\* requests interleave, fail or die (BeginLaunch).
THEOREM LaunchIsExclusive == Spec => []OneLauncher
<1>1. Exclusive => OneLauncher
  BY DEF Exclusive
<1> QED
  BY <1>1, ExclusiveAlways, PTL

-----------------------------------------------------------------------------
(* Nothing happens before the launch is complete.                           *)

\* Before the campaign is sending, nobody has done anything about its rows.
BeforeInv ==
    ~Launched =>
        /\ \A s \in Senders : step[s] = "idle"
        /\ deciding = {}
        /\ submitted = {}
        /\ \A a \in Addresses : roster[a].status \in {"absent", "pending"}
        /\ \A a \in Addresses : delivered[a] = 0

\* What is filled in then is pending.
LEMMA FillsPending ==
    ASSUME TypeInv, BeforeInv, ~Launched, NEW c \in Requests, Build(c) \/ Assign(c) \/ Hold(c)
    PROVE  \A a \in Addresses : roster'[a].status \in {"absent", "pending"}
<1>2. \A a \in Addresses : roster[a].status \in {"absent", "pending"}
  BY DEF BeforeInv
<1>3. roster \in [Addresses -> Row]
  BY DEF TypeInv, StoreOK
<1>4. CASE Build(c)
  <2>1. \A a \in Addresses : roster'[a] = roster[a] \/ roster'[a] = FreshRow(builds + 1)
    BY <1>4 DEF Build, SnapshotRoster
  <2> QED
    BY <1>2, <2>1 DEF FreshRow, NewRow
<1>5. CASE Assign(c) \/ Hold(c)
  <2>1. UNCHANGED roster \/ AssignABTestCells \/ HoldRemainder
    BY <1>5 DEF Assign, Hold
  <2>2. ASSUME AssignABTestCells \/ HoldRemainder, NEW a \in Addresses
        PROVE  roster'[a].status = roster[a].status
    <3>1. roster[a] \in Row
      BY <1>3
    <3>2. CASE AssignABTestCells
      <4>1. roster'[a] = roster[a] \/ \E v \in Variants : roster'[a] = [roster[a] EXCEPT !.variant = v]
        BY <2>2, <3>2, CellRows
      <4>2. \A v \in Variants : [roster[a] EXCEPT !.variant = v].status = roster[a].status
        BY <3>1 DEF Row
      <4> QED
        BY <4>1, <4>2
    <3>3. CASE HoldRemainder
      BY <2>2, <3>1, <3>3 DEF HoldRemainder, Row
    <3> QED
      BY <2>2, <3>2, <3>3
  <2> QED
    BY <1>2, <2>1, <2>2
<1> QED
  BY <1>4, <1>5

\* Every step keeps the time before the launch quiet.
LEMMA BeforeKept ==
    ASSUME TypeInv, BeforeInv, Next
    PROVE  BeforeInv'
<1> SUFFICES ASSUME ~Launched'
    PROVE  /\ \A s \in Senders : step'[s] = "idle"
           /\ deciding' = {}
           /\ submitted' = {}
           /\ \A a \in Addresses : roster'[a].status \in {"absent", "pending"}
           /\ \A a \in Addresses : delivered'[a] = 0
  BY DEF BeforeInv
<1>1. ~Launched
  BY SenderMoves, LaunchMoves DEF Next
<1>2. /\ \A s \in Senders : step[s] = "idle"
      /\ deciding = {}
      /\ submitted = {}
      /\ \A a \in Addresses : roster[a].status \in {"absent", "pending"}
      /\ \A a \in Addresses : delivered[a] = 0
  BY <1>1 DEF BeforeInv
<1>3. campaign.status # "sending" /\ campaign.status \notin {"sent", "canceled"}
  BY <1>1 DEF Launched
<1>4. CASE SenderNext
  <2>1. ~\E s \in Senders : WorkerStep(s) \/ SenderCrash(s) \/ ListUndecided(s) \/ Decide(s)
    BY <1>2, <1>3 DEF WorkerStep, Claim, Claimable, Finalize, MarkDrained, LoadCampaignContext,
       EndBatch, GiveUp, CheckSendable, Refuse, Dispatch, MintFails, SendMarketingEmail,
       RecordOutcome, SenderCrash, ListUndecided, Decide
  <2>2. Rows("processing") = {}
    BY <1>2 DEF Rows
  <2>3. ~(Reap \/ Prune \/ \E a \in Addresses : LeaseExpires(a))
    BY <1>2, <1>3, <2>2 DEF Reap, ReapStrandedRecipients, Stranded, Prune, PruneCompletedRoster,
       LeaseExpires
  <2>4. CASE DayPasses
    <3>1. ASSUME NEW a \in Addresses PROVE roster'[a].status = roster[a].status
      <4>1. roster[a] \in Row
        BY DEF TypeInv, StoreOK
      <4> QED
        BY <2>4, <4>1 DEF DayPasses, Row
    <3> QED
      BY <1>2, <2>4, <3>1 DEF DayPasses, workerVars
  <2>5. CASE (\E key \in fading : ProviderForgets(key)) \/ \E a \in Addresses : Unsubscribe(a)
    BY <1>2, <2>5 DEF ProviderForgets, Unsubscribe, rosterVars, workerVars, providerVars
  <2> QED
    BY <1>4, <2>1, <2>3, <2>4, <2>5 DEF SenderNext
<1>5. CASE LaunchNext /\ UNCHANGED senderVars
  <2>1. ASSUME NEW c \in Requests, Build(c) \/ Assign(c) \/ Hold(c)
        PROVE  \A a \in Addresses : roster'[a].status \in {"absent", "pending"}
    BY <1>1, <2>1, FillsPending
  <2>2. ASSUME ~\E c \in Requests : Build(c) \/ Assign(c) \/ Hold(c)
        PROVE  \A a \in Addresses : roster'[a].status \in {"absent", "pending"}
    <3>1. ClearRoster \/ UNCHANGED roster
      BY <1>5, <2>2 DEF LaunchNext, RequestStep, LaunchReads, Begin, Clear, LaunchFails, Revert,
         Finish, SnapshotReads, DeleteMarks, DeleteClears, HandlerDies, Edit, Pause, Resume,
         Cancel, rosterVars
    <3> QED
      BY <1>2, <3>1 DEF ClearRoster, NoRow, NewRow
  <2> QED
    BY <1>2, <1>5, <2>1, <2>2 DEF senderVars, workerVars, providerVars
<1> QED
  BY <1>4, <1>5 DEF Next

\* At first nothing has happened.
LEMMA BeforeInit == Init => BeforeInv
BY DEF Init, SenderInit, RosterInit, BeforeInv, Launched, NoRow, NewRow

\* The time before the launch is always quiet.
LEMMA BeforeAlways == Spec => [](TypeInv /\ BeforeInv)
<1>1. TypeInv /\ BeforeInv /\ [Next]_vars => BeforeInv'
  <2>1. ASSUME BeforeInv, UNCHANGED vars PROVE BeforeInv'
    BY <2>1 DEF BeforeInv, Launched, vars, rosterVars, senderVars, workerVars, providerVars
  <2> QED
    BY <2>1, BeforeKept
<1> QED
  BY <1>1, BeforeInit, TypeInit, TypeStep, PTL DEF Spec

\* Nothing is claimed or mailed before the launch is complete, whatever previews,
\* failed launches and dead handlers came before.
THEOREM LaunchComesFirst == Spec => []NothingBeforeLaunch
<1>1. BeforeInv => NothingBeforeLaunch
  BY DEF BeforeInv, NothingBeforeLaunch, Launched
<1> QED
  BY <1>1, BeforeAlways, PTL

-----------------------------------------------------------------------------
(* A sent row was delivered.                                                *)

\* What the provider remembers or accepted, and what a row reports as sent, was
\* delivered.
SentInv ==
    /\ \A key \in remembered : delivered[key[1]] # 0
    /\ \A s \in Senders : step[s] = "answered" /\ reply[s] = "accepted" =>
            delivered[cur[s].to] # 0
    /\ \A a \in Addresses : roster[a].status = "sent" => delivered[a] # 0

\* A row becomes sent by the hand of a worker that was told so; every other
\* statement leaves it so, or takes it away.
LEMMA WhoSends ==
    ASSUME TypeInv, Next, NEW a \in Addresses, roster'[a].status = "sent",
           roster[a].status # "sent"
    PROVE  \E s \in Senders : step[s] = "answered" /\ reply[s] = "accepted" /\ cur[s].to = a
<1>t. roster \in [Addresses -> Row]
  BY DEF TypeInv, StoreOK
<1>r. roster[a] \in Row
  BY <1>t
<1>w. ASSUME NEW r, NEW x \in {"failed", "suppressed", "pending"}, SetRecipient(r, x)
      PROVE  FALSE
  BY <1>t, <1>r, <1>w DEF SetRecipient, Row
<1>d. ASSUME NEW r, MarkRecipientDispatched(r)
      PROVE  FALSE
  BY <1>t, <1>r, <1>d DEF MarkRecipientDispatched, Row
<1>1. CASE SenderNext
  <2>1. ASSUME NEW s \in Senders, RecordOutcome(s)
        PROVE  step[s] = "answered" /\ reply[s] = "accepted" /\ cur[s].to = a
    <3>1. Outcome(s, cur[s])
      BY <2>1 DEF RecordOutcome, Settle, Written
    <3>2. reply[s] = "accepted"
      BY <1>w, <3>1 DEF Outcome, RependRecipient, MarkRecipientFailed
    <3>3. SetRecipient(cur[s], "sent")
      BY <3>1, <3>2 DEF Outcome, MarkRecipientSent
    <3>4. cur[s].to = a
      BY <1>t, <3>3 DEF SetRecipient
    <3> QED
      BY <2>1, <3>2, <3>4 DEF RecordOutcome
  <2>2. ASSUME NEW s \in Senders, GiveUp(s) \/ Refuse(s) \/ Dispatch(s) \/ MintFails(s)
        PROVE  FALSE
    <3>1. \E r : \/ SetRecipient(r, "failed") \/ SetRecipient(r, "suppressed")
                 \/ SetRecipient(r, "pending") \/ MarkRecipientDispatched(r)
      BY <2>2 DEF GiveUp, Refuse, Dispatch, MintFails, Settle, Written, MarkRecipientFailed,
         MarkRecipientSuppressed, RependRecipient
    <3> QED
      BY <1>w, <1>d, <3>1
  <2>3. ASSUME NEW s \in Senders, Claim(s)
        PROVE  FALSE
    <3>1. PICK chosen \in SUBSET Claimable : ClaimSendableRecipients(chosen)
      BY <2>3 DEF Claim
    <3> QED
      BY <1>r, <3>1 DEF ClaimSendableRecipients, Row
  <2>4. ASSUME NEW s \in Senders, Decide(s)
        PROVE  FALSE
    <3>1. PICK w \in Variants : DecideABWinner(w)
      BY <2>4 DEF Decide
    <3>2. roster'[a] \in {roster[a], [roster[a] EXCEPT !.variant = w, !.held = FALSE]}
      BY <3>1 DEF DecideABWinner
    <3> QED
      BY <1>r, <3>2 DEF Row
  <2>5. ~(Reap \/ Prune \/ DayPasses \/ \E b \in Addresses : LeaseExpires(b))
    <3>1. CASE Reap
      BY <1>r, <3>1 DEF Reap, ReapStrandedRecipients, ReapedStatus, Row
    <3>2. CASE Prune
      BY <3>2 DEF Prune, PruneCompletedRoster, ClearRoster, NoRow, NewRow
    <3>3. CASE DayPasses
      BY <1>r, <3>3 DEF DayPasses, Row
    <3>4. CASE \E b \in Addresses : LeaseExpires(b)
      BY <1>t, <1>r, <3>4 DEF LeaseExpires, Row
    <3> QED
      BY <3>1, <3>2, <3>3, <3>4
  <2>6. CASE \E s \in Senders : \/ Finalize(s) \/ LoadCampaignContext(s) \/ EndBatch(s)
                                \/ CheckSendable(s) \/ SendMarketingEmail(s) \/ SenderCrash(s)
                                \/ ListUndecided(s)
    BY <2>6 DEF Finalize, LoadCampaignContext, EndBatch, CheckSendable, SendMarketingEmail,
       SenderCrash, ListUndecided, rosterVars
  <2>7. CASE (\E b \in Addresses : Unsubscribe(b)) \/ \E key \in fading : ProviderForgets(key)
    BY <2>7 DEF Unsubscribe, ProviderForgets, rosterVars
  <2> QED
    BY <1>1, <2>1, <2>2, <2>3, <2>4, <2>5, <2>6, <2>7 DEF SenderNext, WorkerStep
<1>2. CASE LaunchNext
  <2>1. ASSUME NEW c \in Requests, Build(c)
        PROVE  FALSE
    <3>1. roster'[a] = roster[a] \/ roster'[a] = FreshRow(builds + 1)
      BY <2>1 DEF Build, SnapshotRoster
    <3> QED
      BY <3>1 DEF FreshRow, NewRow
  <2>2. ASSUME AssignABTestCells \/ HoldRemainder
        PROVE  FALSE
    BY <1>r, <2>2, CellRows DEF HoldRemainder, Row
  <2>3. CASE /\ ~\E c \in Requests : Build(c)
             /\ ~(AssignABTestCells \/ HoldRemainder)
    <3>1. ClearRoster \/ UNCHANGED roster
      BY <1>2, <2>3 DEF LaunchNext, RequestStep, LaunchReads, Begin, Clear, Assign, Hold,
         LaunchFails, Revert, Finish, SnapshotReads, DeleteMarks, DeleteClears, HandlerDies, Edit, Pause,
         Resume, Cancel, rosterVars
    <3> QED
      BY <3>1 DEF ClearRoster, NoRow, NewRow
  <2> QED
    BY <2>1, <2>2, <2>3
<1> QED
  BY <1>1, <1>2 DEF Next

\* What was delivered is not undone.
LEMMA SentKept ==
    ASSUME TypeInv, SentInv, Next
    PROVE  SentInv'
<1>t. /\ step \in [Senders -> WorkerSteps] /\ reply \in [Senders -> Replies]
      /\ cur \in [Senders -> Copy \cup {NoCopy}]
      /\ delivered \in [Addresses -> 0..2] /\ remembered \in SUBSET Keys
      /\ \A k \in Keys : k[1] \in Addresses
      /\ \A s \in Senders : step[s] = "answered" => cur[s].to \in Addresses
  BY DEF TypeInv, WorkerOK, ProviderOK, WorkInv, Busy, Keys, Copy
<1>s. /\ \A key \in remembered : delivered[key[1]] # 0
      /\ \A s \in Senders : step[s] = "answered" /\ reply[s] = "accepted" =>
            delivered[cur[s].to] # 0
      /\ \A a \in Addresses : roster[a].status = "sent" => delivered[a] # 0
  BY DEF SentInv
<1>a. ASSUME \A a \in Addresses : delivered[a] # 0 => delivered'[a] # 0
      PROVE  \A a \in Addresses : roster'[a].status = "sent" => delivered'[a] # 0
  BY <1>a, <1>s, <1>t, WhoSends
<1>1. ASSUME NEW s \in Senders, SendMarketingEmail(s)
      PROVE  SentInv'
  <2>0. cur[s].to \in Addresses /\ KeyOf(cur[s])[1] = cur[s].to
    BY <1>1 DEF SendMarketingEmail, TypeInv, WorkInv, Busy, Copy, KeyOf
  <2>1. \/ Deliver(cur[s])
        \/ /\ UNCHANGED <<remembered, delivered>>
           /\ reply' \in {[reply EXCEPT ![s] = "retryable"], [reply EXCEPT ![s] = "refused"]}
    BY <1>1 DEF SendMarketingEmail
  <2>2. /\ \A a \in Addresses : delivered[a] # 0 => delivered'[a] # 0
        /\ Deliver(cur[s]) => delivered'[cur[s].to] # 0
    BY <1>s, <1>t, <2>0, <2>1 DEF Deliver
  <2>3. \A key \in remembered' : delivered'[key[1]] # 0
    BY <1>s, <1>t, <2>0, <2>1, <2>2 DEF Deliver
  <2>4. UNCHANGED cur
    BY <1>1 DEF SendMarketingEmail
  <2>5. \A w \in Senders : w # s => step'[w] = step[w] /\ reply'[w] = reply[w]
    BY <1>1, <1>t DEF SendMarketingEmail
  <2>6. reply'[s] = "accepted" => delivered'[cur[s].to] # 0
    BY <1>t, <2>1, <2>2
  <2>7. \A w \in Senders : step'[w] = "answered" /\ reply'[w] = "accepted" =>
            delivered'[cur'[w].to] # 0
    <3>1. ASSUME NEW w \in Senders, w # s, step'[w] = "answered", reply'[w] = "accepted"
          PROVE  delivered'[cur'[w].to] # 0
      BY <1>s, <1>t, <2>2, <2>4, <2>5, <3>1
    <3> QED
      BY <2>4, <2>6, <3>1
  <2> QED
    BY <1>a, <2>2, <2>3, <2>7 DEF SentInv
<1>2. CASE ~\E s \in Senders : SendMarketingEmail(s)
  <2>1. UNCHANGED delivered /\ remembered' \subseteq remembered
    BY <1>2 DEF Next, SenderNext, WorkerStep, Claim, Finalize, LoadCampaignContext, EndBatch,
       GiveUp, CheckSendable, Refuse, Dispatch, MintFails, RecordOutcome, Settle, SenderCrash,
       ListUndecided, Decide, Reap, Prune, LeaseExpires, Unsubscribe, DayPasses,
       ProviderForgets, senderVars, providerVars
  <2>2. \A s \in Senders : step'[s] = "answered" =>
            step[s] = "answered" /\ reply'[s] = reply[s] /\ cur'[s] = cur[s]
    BY <1>2, <1>t DEF Next, SenderNext, WorkerStep, Claim, Finalize, LoadCampaignContext,
       EndBatch, GiveUp, CheckSendable, Refuse, Dispatch, MintFails, RecordOutcome, Settle,
       SenderCrash, ListUndecided, Decide, Reap, Prune, LeaseExpires, Unsubscribe, DayPasses,
       ProviderForgets, senderVars, workerVars
  <2> QED
    BY <1>a, <1>s, <2>1, <2>2 DEF SentInv
<1> QED
  BY <1>1, <1>2

\* The invariant of the deliveries holds throughout.
LEMMA SentAlways == Spec => [](TypeInv /\ SentInv)
<1>1. Init => SentInv
  BY DEF Init, RosterInit, SenderInit, SentInv, NoRow, NewRow
<1>2. TypeInv /\ SentInv /\ [Next]_vars => SentInv'
  <2>1. ASSUME SentInv, UNCHANGED vars PROVE SentInv'
    BY <2>1 DEF SentInv, vars, rosterVars, senderVars, workerVars, providerVars
  <2> QED
    BY <2>1, SentKept
<1> QED
  BY <1>1, <1>2, TypeInit, TypeStep, PTL DEF Spec

\* A row that says sent was delivered, with any number of workers, of which any
\* may be late, dead or have lost its row to another.
THEOREM SentIsDelivered == Spec => []SentWasDelivered
<1>1. TypeInv /\ SentInv => SentWasDelivered
  <2> SUFFICES ASSUME TypeInv, SentInv, NEW a \in Rows("sent") PROVE delivered[a] >= 1
    BY DEF SentWasDelivered
  <2>1. a \in Addresses /\ delivered[a] # 0 /\ delivered[a] \in 0..2
    BY DEF SentInv, TypeInv, ProviderOK, Rows
  <2> QED
    BY <2>1
<1> QED
  BY <1>1, SentAlways, PTL

-----------------------------------------------------------------------------
\* The winner of an A/B test never changes, however many deciders and edits race.
THEOREM WinnerStands == Spec => WinnerIsFinal
<1>1. ASSUME TypeInv, [Next]_vars, campaign.winner # NoVariant
      PROVE  campaign'.winner = campaign.winner
  <2>1. CASE \E s \in Senders : Decide(s)
    BY <1>1, <2>1 DEF Decide, DecideABWinner, CanDecide
  <2>2. CASE Next /\ ~\E s \in Senders : Decide(s)
    BY <1>1, <2>2, SenderMoves, LaunchMoves DEF Next
  <2>3. CASE UNCHANGED vars
    BY <2>3 DEF vars, rosterVars
  <2> QED
    BY <1>1, <2>1, <2>2, <2>3
<1> QED
  BY <1>1, TypeAlways, PTL DEF Spec, WinnerIsFinal

-----------------------------------------------------------------------------
\* No handler of the API, and no worker that does not check or submit, touches
\* what the opt-out of an address depends on.
LEMMA QuietSteps ==
    ASSUME TypeInv, [Next]_vars,
           ~\E s \in Senders : CheckSendable(s) \/ Dispatch(s) \/ SendMarketingEmail(s)
    PROVE  /\ mailable' \subseteq mailable
           /\ UNCHANGED delivered
           /\ \A s \in Senders : step'[s] \in {"checked", "dispatched"} =>
                  step'[s] = step[s] /\ cur'[s] = cur[s]
<1>t. step \in [Senders -> WorkerSteps] /\ cur \in [Senders -> Copy \cup {NoCopy}]
  BY DEF TypeInv, WorkerOK
<1>1. CASE SenderNext
  <2>1. mailable' \subseteq mailable /\ UNCHANGED delivered
    BY <1>1 DEF SenderNext, WorkerStep, Claim, Finalize, LoadCampaignContext, EndBatch, GiveUp,
       Refuse, MintFails, RecordOutcome, Settle, SenderCrash, ListUndecided, Decide, Reap,
       Prune, LeaseExpires, Unsubscribe, DayPasses, ProviderForgets, senderVars, providerVars
  <2>2. \A s \in Senders : step'[s] \in {"checked", "dispatched"} =>
            step'[s] = step[s] /\ cur'[s] = cur[s]
    BY <1>1, <1>t DEF SenderNext, WorkerStep, Claim, Finalize, LoadCampaignContext, EndBatch,
       GiveUp, Refuse, MintFails, RecordOutcome, Settle, SenderCrash, ListUndecided, Decide,
       Reap, Prune, LeaseExpires, Unsubscribe, DayPasses, ProviderForgets, senderVars, workerVars
  <2> QED
    BY <2>1, <2>2
<1>2. CASE LaunchNext /\ UNCHANGED senderVars
  BY <1>2 DEF senderVars, workerVars, providerVars
<1>3. CASE UNCHANGED vars
  BY <1>3 DEF vars, senderVars, workerVars, providerVars
<1> QED
  BY <1>1, <1>2, <1>3 DEF Next

\* An address that has opted out, and that no worker had checked by then, is
\* never mailed again, however many workers hold a copy of its row.
THEOREM OptOutStands == Spec => OptOutHonored
<1>1. ASSUME TypeInv, [Next]_vars, NEW a \in Addresses, a \notin mailable, ~InHand(a)
      PROVE  a \notin mailable' /\ ~InHand(a)' /\ delivered'[a] = delivered[a]
  <2>t. /\ step \in [Senders -> WorkerSteps] /\ cur \in [Senders -> Copy \cup {NoCopy}]
        /\ delivered \in [Addresses -> 0..2]
    BY <1>1 DEF TypeInv, WorkerOK, ProviderOK
  <2>1. ASSUME NEW s \in Senders, CheckSendable(s)
        PROVE  a \notin mailable' /\ ~InHand(a)' /\ delivered'[a] = delivered[a]
    <3>1. cur'[s].to \in mailable /\ UNCHANGED <<mailable, delivered>>
      BY <2>1, <2>t DEF CheckSendable, providerVars
    <3>2. \A w \in Senders \ {s} : step'[w] = step[w] /\ cur'[w] = cur[w]
      BY <2>1, <2>t DEF CheckSendable
    <3> QED
      BY <1>1, <3>1, <3>2 DEF InHand
  <2>2. ASSUME NEW s \in Senders, Dispatch(s)
        PROVE  a \notin mailable' /\ ~InHand(a)' /\ delivered'[a] = delivered[a]
    <3>1. step[s] = "checked" /\ UNCHANGED <<cur, mailable, delivered>>
      BY <2>2 DEF Dispatch, Settle, providerVars
    <3>2. \A w \in Senders \ {s} : step'[w] = step[w]
      BY <2>2, <2>t DEF Dispatch
    <3> QED
      BY <1>1, <3>1, <3>2 DEF InHand
  <2>3. ASSUME NEW s \in Senders, SendMarketingEmail(s)
        PROVE  a \notin mailable' /\ ~InHand(a)' /\ delivered'[a] = delivered[a]
    <3>1. step[s] = "dispatched" /\ UNCHANGED <<cur, mailable>>
      BY <2>3 DEF SendMarketingEmail
    <3>2. \A w \in Senders : step'[w] \in {"checked", "dispatched"} => step'[w] = step[w]
      BY <2>3, <2>t DEF SendMarketingEmail
    <3>3. cur[s].to # a
      BY <1>1, <3>1 DEF InHand
    <3>4. delivered'[a] = delivered[a]
      BY <2>3, <2>t, <1>1, <3>3 DEF SendMarketingEmail, Deliver
    <3> QED
      BY <1>1, <3>1, <3>2, <3>4 DEF InHand
  <2>4. CASE ~\E s \in Senders : CheckSendable(s) \/ Dispatch(s) \/ SendMarketingEmail(s)
    BY <1>1, <2>4, QuietSteps DEF InHand
  <2> QED
    BY <2>1, <2>2, <2>3, <2>4
<1>2. TypeInv /\ [Next]_vars =>
        [\A a \in Addresses : a \notin mailable /\ ~InHand(a) =>
            a \notin mailable' /\ ~InHand(a)' /\ delivered'[a] = delivered[a]]_vars
  BY <1>1
<1> QED
  BY <1>2, TypeAlways, PTL DEF Spec, OptOutHonored

-----------------------------------------------------------------------------
(* One worker drains what it reports as drained.                            *)
(*                                                                          *)
(* With one worker nobody holds a copy of a row when the campaign is marked *)
(* sent, so nobody returns a row afterwards; a preview that began before    *)
(* the launch would still fill the roster, so there is none.                *)

SoleSender == \E s \in Senders : Senders = {s}

Previewing == {"preview: clear", "preview: build"}

DrainInv ==
    /\ campaign.status = "sent" =>
         /\ \A a \in Addresses : roster[a].status \notin {"pending", "processing"}
         /\ \A s \in Senders : step[s] = "idle"
    /\ \A c \in Requests : at[c] \notin Previewing

\* No preview begins.
LEMMA NoPreviews ==
    ASSUME MaxPreviews = 0, TypeInv, DrainInv, Next
    PROVE  \A c \in Requests : at'[c] \notin Previewing
<1>t. at \in [Requests -> HandlerSteps] /\ previews \in 0..MaxPreviews
  BY DEF TypeInv, ApiOK
<1>p. \A c \in Requests : at[c] \notin Previewing
  BY DEF DrainInv
<1>1. CASE UNCHANGED launchVars
  BY <1>1, <1>p DEF launchVars
<1>2. CASE LaunchNext
  <2>1. \A c \in Requests : ~SnapshotReads(c)
    BY <1>t DEF SnapshotReads
  <2>2. ASSUME NEW c \in Requests, RequestStep(c)
        PROVE  /\ at'[c] \notin Previewing
               /\ \A d \in Requests \ {c} : at'[d] = at[d]
    BY <1>t, <1>p, <2>1, <2>2 DEF RequestStep, LaunchReads, Begin, Clear, Build, Assign, Hold,
       LaunchFails, Revert, Finish, DeleteMarks, DeleteClears, HandlerDies, Goto, Previewing
  <2>3. Edit \/ Pause \/ Resume \/ Cancel => UNCHANGED at
    BY DEF Edit, Pause, Resume, Cancel, launchVars
  <2> QED
    BY <1>2, <1>p, <2>2, <2>3 DEF LaunchNext
<1> QED
  BY <1>1, <1>2 DEF Next

\* Once the campaign is sent the workers have nothing to do, and no row comes
\* back.
LEMMA SentRests ==
    ASSUME TypeInv, Exclusive, DrainInv, Next, campaign.status = "sent"
    PROVE  /\ \A a \in Addresses : roster'[a].status \notin {"pending", "processing"}
           /\ \A s \in Senders : step'[s] = "idle"
<1>t. /\ roster \in [Addresses -> Row] /\ step \in [Senders -> WorkerSteps]
      /\ campaign \in Campaign
  BY DEF TypeInv, StoreOK, WorkerOK
<1>s. /\ \A a \in Addresses : roster[a].status \notin {"pending", "processing"}
      /\ \A s \in Senders : step[s] = "idle"
      /\ \A c \in Requests : at[c] \notin Previewing
  BY DEF DrainInv
<1>1. CASE SenderNext
  <2>1. ASSUME NEW s \in Senders PROVE ~WorkerStep(s)
    BY <1>s DEF WorkerStep, Claim, ClaimSendableRecipients, Claimable, Finalize, MarkDrained,
       LoadCampaignContext, EndBatch, GiveUp, CheckSendable, Refuse, Dispatch, MintFails,
       SendMarketingEmail, RecordOutcome
  <2>2. ASSUME NEW s \in Senders, SenderCrash(s) \/ ListUndecided(s)
        PROVE  UNCHANGED roster /\ \A w \in Senders : step'[w] = "idle"
    BY <1>s, <1>t, <2>2 DEF SenderCrash, ListUndecided, rosterVars
  <2>3. ASSUME NEW s \in Senders, Decide(s)
        PROVE  (\A a \in Addresses : roster'[a] = roster[a]) /\ UNCHANGED step
    BY <2>3 DEF Decide, DecideABWinner, CanDecide
  <2>4. ~Reap /\ ~\E a \in Addresses : LeaseExpires(a)
    BY <1>s DEF Reap, ReapStrandedRecipients, Stranded, Rows, LeaseExpires
  <2>5. Prune => (\A a \in Addresses : roster'[a] = NoRow) /\ UNCHANGED step
    BY DEF Prune, PruneCompletedRoster, ClearRoster, senderVars, workerVars
  <2>6. DayPasses => (\A a \in Addresses : roster'[a].status = roster[a].status) /\ UNCHANGED step
    BY <1>t DEF DayPasses, workerVars, Row
  <2>7. ASSUME (\E a \in Addresses : Unsubscribe(a)) \/ \E key \in fading : ProviderForgets(key)
        PROVE  UNCHANGED <<roster, step>>
    BY <2>7 DEF Unsubscribe, ProviderForgets, rosterVars, workerVars
  <2> QED
    BY <1>1, <1>s, <2>1, <2>2, <2>3, <2>4, <2>5, <2>6, <2>7 DEF SenderNext, NoRow, NewRow
<1>2. CASE LaunchNext /\ UNCHANGED senderVars
  <2>1. \A c \in Requests : ~Build(c) /\ ~Assign(c) /\ ~Hold(c)
    <3>1. \A c \in Requests : at[c] \notin Launching
      BY DEF Exclusive
    <3> QED
      BY <1>s, <3>1 DEF Build, Assign, Hold, Launching, Previewing
  <2>2. ClearRoster \/ UNCHANGED roster
    BY <1>2, <2>1 DEF LaunchNext, RequestStep, LaunchReads, Begin, Clear, LaunchFails, Revert,
       Finish, SnapshotReads, DeleteMarks, DeleteClears, HandlerDies, Edit, Pause, Resume,
       Cancel, rosterVars
  <2> QED
    BY <1>2, <1>s, <2>2 DEF ClearRoster, NoRow, NewRow, senderVars, workerVars
<1> QED
  BY <1>1, <1>2 DEF Next

\* The campaign becomes sent only when there is nothing left of it.
LEMMA BecomesSent ==
    ASSUME SoleSender, TypeInv, Next, campaign.status # "sent", campaign'.status = "sent"
    PROVE  /\ \A a \in Addresses : roster'[a].status \notin {"pending", "processing"}
           /\ \A s \in Senders : step'[s] = "idle"
<1>t. campaign \in Campaign
  BY DEF TypeInv, StoreOK
<1>1. ~LaunchNext
  <2>1. ASSUME LaunchNext PROVE campaign'.status # "sent"
    BY <1>t, <2>1 DEF LaunchNext, RequestStep, LaunchReads, Begin, BeginLaunch, Clear, Build,
       Assign, Hold, LaunchFails, Revert, RevertLaunch, Finish, FinishLaunch, SnapshotReads,
       DeleteMarks, SoftDelete, DeleteClears, HandlerDies, Edit, UpdateCampaign, Pause, Resume,
       Cancel, SetStatus, CanSet, rosterVars, Campaign
  <2> QED
    BY <2>1
<1>2. \E s \in Senders : Finalize(s)
  <2>1. ASSUME SenderNext, ~\E s \in Senders : Finalize(s) PROVE campaign'.status = campaign.status
    <3>1. CASE \E s \in Senders : Decide(s)
      BY <1>t, <3>1 DEF Decide, DecideABWinner, CanDecide, Campaign
    <3>2. CASE ~\E s \in Senders : Decide(s)
      BY <2>1, <3>2 DEF SenderNext, WorkerStep, Claim, LoadCampaignContext, EndBatch, GiveUp,
         CheckSendable, Refuse, Dispatch, MintFails, SendMarketingEmail, RecordOutcome, Settle,
         SenderCrash, ListUndecided, Reap, Prune, LeaseExpires, Unsubscribe, DayPasses,
         ProviderForgets, rosterVars
    <3> QED
      BY <3>1, <3>2
  <2> QED
    BY <1>1, <2>1 DEF Next
<1>3. PICK s \in Senders : Finalize(s)
  BY <1>2
<1>4. UNCHANGED <<roster, step>> /\ step[s] = "idle"
  BY <1>3 DEF Finalize, senderVars, workerVars
<1>5. \A a \in Addresses : roster[a].status \notin {"pending", "processing"}
  BY <1>3 DEF Finalize, MarkDrained, Rows
<1>6. \A w \in Senders : w = s
  BY DEF SoleSender
<1> QED
  BY <1>4, <1>5, <1>6

\* With one worker and no preview, a campaign that says sent has nobody left to
\* mail and never will, through deaths, reaped rows, pauses and races of requests.
THEOREM SentIsFinal ==
    ASSUME SoleSender, MaxPreviews = 0
    PROVE  Spec => []SentMeansDrained
<1>1. Init => DrainInv
  BY DEF Init, RosterInit, LaunchInit, DrainInv, Previewing
<1>2. TypeInv /\ Exclusive /\ DrainInv /\ [Next]_vars => DrainInv'
  <2>1. ASSUME DrainInv, UNCHANGED vars PROVE DrainInv'
    BY <2>1 DEF DrainInv, vars, rosterVars, senderVars, workerVars, launchVars
  <2>2. ASSUME TypeInv, Exclusive, DrainInv, Next PROVE DrainInv'
    BY <2>2, NoPreviews, SentRests, BecomesSent DEF DrainInv
  <2> QED
    BY <2>1, <2>2
<1>3. DrainInv => SentMeansDrained
  BY DEF DrainInv, SentMeansDrained, Rows
<1> QED
  BY <1>1, <1>2, <1>3, ExclusiveAlways, PTL DEF Spec

=============================================================================
