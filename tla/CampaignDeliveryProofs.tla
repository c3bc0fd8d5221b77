----------------------- MODULE CampaignDeliveryProofs -----------------------
(***************************************************************************)
(* Proofs about the deliveries of CampaignLane, for any number of addresses,*)
(* processes and request handlers.                                          *)
(***************************************************************************)
EXTENDS CampaignProofs

-----------------------------------------------------------------------------
(* At most one message to an address.                                       *)
(*                                                                          *)
(* The invariant says that every key a worker may still submit, or has      *)
(* submitted, is the only one of its address and is the key of the row, if  *)
(* the row is still there (KeyInv): so the provider recognises a repetition *)
(* while it remembers the key. And it forgets a key only when nobody can    *)
(* submit to that address any more (DeliverInv).                            *)

\* The rosters that are neither previewed nor edited, and days that do not pass
\* over a row that waits for its retry, or whose dispatch stamp was lost.
Undisturbed ==
    /\ MaxPreviews = 0
    /\ MaxEdits = 0
    /\ MaxDays = 0 \/ (~LongPauses /\ MaxLost = 0)

\* The rows a worker holds a copy of: claimed and not yet taken, or in hand.
Holding(s, r) == r \in batch[s] \/ (r = cur[s] /\ step[s] \in Busy)

\* The keys that were submitted or are in a worker's hands.
Marked(k) == k \in submitted \/ \E s \in Senders : \E r \in Copy : Holding(s, r) /\ k = KeyOf(r)

\* A row's variant cannot be set any more unless the row is held.
Split == \A a \in Addresses : Present(a) => roster[a].variant # NoVariant \/ roster[a].held

\* Nobody will submit anything for this address again.
Shut(a) ==
    \/ roster[a].status \in {"absent", "sent", "failed", "suppressed"}
    \/ roster[a].status = "processing" /\ roster[a].stamp = "old"
Unheld(a) == \A s \in Senders : \A r \in Copy : Holding(s, r) => r.to # a
Closed(a) == Unheld(a) /\ Shut(a)

\* The handlers know the campaign as it is, and none is at a preview.
LaunchInv ==
    /\ \A c \in Requests : read[c].test = campaign.test
    /\ \A c \in Requests : at[c] \notin {"preview: clear", "preview: build"}
    /\ \A c \in Requests : at[c] = "launch: finish" /\ campaign.test => Split

\* While a test runs, every row has its variant or is held.
TestInv ==
    /\ campaign.test /\ campaign.winner = NoVariant /\ Launched => Split
    /\ deciding # {} => campaign.test

OneKey == \A j, k \in Keys : Marked(j) /\ Marked(k) /\ j[1] = k[1] => j = k
RowKey == \A k \in Keys : Marked(k) /\ Present(k[1]) =>
            /\ roster[k[1]].build = k[2]
            /\ roster[k[1]].variant = k[3]
            /\ ~roster[k[1]].held
HeldWaits == \A a \in Addresses : roster[a].held => roster[a].status \in {"absent", "pending"}
KeyInv == OneKey /\ RowKey /\ HeldWaits

\* What was submitted was stamped first.
StampInv ==
    MaxDays > 0 =>
        /\ \A k \in submitted : Present(k[1]) => roster[k[1]].stamp # "never"
        /\ \A s \in Senders : step[s] \in {"dispatched", "answered"} /\ Present(cur[s].to) =>
                roster[cur[s].to].stamp # "never"

DeliverInv ==
    /\ fading \subseteq remembered
    /\ remembered \subseteq submitted
    /\ \A k \in fading : Closed(k[1])
    /\ \A a \in Addresses : delivered[a] # 0 =>
            /\ delivered[a] = 1
            /\ \E k \in submitted : k[1] = a /\ (k \in remembered \/ Closed(a))

IInv ==
    TypeInv /\ Exclusive /\ BeforeInv /\ LaunchInv /\ TestInv /\ KeyInv /\ StampInv
    /\ DeliverInv

\* What most steps do to the roster: a row may go, or change its status, but
\* never its key, nor what a held row waits for.
Mild ==
    \A a \in Addresses :
        \/ roster'[a].status = "absent"
        \/ /\ Present(a)
           /\ roster'[a].build = roster[a].build
           /\ roster'[a].variant = roster[a].variant
           /\ roster'[a].held = roster[a].held
           /\ roster[a].stamp # "never" => roster'[a].stamp # "never"
           /\ roster[a].held => roster'[a].status \in {roster[a].status, "pending"}
\* No worker gets a row, and no key is new.
HoldLess == \A s \in Senders : \A r \in Copy : Holding(s, r)' => Holding(s, r)
MarkedLess == \A k \in Keys : Marked(k)' => Marked(k)
ClosedKept == \A a \in Addresses : Closed(a) => Closed(a)'
Calm == Mild /\ HoldLess /\ MarkedLess /\ ClosedKept

\* Who holds nothing new and submits nothing marks nothing new.
LEMMA HoldMark ==
    ASSUME HoldLess, submitted' = submitted
    PROVE  MarkedLess
BY DEF HoldLess, MarkedLess, Marked, KeyOf

\* Such a step is calm if it leaves the roster alone.
LEMMA SameRoster ==
    ASSUME HoldLess, MarkedLess, UNCHANGED roster
    PROVE  Calm
<1>1. Mild
  BY DEF Mild, Present
<1>2. ClosedKept
  BY DEF ClosedKept, HoldLess, Closed, Unheld, Shut
<1> QED
  BY <1>1, <1>2 DEF Calm

\* Calm steps keep the keys.
LEMMA CalmKeys ==
    ASSUME TypeInv, KeyInv, Mild, MarkedLess
    PROVE  KeyInv'
<1>1. OneKey'
  BY DEF KeyInv, OneKey, MarkedLess
<1>2. RowKey'
  <2> SUFFICES ASSUME NEW k \in Keys, Marked(k)', Present(k[1])'
      PROVE  roster'[k[1]].build = k[2] /\ roster'[k[1]].variant = k[3] /\ ~roster'[k[1]].held
    BY DEF RowKey
  <2>1. Marked(k) /\ k[1] \in Addresses
    BY DEF MarkedLess, Keys
  <2> QED
    BY <2>1 DEF KeyInv, RowKey, Mild, Present
<1>3. HeldWaits'
  BY DEF KeyInv, HeldWaits, Mild, Present
<1> QED
  BY <1>1, <1>2, <1>3 DEF KeyInv

\* A worker's write is about a row that it holds, and that row is not held back.
LEMMA WriteMild ==
    ASSUME TypeInv, KeyInv, NEW s \in Senders, NEW r \in Copy, Holding(s, r),
           \/ Settle(s, MarkRecipientSent(r)) \/ Settle(s, MarkRecipientFailed(r))
           \/ Settle(s, MarkRecipientSuppressed(r)) \/ Settle(s, RependRecipient(r))
           \/ Settle(s, MarkRecipientDispatched(r))
    PROVE  /\ Mild
           /\ \A a \in Addresses : a # r.to => roster'[a] = roster[a]
           /\ \A a \in Addresses : Closed(a) => Shut(a)'
<1>1. \/ \E x \in RecipientStatuses : SetRecipient(r, x)
      \/ MarkRecipientDispatched(r)
      \/ UNCHANGED roster
  BY DEF Settle, Written, MarkRecipientSent, MarkRecipientFailed, MarkRecipientSuppressed,
         RependRecipient, RecipientStatuses
<1>2. roster \in [Addresses -> Row] /\ r.to \in Addresses /\ KeyOf(r) \in Keys
  BY CopyTypes DEF TypeInv, StoreOK, Copy
<1>3. Present(r.to) => ~roster[r.to].held
  <2>1. Marked(KeyOf(r))
    BY DEF Marked
  <2> QED
    BY <1>2, <2>1 DEF KeyInv, RowKey, KeyOf
<1>4. \A a \in Addresses : a # r.to => roster'[a] = roster[a]
  BY <1>1, <1>2 DEF SetRecipient, MarkRecipientDispatched
<1>5. \/ roster'[r.to] = roster[r.to]
      \/ /\ Present(r.to)
         /\ roster'[r.to].build = roster[r.to].build
         /\ roster'[r.to].variant = roster[r.to].variant
         /\ roster'[r.to].held = roster[r.to].held
         /\ roster[r.to].stamp # "never" => roster'[r.to].stamp # "never"
  <2>1. roster[r.to] \in Row
    BY <1>2
  <2>2. CASE \E x \in RecipientStatuses : SetRecipient(r, x)
    <3>1. PICK x \in RecipientStatuses : SetRecipient(r, x)
      BY <2>2
    <3>2. roster'[r.to] = IF Holds(r) THEN [roster[r.to] EXCEPT !.status = x, !.late = FALSE]
                          ELSE roster[r.to]
      BY <1>2, <3>1 DEF SetRecipient
    <3> QED
      BY <2>1, <3>2 DEF Holds, Present, Row
  <2>3. CASE MarkRecipientDispatched(r)
    <3>1. roster'[r.to] = IF Holds(r) /\ roster[r.to].stamp = "never"
                          THEN [roster[r.to] EXCEPT !.stamp = "recent"] ELSE roster[r.to]
      BY <1>2, <2>3 DEF MarkRecipientDispatched
    <3> QED
      BY <2>1, <3>1 DEF Holds, Present, Row
  <2> QED
    BY <1>1, <2>2, <2>3
<1>6. Mild
  BY <1>2, <1>3, <1>4, <1>5 DEF Mild, Present
<1>7. \A a \in Addresses : Closed(a) => Shut(a)'
  BY <1>4 DEF Closed, Unheld, Shut
<1> QED
  BY <1>4, <1>6, <1>7

\* Every step of a worker but the claim is calm.
LEMMA WorkerCalm ==
    ASSUME TypeInv, KeyInv, NEW s \in Senders, WorkerStep(s), ~Claim(s)
    PROVE  Calm
<1> USE DEF TypeInv
<1>w. ASSUME HoldLess, MarkedLess, NEW r \in Copy, Holding(s, r),
             \/ Settle(s, MarkRecipientSent(r)) \/ Settle(s, MarkRecipientFailed(r))
             \/ Settle(s, MarkRecipientSuppressed(r)) \/ Settle(s, RependRecipient(r))
             \/ Settle(s, MarkRecipientDispatched(r))
      PROVE  Calm
  <2>1. Mild /\ \A a \in Addresses : Closed(a) => Shut(a)'
    BY <1>w, WriteMild
  <2> QED
    BY <1>w, <2>1 DEF Calm, ClosedKept, HoldLess, Closed, Unheld
<1>1. CASE Finalize(s)
  <2>1. HoldLess
    BY <1>1 DEF Finalize, senderVars, workerVars, HoldLess, Holding
  <2> QED
    BY <1>1, <2>1, HoldMark, SameRoster DEF Finalize, senderVars, providerVars
<1>2. CASE LoadCampaignContext(s)
  <2>1. HoldLess
    BY <1>2 DEF LoadCampaignContext, WorkerOK, HoldLess, Holding, Busy
  <2> QED
    BY <1>2, <2>1, HoldMark, SameRoster DEF LoadCampaignContext, rosterVars, providerVars
<1>3. CASE EndBatch(s)
  <2>1. HoldLess
    BY <1>3 DEF EndBatch, WorkerOK, HoldLess, Holding, Busy
  <2> QED
    BY <1>3, <2>1, HoldMark, SameRoster DEF EndBatch, rosterVars, providerVars
<1>4. CASE GiveUp(s)
  <2>1. PICK r \in batch[s] :
            /\ batch' = [batch EXCEPT ![s] = batch[s] \ {r}]
            /\ Settle(s, RependRecipient(r)) \/ Settle(s, MarkRecipientFailed(r))
    BY <1>4 DEF GiveUp
  <2>2. HoldLess /\ Holding(s, r) /\ r \in Copy
    BY <1>4, <2>1 DEF GiveUp, WorkerOK, HoldLess, Holding
  <2> QED
    BY <1>w, <2>1, <2>2, HoldMark DEF Settle, providerVars
<1>5. CASE CheckSendable(s)
  <2>1. PICK r \in batch[s] :
            /\ batch' = [batch EXCEPT ![s] = batch[s] \ {r}]
            /\ cur' = [cur EXCEPT ![s] = r]
    BY <1>5 DEF CheckSendable
  <2>2. HoldLess
    BY <1>5, <2>1 DEF CheckSendable, WorkerOK, HoldLess, Holding, Busy
  <2> QED
    BY <1>5, <2>2, HoldMark, SameRoster DEF CheckSendable, rosterVars, providerVars
<1>6. CASE Refuse(s)
  <2>1. PICK r \in batch[s] :
            /\ batch' = [batch EXCEPT ![s] = batch[s] \ {r}]
            /\ Settle(s, RependRecipient(r)) \/ Settle(s, MarkRecipientSuppressed(r))
    BY <1>6 DEF Refuse
  <2>2. HoldLess /\ Holding(s, r) /\ r \in Copy
    BY <1>6, <2>1 DEF Refuse, WorkerOK, HoldLess, Holding
  <2> QED
    BY <1>w, <2>1, <2>2, HoldMark DEF Settle, providerVars
<1>7. CASE Dispatch(s)
  <2>1. HoldLess
    BY <1>7 DEF Dispatch, WorkerOK, HoldLess, Holding, Busy
  <2>2. cur[s] \in Copy /\ Holding(s, cur[s])
    BY <1>7 DEF Dispatch, WorkInv, Holding, Busy
  <2>3. Settle(s, MarkRecipientDispatched(cur[s]))
    BY <1>7 DEF Dispatch
  <2>4. MarkedLess
    BY <2>1, <2>3, HoldMark DEF Settle, providerVars
  <2> QED
    BY <1>w, <2>1, <2>2, <2>3, <2>4
<1>8. CASE MintFails(s)
  <2>1. HoldLess
    BY <1>8 DEF MintFails, WorkerOK, HoldLess, Holding, Busy
  <2>2. cur[s] \in Copy /\ Holding(s, cur[s])
    BY <1>8 DEF MintFails, WorkInv, Holding, Busy
  <2>3. Settle(s, MarkRecipientFailed(cur[s]))
    BY <1>8 DEF MintFails
  <2>4. MarkedLess
    BY <2>1, <2>3, HoldMark DEF Settle, providerVars
  <2> QED
    BY <1>w, <2>1, <2>2, <2>3, <2>4
<1>9. CASE SendMarketingEmail(s)
  <2>1. HoldLess
    BY <1>9 DEF SendMarketingEmail, WorkerOK, HoldLess, Holding, Busy
  <2>2. cur[s] \in Copy /\ Holding(s, cur[s])
    BY <1>9 DEF SendMarketingEmail, WorkInv, Holding, Busy
  <2>3. Marked(KeyOf(cur[s]))
    BY <2>2 DEF Marked
  <2>4. MarkedLess
    BY <1>9, <2>1, <2>3 DEF SendMarketingEmail, HoldLess, MarkedLess, Marked, KeyOf
  <2> QED
    BY <1>9, <2>1, <2>4, SameRoster DEF SendMarketingEmail, rosterVars
<1>10. CASE RecordOutcome(s)
  <2>1. HoldLess
    BY <1>10 DEF RecordOutcome, WorkerOK, HoldLess, Holding, Busy
  <2>2. cur[s] \in Copy /\ Holding(s, cur[s])
    BY <1>10 DEF RecordOutcome, WorkInv, Holding, Busy
  <2>3. \/ Settle(s, MarkRecipientSent(cur[s])) \/ Settle(s, RependRecipient(cur[s]))
        \/ Settle(s, MarkRecipientFailed(cur[s]))
    BY <1>10 DEF RecordOutcome, Outcome
  <2>4. MarkedLess
    BY <2>1, <2>3, HoldMark DEF Settle, providerVars
  <2> QED
    BY <1>w, <2>1, <2>2, <2>3, <2>4
<1> QED
  BY <1>1, <1>2, <1>3, <1>4, <1>5, <1>6, <1>7, <1>8, <1>9, <1>10 DEF WorkerStep

\* Who moves no row between workers and submits nothing is calm if the roster
\* changes mildly and shut rows stay shut.
LEMMA ElsewhereCalm ==
    ASSUME UNCHANGED <<step, batch, cur, submitted>>, Mild,
           \A a \in Addresses : Closed(a) => Shut(a)'
    PROVE  Calm
<1>1. HoldLess
  BY DEF HoldLess, Holding
<1>2. MarkedLess
  BY <1>1, HoldMark
<1>3. ClosedKept
  BY <1>1 DEF ClosedKept, HoldLess, Closed, Unheld
<1> QED
  BY <1>1, <1>2, <1>3 DEF Calm

\* An emptied roster, and the marks that time leaves on its rows (ClearRoster,
\* Reap, LeaseExpires, DayPasses), are mild.
LEMMA RosterCalm ==
    ASSUME TypeInv, KeyInv, UNCHANGED <<step, batch, cur, submitted>>,
           ClearRoster \/ Reap \/ (\E a \in Addresses : LeaseExpires(a)) \/ DayPasses
    PROVE  Calm
<1>0. roster \in [Addresses -> Row]
  BY DEF TypeInv, StoreOK
<1>1. CASE ClearRoster
  <2>1. \A a \in Addresses : roster'[a].status = "absent"
    BY <1>1 DEF ClearRoster, NoRow, NewRow
  <2>2. Mild /\ \A a \in Addresses : Closed(a) => Shut(a)'
    BY <2>1 DEF Mild, Shut
  <2> QED
    BY <2>2, ElsewhereCalm
<1>2. CASE Reap
  <2>1. ASSUME NEW a \in Addresses, roster'[a] # roster[a]
        PROVE  /\ roster[a].status = "processing"
               /\ roster'[a] = [roster[a] EXCEPT !.status = ReapedStatus(roster[a]), !.late = FALSE]
    BY <1>0, <1>2, <2>1 DEF Reap, ReapStrandedRecipients, Stranded, Rows
  <2>2. ASSUME NEW a \in Addresses, roster'[a] # roster[a]
        PROVE  /\ roster[a].status = "processing"
               /\ ~roster[a].held
               /\ roster'[a].status = ReapedStatus(roster[a])
               /\ roster'[a].build = roster[a].build
               /\ roster'[a].variant = roster[a].variant
               /\ roster'[a].held = roster[a].held
               /\ roster'[a].stamp = roster[a].stamp
    <3>1. roster[a] \in Row
      BY <1>0
    <3> QED
      BY <2>1, <2>2, <3>1 DEF KeyInv, HeldWaits, Row
  <2>3. Mild
    BY <2>2 DEF Mild, Present
  <2>4. \A a \in Addresses : Closed(a) => Shut(a)'
    BY <2>2 DEF Closed, Shut, ReapedStatus
  <2> QED
    BY <2>3, <2>4, ElsewhereCalm
<1>3. CASE \E a \in Addresses : LeaseExpires(a)
  <2>1. PICK b \in Addresses : LeaseExpires(b)
    BY <1>3
  <2>2. \A a \in Addresses : roster'[a] = IF a = b THEN [roster[a] EXCEPT !.late = TRUE]
                                          ELSE roster[a]
    BY <1>0, <2>1 DEF LeaseExpires
  <2>3. ASSUME NEW a \in Addresses
        PROVE  /\ roster'[a].status = roster[a].status
               /\ roster'[a].build = roster[a].build
               /\ roster'[a].variant = roster[a].variant
               /\ roster'[a].held = roster[a].held
               /\ roster'[a].stamp = roster[a].stamp
    <3>1. roster[a] \in Row
      BY <1>0
    <3> QED
      BY <2>2, <3>1 DEF Row
  <2>4. Mild
    BY <2>3 DEF Mild, Present
  <2>5. \A a \in Addresses : Closed(a) => Shut(a)'
    BY <2>3 DEF Closed, Shut
  <2> QED
    BY <2>4, <2>5, ElsewhereCalm
<1>4. CASE DayPasses
  <2>1. ASSUME NEW a \in Addresses
        PROVE  /\ roster'[a].status = roster[a].status
               /\ roster'[a].build = roster[a].build
               /\ roster'[a].variant = roster[a].variant
               /\ roster'[a].held = roster[a].held
               /\ roster'[a].stamp = IF roster[a].stamp = "recent" THEN "old" ELSE roster[a].stamp
    <3>1. roster[a] \in Row
      BY <1>0
    <3> QED
      BY <1>4, <3>1 DEF DayPasses, Row
  <2>2. Mild
    BY <2>1 DEF Mild, Present
  <2>3. \A a \in Addresses : Closed(a) => Shut(a)'
    BY <2>1 DEF Closed, Shut
  <2> QED
    BY <2>2, <2>3, ElsewhereCalm
<1> QED
  BY <1>1, <1>2, <1>3, <1>4

\* So are the other steps of the sending side but the decision.
LEMMA SenderCalm ==
    ASSUME TypeInv, KeyInv, SenderNext,
           ~(\E s \in Senders : Claim(s) \/ Decide(s))
    PROVE  Calm
<1> USE DEF TypeInv
<1>1. CASE \E s \in Senders : WorkerStep(s)
  BY <1>1, WorkerCalm
<1>2. ASSUME NEW s \in Senders, SenderCrash(s)
      PROVE  Calm
  <2>1. HoldLess
    BY <1>2 DEF SenderCrash, WorkerOK, HoldLess, Holding, Busy
  <2> QED
    BY <1>2, <2>1, HoldMark, SameRoster DEF SenderCrash, rosterVars, providerVars
<1>3. CASE (\E s \in Senders : ListUndecided(s)) \/ \E a \in Addresses : Unsubscribe(a)
  <2>1. UNCHANGED <<step, batch, cur, submitted, roster>>
    BY <1>3 DEF ListUndecided, Unsubscribe, rosterVars, workerVars, providerVars
  <2>2. HoldLess
    BY <2>1 DEF HoldLess, Holding
  <2> QED
    BY <2>1, <2>2, HoldMark, SameRoster
<1>4. CASE Reap \/ Prune \/ DayPasses \/ \E a \in Addresses : LeaseExpires(a)
  <2>1. UNCHANGED <<step, batch, cur, submitted>>
    BY <1>4 DEF Reap, Prune, DayPasses, LeaseExpires, senderVars, workerVars, providerVars
  <2> QED
    BY <1>4, <2>1, RosterCalm DEF Prune, PruneCompletedRoster
<1>5. CASE \E key \in fading : ProviderForgets(key)
  <2>1. UNCHANGED <<step, batch, cur, submitted, roster>>
    BY <1>5 DEF ProviderForgets, rosterVars, workerVars
  <2>2. HoldLess
    BY <2>1 DEF HoldLess, Holding
  <2> QED
    BY <2>1, <2>2, HoldMark, SameRoster
<1> QED
  BY <1>1, <1>2, <1>3, <1>4, <1>5 DEF SenderNext

\* And the requests, but the three statements that fill the roster.
LEMMA RequestCalm ==
    ASSUME TypeInv, KeyInv, LaunchNext, UNCHANGED senderVars,
           ~(\E c \in Requests : Build(c) \/ Assign(c) \/ Hold(c))
    PROVE  Calm
<1>1. UNCHANGED <<step, batch, cur, submitted>>
  BY DEF senderVars, workerVars, providerVars
<1>2. ClearRoster \/ UNCHANGED roster
  BY DEF LaunchNext, RequestStep, LaunchReads, Begin, Clear, LaunchFails, Revert, Finish,
         SnapshotReads, DeleteMarks, DeleteClears, HandlerDies, Edit, Pause, Resume, Cancel,
         rosterVars
<1>3. HoldLess
  BY <1>1 DEF HoldLess, Holding
<1> QED
  BY <1>1, <1>2, <1>3, HoldMark, SameRoster, RosterCalm

-----------------------------------------------------------------------------
(* The steps that are not calm.                                             *)

\* Without edits the test stays on or off.
LEMMA TestStays ==
    ASSUME TypeInv, Undisturbed, Next
    PROVE  campaign'.test = campaign.test
<1>1. ~Edit
  BY LaunchBounds DEF Undisturbed, Edit, TypeInv, ApiOK
<1> QED
  BY <1>1, SenderMoves, LaunchMoves DEF Next

\* Before the launch is complete no key is in anybody's hands.
LEMMA NothingMarked ==
    ASSUME TypeInv, BeforeInv, ~Launched
    PROVE  \A k \in Keys : ~Marked(k)
BY DEF BeforeInv, TypeInv, WorkInv, Marked, Holding, Busy

\* Without previews the roster is filled before the launch is complete.
LEMMA FillsBefore ==
    ASSUME IInv, NEW c \in Requests, Build(c) \/ Assign(c) \/ Hold(c)
    PROVE  /\ ~Launched
           /\ \A a \in Addresses : roster'[a].status \in {"absent", "pending"}
<1>1. ~Launched
  BY DEF IInv, Exclusive, LaunchInv, Build, Assign, Hold, Launching, Launched
<1> QED
  BY <1>1, FillsPending DEF IInv

\* After the remainder is held every row has a variant or is held.
LEMMA HoldSplits ==
    ASSUME IInv, NEW c \in Requests, Hold(c)
    PROVE  Split'
<1>1. \A a \in Addresses : roster'[a].status \in {"absent", "pending"}
  BY FillsBefore DEF IInv
<1>2. ASSUME NEW a \in Addresses, roster'[a].status # "absent"
      PROVE  roster'[a].variant # NoVariant \/ roster'[a].held
  <2>1. roster[a] \in Row
    BY DEF IInv, TypeInv, StoreOK
  <2>2. roster'[a] = IF a \in Unassigned THEN [roster[a] EXCEPT !.held = TRUE] ELSE roster[a]
    BY DEF Hold, HoldRemainder
  <2>3. CASE a \in Unassigned
    BY <2>1, <2>2, <2>3 DEF Row
  <2>4. CASE a \notin Unassigned
    BY <1>1, <1>2, <2>2, <2>4 DEF Unassigned, Rows
  <2> QED
    BY <2>3, <2>4
<1> QED
  BY <1>2 DEF Split, Present

\* A decision touches rows that are held, and so in nobody's hands.
LEMMA DecideRows ==
    ASSUME IInv, NEW s \in Senders, Decide(s), NEW a \in Addresses, roster'[a] # roster[a]
    PROVE  /\ roster[a].held
           /\ roster[a].status = "pending"
           /\ roster'[a].status = "pending"
           /\ roster'[a].stamp = roster[a].stamp
           /\ ~roster'[a].held
<1>1. PICK w \in Variants : DecideABWinner(w)
  BY DEF Decide
<1>2. roster[a] \in Row
  BY DEF IInv, TypeInv, StoreOK
<1>3. /\ CanDecide
      /\ a \in Unassigned
      /\ roster'[a] = [roster[a] EXCEPT !.variant = w, !.held = FALSE]
  BY <1>1 DEF DecideABWinner
<1>4. roster[a].status = "pending" /\ roster[a].variant = NoVariant
  BY <1>3 DEF Unassigned, Rows
<1>5. Split
  BY <1>3 DEF IInv, TestInv, Decide, CanDecide, Launched
<1> QED
  BY <1>2, <1>3, <1>4, <1>5 DEF Split, Present, Row

\* Calm steps keep the split of a test.
LEMMA CalmSplit ==
    ASSUME Mild, Split
    PROVE  Split'
BY DEF Mild, Split, Present

\* What a claim does: it takes pending rows that nobody holds back, with their key.
LEMMA ClaimRows ==
    ASSUME TypeInv, NEW s \in Senders, Claim(s)
    PROVE  \E chosen \in SUBSET Claimable :
            /\ chosen \subseteq {a \in Addresses : roster[a].status = "pending" /\ ~roster[a].held}
            /\ batch' = [batch EXCEPT ![s] = {CopyOf(a) : a \in chosen}]
            /\ \A a \in Addresses :
                /\ roster'[a].build = roster[a].build
                /\ roster'[a].variant = roster[a].variant
                /\ roster'[a].held = roster[a].held
                /\ roster'[a].stamp = roster[a].stamp
                /\ roster'[a].status = IF a \in chosen THEN "processing" ELSE roster[a].status
<1>1. PICK chosen \in SUBSET Claimable :
            /\ ClaimSendableRecipients(chosen)
            /\ batch' = [batch EXCEPT ![s] = {CopyOf(a) : a \in chosen}]
  BY DEF Claim
<1>2. chosen \subseteq {a \in Addresses : roster[a].status = "pending" /\ ~roster[a].held}
  BY DEF Claimable, Rows
<1>3. ASSUME NEW a \in Addresses
      PROVE  /\ roster'[a].build = roster[a].build
             /\ roster'[a].variant = roster[a].variant
             /\ roster'[a].held = roster[a].held
             /\ roster'[a].stamp = roster[a].stamp
             /\ roster'[a].status = IF a \in chosen THEN "processing" ELSE roster[a].status
  <2>1. roster[a] \in Row
    BY DEF TypeInv, StoreOK
  <2> QED
    BY <1>1, <2>1 DEF ClaimSendableRecipients, Row
<1> QED
  BY <1>1, <1>2, <1>3

\* Whom a claim gives what.
LEMMA ClaimHolds ==
    ASSUME TypeInv, NEW s \in Senders, Claim(s), NEW t \in Senders, NEW r \in Copy,
           Holding(t, r)', ~Holding(t, r)
    PROVE  /\ r.to \in Addresses
           /\ KeyOf(r) = <<r.to, roster[r.to].build, roster[r.to].variant>>
           /\ roster[r.to].status = "pending"
           /\ ~roster[r.to].held
           /\ roster'[r.to].status = "processing"
<1>1. PICK chosen \in SUBSET Claimable :
            /\ chosen \subseteq {a \in Addresses : roster[a].status = "pending" /\ ~roster[a].held}
            /\ batch' = [batch EXCEPT ![s] = {CopyOf(a) : a \in chosen}]
            /\ \A a \in Addresses :
                roster'[a].status = IF a \in chosen THEN "processing" ELSE roster[a].status
  BY ClaimRows
<1>2. step \in [Senders -> WorkerSteps] /\ batch \in [Senders -> SUBSET Copy]
  BY DEF TypeInv, WorkerOK
<1>3. t = s /\ r \in {CopyOf(a) : a \in chosen}
  BY <1>1, <1>2 DEF Claim, Holding, Busy
<1>4. PICK a \in chosen : r = CopyOf(a)
  BY <1>3
<1> QED
  BY <1>1, <1>4 DEF CopyOf, KeyOf

-----------------------------------------------------------------------------
(* Every step keeps the invariant.                                          *)

\* Who is calm: everybody but the claim, the decision and the three statements
\* that fill the roster.
LEMMA CalmSteps ==
    ASSUME IInv, Next
    PROVE  \/ Calm
           \/ \E s \in Senders : Claim(s) /\ UNCHANGED launchVars
           \/ \E s \in Senders : Decide(s) /\ UNCHANGED launchVars
           \/ \E c \in Requests : (Build(c) \/ Assign(c) \/ Hold(c)) /\ UNCHANGED senderVars
BY SenderCalm, RequestCalm DEF IInv, Next

\* Every step keeps what the handlers know (LaunchInv).
LEMMA LaunchKept ==
    ASSUME IInv, Undisturbed, Next
    PROVE  LaunchInv'
<1>t. at \in [Requests -> HandlerSteps] /\ read \in [Requests -> Campaign] /\ campaign \in Campaign
  BY DEF IInv, TypeInv, ApiOK, StoreOK
<1>1. CASE SenderNext /\ UNCHANGED launchVars
  <2>0. UNCHANGED <<at, read>>
    BY <1>1 DEF launchVars
  <2>1. campaign'.test = campaign.test
    BY TestStays DEF IInv
  <2>2. ASSUME NEW c \in Requests, at[c] = "launch: finish", campaign.test
        PROVE  Split'
    <3>1. Split /\ campaign.status = "snapshotting" /\ ~Launched
      BY <2>2 DEF IInv, Exclusive, LaunchInv, Launching, Launched
    <3>2. ~(\E s \in Senders : Claim(s) \/ Decide(s))
      BY <3>1 DEF Claim, Claimable, Decide, IInv, BeforeInv
    <3>3. Calm
      BY <1>1, <3>2, SenderCalm DEF IInv
    <3> QED
      BY <3>1, <3>3, CalmSplit DEF Calm
  <2> QED
    BY <2>0, <2>1, <2>2 DEF IInv, LaunchInv
<1>2. CASE LaunchNext /\ UNCHANGED senderVars
  <2>1. campaign'.test = campaign.test
    BY TestStays DEF IInv
  <2>2. \A c \in Requests : read'[c].test = campaign'.test
    <3>1. \A c \in Requests : read'[c] \in {read[c], campaign}
      BY <1>2, <1>t DEF LaunchNext, RequestStep, LaunchReads, Begin, Clear, Build, Assign, Hold,
         LaunchFails, Revert, Finish, SnapshotReads, DeleteMarks, DeleteClears, HandlerDies,
         Edit, Pause, Resume, Cancel, launchVars
    <3> QED
      BY <2>1, <3>1 DEF IInv, LaunchInv
  <2>3. \A c \in Requests : at'[c] \notin {"preview: clear", "preview: build"}
    <3>1. ~\E c \in Requests : SnapshotReads(c)
      BY RequestsAssumption DEF Undisturbed, SnapshotReads, IInv, TypeInv, ApiOK
    <3>2. \A c \in Requests : at'[c] # at[c] => at'[c] \notin {"preview: clear", "preview: build"}
      <4>1. \A c \in Requests : at[c] # "preview: clear"
        BY DEF IInv, LaunchInv
      <4> QED
        BY <1>2, <1>t, <3>1, <4>1 DEF LaunchNext, RequestStep, LaunchReads, Begin, Clear, Build,
         Assign, Hold, LaunchFails, Revert, Finish, DeleteMarks, DeleteClears, HandlerDies, Goto,
         Edit, Pause, Resume, Cancel, launchVars
    <3> QED
      BY <3>2 DEF IInv, LaunchInv
  <2>4. ASSUME NEW d \in Requests, at'[d] = "launch: finish", campaign'.test
        PROVE  Split'
    <3>1. CASE at[d] = "launch: finish"
      <4>1. Split
        BY <2>1, <2>4, <3>1 DEF IInv, LaunchInv
      <4>2. ~\E c \in Requests : Build(c) \/ Assign(c) \/ Hold(c)
        <5>1. ASSUME NEW c \in Requests, Build(c) \/ Assign(c) \/ Hold(c)
              PROVE  FALSE
          <6>1. at[c] \in Launching /\ at[c] # "launch: finish"
            <7>1. at[c] # "preview: build"
              BY DEF IInv, LaunchInv
            <7>2. at[c] \in {"launch: build", "launch: assign", "launch: hold"}
              BY <5>1, <7>1 DEF Build, Assign, Hold
            <7> QED
              BY <7>2 DEF Launching
          <6>2. at[d] \in Launching
            BY <3>1 DEF Launching
          <6>3. OneLauncher
            BY DEF IInv, Exclusive
          <6>4. c = d
            BY <6>1, <6>2, <6>3 DEF OneLauncher
          <6> QED
            BY <3>1, <6>1, <6>4
        <5> QED
          BY <5>1
      <4>3. Calm
        BY <1>2, <4>2, RequestCalm DEF IInv
      <4> QED
        BY <4>1, <4>3, CalmSplit DEF Calm
    <3>2. CASE at[d] # "launch: finish"
      <4>1. Hold(d) \/ Assign(d)
        <5>1. PICK c \in Requests : RequestStep(c)
          BY <1>2, <2>4, <3>2 DEF LaunchNext, Edit, Pause, Resume, Cancel, launchVars
        <5>2. Hold(c) \/ Assign(c)
          BY <1>t, <2>4, <3>2, <5>1 DEF RequestStep, LaunchReads, Begin, Clear, Build,
             LaunchFails, Revert, Finish, SnapshotReads, DeleteMarks, DeleteClears, HandlerDies, Goto
        <5>3. c = d
          BY <1>t, <2>4, <3>2, <5>2 DEF Assign, Hold, Goto
        <5> QED
          BY <5>2, <5>3
      <4>2. ~Assign(d)
        <5>1. read[d].test
          BY <2>1, <2>4 DEF IInv, LaunchInv
        <5> QED
          BY <1>t, <2>4, <5>1 DEF Assign, Goto
      <4> QED
        BY <4>1, <4>2, HoldSplits
    <3> QED
      BY <3>1, <3>2
  <2> QED
    BY <2>2, <2>3, <2>4 DEF LaunchInv
<1> QED
  BY <1>1, <1>2 DEF Next

\* Every step keeps the split of a running test (TestInv).
LEMMA TestKept ==
    ASSUME IInv, Undisturbed, Next
    PROVE  TestInv'
<1>1. campaign'.test = campaign.test
  BY TestStays DEF IInv
<1>2. deciding' # {} => campaign'.test
  <2>1. CASE SenderNext
    <3>1. deciding' \subseteq deciding \/ \E s \in Senders : ListUndecided(s)
      BY <2>1 DEF SenderNext, WorkerStep, Claim, Finalize, LoadCampaignContext,
         EndBatch, GiveUp, CheckSendable, Refuse, Dispatch, MintFails, SendMarketingEmail,
         RecordOutcome, Settle, SenderCrash, Decide, Reap, Prune, LeaseExpires, Unsubscribe,
         DayPasses, ProviderForgets, senderVars, workerVars
    <3> QED
      BY <1>1, <3>1 DEF ListUndecided, IInv, TestInv
  <2>2. CASE UNCHANGED senderVars
    BY <1>1, <2>2 DEF senderVars, workerVars, IInv, TestInv
  <2> QED
    BY <2>1, <2>2 DEF Next
<1>3. ASSUME campaign'.test, campaign'.winner = NoVariant, Launched'
      PROVE  Split'
  <2>0. campaign \in Campaign /\ at \in [Requests -> HandlerSteps]
    BY DEF IInv, TypeInv, StoreOK, ApiOK
  <2>1. CASE SenderNext /\ UNCHANGED launchVars
    <3>1. campaign.winner = NoVariant /\ Launched
      <4>1. ASSUME NEW s \in Senders, Decide(s), campaign'.winner # campaign.winner
            PROVE  FALSE
        <5>1. PICK w \in Variants : DecideABWinner(w)
          BY <4>1 DEF Decide
        <5>2. campaign'.winner = w
          BY <2>0, <4>1, <5>1 DEF DecideABWinner, Campaign
        <5> QED
          BY <1>3, <5>2 DEF Variants, NoVariant
      <4>2. campaign.winner = NoVariant
        BY <1>3, <2>1, <4>1, SenderMoves DEF IInv
      <4>3. campaign.status # "sending" => campaign'.status = campaign.status
        BY <2>1, SenderMoves DEF IInv
      <4> QED
        BY <1>3, <4>2, <4>3 DEF Launched
    <3>2. Split
      BY <1>1, <1>3, <3>1 DEF IInv, TestInv
    <3>3. ASSUME NEW s \in Senders, Claim(s)
          PROVE  Split'
      <4>1. PICK chosen \in SUBSET Claimable : ClaimSendableRecipients(chosen)
        BY <3>3 DEF Claim
      <4>2. ASSUME NEW a \in Addresses
            PROVE  /\ roster[a].status = "absent" => roster'[a].status = "absent"
                   /\ roster'[a].variant = roster[a].variant
                   /\ roster'[a].held = roster[a].held
        <5>1. roster[a] \in Row
          BY DEF IInv, TypeInv, StoreOK
        <5> QED
          BY <4>1, <5>1 DEF ClaimSendableRecipients, Claimable, Rows, Row
      <4> QED
        BY <3>2, <4>2 DEF Split, Present
    <3>4. ASSUME NEW s \in Senders, Decide(s)
          PROVE  Split'
      <4>1. ~CanDecide
        <5>1. PICK w \in Variants : DecideABWinner(w)
          BY <3>4 DEF Decide
        <5>2. CanDecide => campaign'.winner = w
          BY <2>0, <5>1 DEF DecideABWinner, Campaign
        <5> QED
          BY <1>3, <5>2 DEF Variants, NoVariant
      <4>2. \A a \in Addresses : roster'[a] = roster[a]
        BY <3>4, <4>1 DEF Decide, DecideABWinner
      <4> QED
        BY <3>2, <4>2 DEF Split, Present
    <3> QED
      BY <2>1, <3>2, <3>3, <3>4, SenderCalm, CalmSplit DEF IInv, Calm
  <2>2. CASE LaunchNext /\ UNCHANGED senderVars
    <3>0. campaign.winner = NoVariant
      BY <1>3, <2>2, LaunchMoves DEF IInv
    <3>1. ~\E c \in Requests : Build(c) \/ Assign(c) \/ Hold(c)
      <4>1. ASSUME NEW c \in Requests, Build(c) \/ Assign(c) \/ Hold(c)
            PROVE  ~Launched'
        <5>1. UNCHANGED campaign
          BY <4>1 DEF Build, Assign, Hold
        <5> QED
          BY <4>1, <5>1, FillsBefore DEF Launched
      <4> QED
        BY <1>3, <4>1
    <3>2. Calm
      BY <2>2, <3>1, RequestCalm DEF IInv
    <3>3. Split
      <4>1. CASE Launched
        BY <1>1, <1>3, <3>0, <4>1 DEF IInv, TestInv
      <4>2. CASE ~Launched
        <5>1. \E c \in Requests : Finish(c)
          <6>1. CASE \E c \in Requests : Begin(c) \/ Revert(c)
            BY <1>3, <2>0, <4>2, <6>1 DEF Begin, Revert, BeginLaunch, RevertLaunch, SetStatus,
               CanSet, Campaign, Launched
          <6>2. CASE \E c \in Requests : DeleteMarks(c)
            BY <1>3, <2>0, <4>2, <6>2 DEF DeleteMarks, SoftDelete, Campaign, Launched
          <6>3. CASE Edit \/ Pause \/ Resume \/ Cancel
            BY <1>3, <2>0, <4>2, <6>3 DEF Edit, UpdateCampaign, Pause, Resume, Cancel, SetStatus,
               CanSet, Campaign, Launched
          <6>4. CASE \E c \in Requests :
                        \/ LaunchReads(c) \/ Clear(c) \/ Build(c) \/ Assign(c) \/ Hold(c)
                        \/ LaunchFails(c) \/ SnapshotReads(c) \/ DeleteClears(c) \/ HandlerDies(c)
            <7>1. UNCHANGED campaign
              BY <6>4 DEF LaunchReads, Clear, Build, Assign, Hold, LaunchFails, SnapshotReads,
                 DeleteClears, HandlerDies, rosterVars
            <7> QED
              BY <1>3, <4>2, <7>1 DEF Launched
          <6> QED
            BY <2>2, <6>1, <6>2, <6>3, <6>4 DEF LaunchNext, RequestStep
        <5> QED
          BY <1>1, <1>3, <5>1 DEF Finish, IInv, LaunchInv
      <4> QED
        BY <4>1, <4>2
    <3> QED
      BY <3>2, <3>3, CalmSplit DEF Calm
  <2> QED
    BY <2>1, <2>2 DEF Next
<1> QED
  BY <1>2, <1>3 DEF TestInv

\* Every step keeps the keys (KeyInv).
LEMMA KeyKept ==
    ASSUME IInv, Next
    PROVE  KeyInv'
<1>1. CASE Calm
  BY <1>1, CalmKeys DEF IInv, Calm
<1>2. ASSUME NEW s \in Senders, Claim(s)
      PROVE  KeyInv'
  <2>1. submitted' = submitted
    BY <1>2 DEF Claim, providerVars
  <2>2. ASSUME NEW k \in Keys, Marked(k)', ~Marked(k)
        PROVE  k[1] \in Addresses /\ ~roster[k[1]].held /\ Present(k[1])
               /\ k = <<k[1], roster[k[1]].build, roster[k[1]].variant>>
    <3>1. PICK t \in Senders, r \in Copy : Holding(t, r)' /\ k = KeyOf(r)
      BY <2>1, <2>2 DEF Marked, KeyOf
    <3>2. ~Holding(t, r)
      BY <2>2, <3>1 DEF Marked
    <3>3. /\ r.to \in Addresses
          /\ KeyOf(r) = <<r.to, roster[r.to].build, roster[r.to].variant>>
          /\ roster[r.to].status = "pending"
          /\ ~roster[r.to].held
      BY <1>2, <3>1, <3>2, ClaimHolds DEF IInv
    <3> QED
      BY <3>1, <3>3 DEF KeyOf, Present
  <2>3. ASSUME NEW a \in Addresses
        PROVE  /\ roster'[a].build = roster[a].build
               /\ roster'[a].variant = roster[a].variant
               /\ roster'[a].held = roster[a].held
               /\ roster[a].held => roster'[a].status = roster[a].status
               /\ Present(a)' => Present(a)
    BY <1>2, ClaimRows DEF IInv, Present
  <2>4. ASSUME NEW k \in Keys, Marked(k), Present(k[1])
        PROVE  /\ k = <<k[1], roster[k[1]].build, roster[k[1]].variant>>
               /\ ~roster[k[1]].held
    BY <2>4 DEF IInv, KeyInv, RowKey, Keys
  <2>5. OneKey'
    BY <2>2, <2>4 DEF OneKey, IInv, KeyInv
  <2>6. RowKey'
    <3> SUFFICES ASSUME NEW k \in Keys, Marked(k)', Present(k[1])'
        PROVE  roster'[k[1]].build = k[2] /\ roster'[k[1]].variant = k[3] /\ ~roster'[k[1]].held
      BY DEF RowKey
    <3>0. k[1] \in Addresses
      BY DEF Keys
    <3>1. /\ k = <<k[1], roster[k[1]].build, roster[k[1]].variant>>
          /\ ~roster[k[1]].held
      BY <2>2, <2>3, <2>4, <3>0
    <3> QED
      BY <2>3, <3>0, <3>1
  <2>7. HeldWaits'
    BY <2>3 DEF HeldWaits, IInv, KeyInv
  <2> QED
    BY <2>5, <2>6, <2>7 DEF KeyInv
<1>3. ASSUME NEW s \in Senders, Decide(s)
      PROVE  KeyInv'
  <2>1. UNCHANGED <<step, batch, cur, submitted>>
    BY <1>3 DEF Decide, providerVars
  <2>2. MarkedLess
    BY <2>1 DEF MarkedLess, Marked, Holding, KeyOf
  <2>3. OneKey'
    BY <2>2 DEF MarkedLess, OneKey, IInv, KeyInv
  <2>4. RowKey'
    <3> SUFFICES ASSUME NEW k \in Keys, Marked(k)', Present(k[1])'
        PROVE  roster'[k[1]].build = k[2] /\ roster'[k[1]].variant = k[3] /\ ~roster'[k[1]].held
      BY DEF RowKey
    <3>1. Marked(k) /\ k[1] \in Addresses
      BY <2>2 DEF MarkedLess, Keys
    <3>2. roster'[k[1]] = roster[k[1]]
      <4>1. ASSUME roster'[k[1]] # roster[k[1]]
            PROVE  FALSE
        <5>1. roster[k[1]].held /\ roster[k[1]].status = "pending"
          BY <1>3, <3>1, <4>1, DecideRows
        <5> QED
          BY <3>1, <5>1 DEF IInv, KeyInv, RowKey, Present
      <4> QED
        BY <4>1
    <3> QED
      BY <3>1, <3>2 DEF IInv, KeyInv, RowKey, Present
  <2>5. HeldWaits'
    BY <1>3, DecideRows DEF HeldWaits, IInv, KeyInv
  <2> QED
    BY <2>3, <2>4, <2>5 DEF KeyInv
<1>4. ASSUME NEW c \in Requests, Build(c) \/ Assign(c) \/ Hold(c), UNCHANGED senderVars
      PROVE  KeyInv'
  <2>1. ~Launched /\ \A a \in Addresses : roster'[a].status \in {"absent", "pending"}
    BY <1>4, FillsBefore
  <2>2. \A k \in Keys : ~Marked(k)
    BY <2>1, NothingMarked DEF IInv
  <2>3. \A k \in Keys : ~Marked(k)'
    BY <1>4, <2>2 DEF Marked, Holding, KeyOf, senderVars, workerVars, providerVars
  <2> QED
    BY <2>1, <2>3 DEF KeyInv, OneKey, RowKey, HeldWaits
<1> QED
  BY <1>1, <1>2, <1>3, <1>4, CalmSteps

\* Where a stamp is not lost, a worker that stamped its row sees it stamped.
LEMMA DispatchStamps ==
    ASSUME IInv, MaxLost = 0, NEW s \in Senders, Dispatch(s), roster'[cur[s].to].status # "absent"
    PROVE  roster'[cur[s].to].stamp # "never"
<1>1. cur[s] \in Copy /\ Holding(s, cur[s])
  BY DEF IInv, TypeInv, WorkInv, Dispatch, Holding, Busy
<1>2. MarkRecipientDispatched(cur[s])
  BY DEF Dispatch, Settle, Written, IInv, TypeInv, FaultOK
<1>3. cur[s].to \in Addresses /\ roster \in [Addresses -> Row] /\ KeyOf(cur[s]) \in Keys
  BY <1>1, CopyTypes DEF IInv, TypeInv, StoreOK, Copy
<1>4. roster[cur[s].to] \in Row
  BY <1>3
<1>5. roster'[cur[s].to] = IF Holds(cur[s]) /\ roster[cur[s].to].stamp = "never"
                           THEN [roster[cur[s].to] EXCEPT !.stamp = "recent"]
                           ELSE roster[cur[s].to]
  BY <1>2, <1>3 DEF MarkRecipientDispatched
<1>6. Present(cur[s].to)
  BY <1>4, <1>5 DEF Present, Row
<1>7. Marked(KeyOf(cur[s]))
  BY <1>1 DEF Marked
<1>8. Holds(cur[s])
  BY <1>3, <1>6, <1>7 DEF IInv, KeyInv, RowKey, KeyOf, Holds, Present
<1> QED
  BY <1>4, <1>5, <1>8 DEF Row

\* Every step keeps the stamps of what was submitted (StampInv).
LEMMA StampKept ==
    ASSUME IInv, Undisturbed, Next
    PROVE  StampInv'
<1> SUFFICES ASSUME MaxDays > 0
    PROVE  /\ \A k \in submitted' : roster'[k[1]].status # "absent" => roster'[k[1]].stamp # "never"
           /\ \A s \in Senders :
                step'[s] \in {"dispatched", "answered"} /\ roster'[cur'[s].to].status # "absent" =>
                    roster'[cur'[s].to].stamp # "never"
  BY DEF StampInv, Present
<1>t. /\ step \in [Senders -> WorkerSteps] /\ cur \in [Senders -> Copy \cup {NoCopy}]
      /\ submitted \in SUBSET Keys
  BY DEF IInv, TypeInv, WorkerOK, ProviderOK
<1>c. \A s \in Senders : step[s] \in Busy => cur[s].to \in Addresses
  BY DEF IInv, TypeInv, WorkInv, Copy
<1>l. MaxLost = 0
  BY SenderBounds DEF Undisturbed
<1>s. /\ \A k \in submitted : Present(k[1]) => roster[k[1]].stamp # "never"
      /\ \A s \in Senders : step[s] \in {"dispatched", "answered"} /\ Present(cur[s].to) =>
            roster[cur[s].to].stamp # "never"
  BY DEF IInv, StampInv
\* Rows that keep their stamp, workers that do not dispatch or submit.
<1>k. ASSUME \A a \in Addresses : roster'[a].status # "absent" =>
                Present(a) /\ (roster[a].stamp # "never" => roster'[a].stamp # "never")
      PROVE  /\ \A k \in submitted : roster'[k[1]].status # "absent" => roster'[k[1]].stamp # "never"
             /\ \A s \in Senders : step[s] \in {"dispatched", "answered"} /\ roster'[cur[s].to].status # "absent" =>
                    roster'[cur[s].to].stamp # "never"
  BY <1>k, <1>s, <1>t, <1>c DEF Keys, Busy
<1>m. Mild => \A a \in Addresses : roster'[a].status # "absent" =>
                Present(a) /\ (roster[a].stamp # "never" => roster'[a].stamp # "never")
  BY DEF Mild, Present
<1>1. CASE SenderNext
  <2>1. ASSUME NEW s \in Senders, Claim(s)
        PROVE  \A a \in Addresses : roster'[a].status # "absent" =>
                Present(a) /\ (roster[a].stamp # "never" => roster'[a].stamp # "never")
    BY <2>1, ClaimRows DEF IInv, Present
  <2>2. ASSUME NEW s \in Senders, Decide(s)
        PROVE  \A a \in Addresses : roster'[a].status # "absent" =>
                Present(a) /\ (roster[a].stamp # "never" => roster'[a].stamp # "never")
    BY <2>2, DecideRows DEF Present
  <2>3. /\ \A k \in submitted : roster'[k[1]].status # "absent" => roster'[k[1]].stamp # "never"
        /\ \A s \in Senders : step[s] \in {"dispatched", "answered"} /\ roster'[cur[s].to].status # "absent" =>
                    roster'[cur[s].to].stamp # "never"
    BY <1>1, <1>k, <1>m, <2>1, <2>2, SenderCalm DEF IInv, Calm
  <2>4. CASE \E s \in Senders : SendMarketingEmail(s)
    <3>1. PICK s \in Senders : SendMarketingEmail(s)
      BY <2>4
    <3>2. UNCHANGED <<roster, cur>> /\ submitted' = submitted \cup {KeyOf(cur[s])}
      BY <3>1 DEF SendMarketingEmail, rosterVars
    <3>3. step[s] = "dispatched" /\ step' = [step EXCEPT ![s] = "answered"]
      BY <3>1 DEF SendMarketingEmail
    <3> QED
      BY <1>t, <2>3, <3>2, <3>3 DEF KeyOf
  <2>5. CASE \E s \in Senders : Dispatch(s)
    <3>1. PICK s \in Senders : Dispatch(s)
      BY <2>5
    <3>2. UNCHANGED <<cur, submitted>> /\ step' = [step EXCEPT ![s] = "dispatched"]
      BY <3>1 DEF Dispatch, Settle, providerVars
    <3>3. roster'[cur[s].to].status # "absent" => roster'[cur[s].to].stamp # "never"
      BY <3>1, <1>l, DispatchStamps, <3>2 DEF Present
    <3> QED
      BY <1>t, <2>3, <3>2, <3>3 DEF Present
  <2>6. CASE ~\E s \in Senders : SendMarketingEmail(s) \/ Dispatch(s)
    <3>1. UNCHANGED submitted
      BY <1>1, <2>6 DEF SenderNext, WorkerStep, Claim, Finalize, LoadCampaignContext,
         EndBatch, GiveUp, CheckSendable, Refuse, MintFails, RecordOutcome, Settle, SenderCrash,
         ListUndecided, Decide, Reap, Prune, LeaseExpires, Unsubscribe, DayPasses,
         ProviderForgets, senderVars, providerVars
    <3>2. \A s \in Senders : step'[s] \in {"dispatched", "answered"} =>
            step[s] = step'[s] /\ cur'[s] = cur[s]
      BY <1>1, <1>t, <2>6 DEF SenderNext, WorkerStep, Claim, Finalize, LoadCampaignContext,
         EndBatch, GiveUp, CheckSendable, Refuse, MintFails, RecordOutcome, Settle, SenderCrash,
         ListUndecided, Decide, Reap, Prune, LeaseExpires, Unsubscribe, DayPasses,
         ProviderForgets, senderVars, workerVars
    <3> QED
      BY <2>3, <3>1, <3>2 DEF Present
  <2> QED
    BY <2>4, <2>5, <2>6
<1>2. CASE LaunchNext /\ UNCHANGED senderVars
  <2>1. UNCHANGED <<step, cur, submitted>>
    BY <1>2 DEF senderVars, workerVars, providerVars
  <2>2. CASE \E c \in Requests : Build(c) \/ Assign(c) \/ Hold(c)
    <3>1. ~Launched
      BY <2>2, FillsBefore
    <3> QED
      BY <2>1, <3>1 DEF IInv, BeforeInv
  <2>3. CASE ~\E c \in Requests : Build(c) \/ Assign(c) \/ Hold(c)
    <3>1. Mild
      BY <1>2, <2>3, RequestCalm DEF IInv, Calm
    <3> QED
      BY <1>k, <1>m, <2>1, <3>1 DEF Present
  <2> QED
    BY <2>2, <2>3
<1> QED
  BY <1>1, <1>2 DEF Next

\* What is closed stays closed once the campaign is launched.
LEMMA ClosedStays ==
    ASSUME IInv, Next, Launched
    PROVE  ClosedKept
<1>1. CASE Calm
  BY <1>1 DEF Calm
<1>2. ASSUME NEW s \in Senders, Claim(s)
      PROVE  ClosedKept
  <2> SUFFICES ASSUME NEW a \in Addresses, Closed(a)
      PROVE  Closed(a)'
    BY DEF ClosedKept
  <2>1. roster[a].status # "pending"
    BY DEF Closed, Shut
  <2>2. Unheld(a)'
    <3> SUFFICES ASSUME NEW t \in Senders, NEW r \in Copy, Holding(t, r)', r.to = a
        PROVE  FALSE
      BY DEF Unheld
    <3>1. ~Holding(t, r)
      BY DEF Closed, Unheld
    <3> QED
      BY <1>2, <2>1, <3>1, ClaimHolds DEF IInv
  <2>3. roster'[a].status = roster[a].status /\ roster'[a].stamp = roster[a].stamp
    BY <1>2, <2>1, ClaimRows DEF IInv
  <2> QED
    BY <2>2, <2>3 DEF Closed, Shut
<1>3. ASSUME NEW s \in Senders, Decide(s)
      PROVE  ClosedKept
  <2> SUFFICES ASSUME NEW a \in Addresses, Closed(a)
      PROVE  Closed(a)'
    BY DEF ClosedKept
  <2>1. roster'[a] = roster[a]
    BY <1>3, DecideRows DEF Closed, Shut
  <2>2. UNCHANGED <<step, batch, cur>>
    BY <1>3 DEF Decide
  <2> QED
    BY <2>1, <2>2 DEF Closed, Unheld, Shut, Holding
<1>4. ~\E c \in Requests : Build(c) \/ Assign(c) \/ Hold(c)
  BY FillsBefore
<1> QED
  BY <1>1, <1>2, <1>3, <1>4, CalmSteps

\* A day passes only over closed addresses, of those that were submitted.
LEMMA DayCloses ==
    ASSUME IInv, Undisturbed, DayPasses, NEW k \in submitted
    PROVE  Closed(k[1])'
<1>1. k \in Keys /\ k[1] \in Addresses
  BY DEF IInv, TypeInv, ProviderOK, Keys
<1>2. MaxDays > 0 /\ Quiet /\ \A a \in Addresses : ~Tried(a)
  BY SenderBounds DEF IInv, TypeInv, FaultOK, DayPasses, Undisturbed
<1>3. Unheld(k[1])'
  <2>1. \A s \in Senders : \A r \in Copy : ~Holding(s, r)
    BY <1>2 DEF Quiet, IInv, TypeInv, WorkInv, Holding, Busy
  <2> QED
    BY <2>1 DEF Unheld, Holding, DayPasses, workerVars
<1>4. roster[k[1]] \in Row
  BY <1>1 DEF IInv, TypeInv, StoreOK
<1>5. roster'[k[1]] = [roster[k[1]] EXCEPT !.stamp = IF roster[k[1]].stamp = "recent"
                                                     THEN "old" ELSE roster[k[1]].stamp]
  BY <1>1 DEF DayPasses
<1>6. roster[k[1]].status # "absent" => roster[k[1]].stamp # "never"
  BY <1>2 DEF IInv, StampInv, Present
<1>7. ~Tried(k[1])
  BY <1>1, <1>2
<1>8. /\ roster'[k[1]].status = roster[k[1]].status
      /\ roster'[k[1]].stamp = IF roster[k[1]].stamp = "recent"
                               THEN "old" ELSE roster[k[1]].stamp
  BY <1>4, <1>5 DEF Row
<1>9. /\ roster[k[1]].status \in {"absent", "pending", "processing", "sent", "failed", "suppressed"}
      /\ roster[k[1]].stamp \in {"never", "recent", "old"}
  BY <1>4 DEF Row, RecipientStatuses
<1>10. Shut(k[1])'
  BY <1>6, <1>7, <1>8, <1>9 DEF Tried, Shut
<1> QED
  BY <1>3, <1>10 DEF Closed

\* Every step keeps the deliveries single (DeliverInv).
LEMMA DeliverKept ==
    ASSUME IInv, Undisturbed, Next
    PROVE  DeliverInv'
<1>d. /\ fading \subseteq remembered
      /\ remembered \subseteq submitted
      /\ \A k \in fading : Closed(k[1])
      /\ \A a \in Addresses : delivered[a] # 0 =>
            /\ delivered[a] = 1
            /\ \E k \in submitted : k[1] = a /\ (k \in remembered \/ Closed(a))
  BY DEF IInv, DeliverInv
<1>t. /\ submitted \in SUBSET Keys /\ remembered \in SUBSET Keys /\ fading \in SUBSET Keys
      /\ delivered \in [Addresses -> 0..2]
      /\ \A k \in Keys : k[1] \in Addresses
  BY DEF IInv, TypeInv, ProviderOK, Keys
<1>1. CASE ~Launched
  <2>1. submitted = {} /\ \A s \in Senders : step[s] = "idle"
    BY <1>1 DEF IInv, BeforeInv
  <2>2. remembered = {} /\ fading = {} /\ \A a \in Addresses : delivered[a] = 0
    BY <1>d, <2>1
  <2>3. ~\E s \in Senders : SendMarketingEmail(s)
    BY <2>1 DEF SendMarketingEmail
  <2>4. submitted' = {} /\ remembered' = {} /\ fading' = {} /\ delivered' = delivered
    BY <2>1, <2>2, <2>3 DEF Next, SenderNext, WorkerStep, Claim, Finalize, LoadCampaignContext,
       EndBatch, GiveUp, CheckSendable, Refuse, Dispatch, MintFails, RecordOutcome, Settle,
       SenderCrash, ListUndecided, Decide, Reap, Prune, LeaseExpires, Unsubscribe, DayPasses,
       ProviderForgets, senderVars, providerVars
  <2> QED
    BY <2>2, <2>4 DEF DeliverInv
<1>2. CASE Launched
  <2>c. ClosedKept
    BY <1>2, ClosedStays
  <2>1. ASSUME NEW s \in Senders, SendMarketingEmail(s)
        PROVE  DeliverInv'
    <3> DEFINE key == KeyOf(cur[s])
               to == cur[s].to
    <3>1. cur[s] \in Copy /\ Holding(s, cur[s])
      BY <2>1 DEF IInv, TypeInv, WorkInv, SendMarketingEmail, Holding, Busy
    <3>2. key \in Keys /\ to \in Addresses /\ key[1] = to /\ Marked(key)
      BY <3>1, CopyTypes DEF IInv, Copy, KeyOf, Marked
    <3>3. submitted' = submitted \cup {key} /\ fading' = fading
      BY <2>1 DEF SendMarketingEmail
    <3>4. \/ remembered' = remembered /\ delivered' = delivered
          \/ /\ remembered' = remembered \cup {key}
             /\ delivered' = IF key \in remembered THEN delivered
                             ELSE [delivered EXCEPT ![to] = IF delivered[to] = 0 THEN 1 ELSE 2]
      BY <2>1 DEF SendMarketingEmail, Deliver
    <3>5. fading' \subseteq remembered' /\ remembered' \subseteq submitted'
      BY <1>d, <3>3, <3>4
    <3>6. \A k \in fading' : Closed(k[1])'
      BY <1>d, <1>t, <2>c, <3>3 DEF ClosedKept
    <3>7. \A a \in Addresses : delivered[a] # 0 =>
            /\ delivered[a] = 1
            /\ \E k \in submitted' : k[1] = a /\ (k \in remembered' \/ Closed(a)')
      <4>1. remembered \subseteq remembered' /\ submitted \subseteq submitted'
        BY <3>3, <3>4
      <4> QED
        BY <1>d, <2>c, <4>1 DEF ClosedKept
    \* A key that is new to the provider belongs to an address it never mailed.
    <3>8. key \notin remembered => delivered[to] = 0
      <4> SUFFICES ASSUME key \notin remembered, delivered[to] # 0
          PROVE  FALSE
        OBVIOUS
      <4>1. PICK k \in submitted : k[1] = to /\ (k \in remembered \/ Closed(to))
        BY <1>d, <3>2
      <4>2. ~Closed(to)
        BY <3>1 DEF Closed, Unheld
      <4>3. k \in remembered /\ Marked(k) /\ k \in Keys
        BY <1>t, <4>1, <4>2 DEF Marked
      <4>4. k = key
        BY <3>2, <4>1, <4>3 DEF IInv, KeyInv, OneKey
      <4> QED
        BY <4>3, <4>4
    <3>9. CASE delivered' = delivered
      BY <3>5, <3>6, <3>7, <3>9 DEF DeliverInv
    <3>10. CASE delivered' # delivered
      <4>1. /\ key \notin remembered
            /\ remembered' = remembered \cup {key}
            /\ delivered' = [delivered EXCEPT ![to] = 1]
        BY <3>4, <3>8, <3>10
      <4>2. delivered'[to] = 1 /\ key \in submitted' /\ key \in remembered'
        BY <1>t, <3>2, <3>3, <4>1
      <4>3. \A a \in Addresses : a # to => delivered'[a] = delivered[a]
        BY <1>t, <4>1
      <4>4. ASSUME NEW a \in Addresses, delivered'[a] # 0
            PROVE  /\ delivered'[a] = 1
                   /\ \E k \in submitted' : k[1] = a /\ (k \in remembered' \/ Closed(a)')
        <5>1. CASE a = to
          BY <3>2, <4>2, <5>1
        <5>2. CASE a # to
          BY <3>7, <4>3, <4>4, <5>2
        <5> QED
          BY <5>1, <5>2
      <4> QED
        BY <3>5, <3>6, <4>4 DEF DeliverInv
    <3> QED
      BY <3>9, <3>10
  <2>2. CASE DayPasses
    <3>1. UNCHANGED <<submitted, remembered, delivered>> /\ fading' = remembered
      BY <2>2 DEF DayPasses
    <3>2. \A k \in submitted : Closed(k[1])'
      BY <2>2, DayCloses
    <3>3. \A a \in Addresses : delivered[a] # 0 =>
            /\ delivered[a] = 1
            /\ \E k \in submitted : k[1] = a /\ (k \in remembered \/ Closed(a)')
      BY <1>d, <2>c DEF ClosedKept
    <3> QED
      BY <1>d, <3>1, <3>2, <3>3 DEF DeliverInv
  <2>3. ASSUME NEW key \in fading, ProviderForgets(key)
        PROVE  DeliverInv'
    <3>1. /\ UNCHANGED <<submitted, delivered>>
          /\ remembered' = remembered \ {key}
          /\ fading' = fading \ {key}
      BY <2>3 DEF ProviderForgets
    <3>2. Closed(key[1])'
      BY <1>d, <1>t, <2>c DEF ClosedKept
    <3>3. \A k \in fading' : Closed(k[1])'
      BY <1>d, <1>t, <2>c, <3>1 DEF ClosedKept
    <3>4. ASSUME NEW a \in Addresses, delivered[a] # 0
          PROVE  /\ delivered[a] = 1
                 /\ \E k \in submitted : k[1] = a /\ (k \in remembered' \/ Closed(a)')
      <4>1. PICK k \in submitted : k[1] = a /\ (k \in remembered \/ Closed(a))
        BY <1>d, <3>4
      <4>2. k \in remembered' \/ Closed(a)'
        BY <2>c, <3>1, <3>2, <4>1 DEF ClosedKept
      <4> QED
        BY <1>d, <3>4, <4>1, <4>2
    <3> QED
      BY <1>d, <3>1, <3>3, <3>4 DEF DeliverInv
  <2>4. CASE ~((\E s \in Senders : SendMarketingEmail(s)) \/ DayPasses
               \/ \E key \in fading : ProviderForgets(key))
    <3>1. UNCHANGED providerVars
      BY <2>4 DEF Next, SenderNext, WorkerStep, Claim, Finalize, LoadCampaignContext,
         EndBatch, GiveUp, CheckSendable, Refuse, Dispatch, MintFails, RecordOutcome, Settle,
         SenderCrash, ListUndecided, Decide, Reap, Prune, LeaseExpires, Unsubscribe, senderVars
    <3>2. UNCHANGED <<submitted, remembered, fading, delivered>>
      BY <3>1 DEF providerVars
    <3>3. \A k \in fading : Closed(k[1])'
      BY <1>d, <1>t, <2>c DEF ClosedKept
    <3>4. \A a \in Addresses : delivered[a] # 0 =>
            /\ delivered[a] = 1
            /\ \E k \in submitted : k[1] = a /\ (k \in remembered \/ Closed(a)')
      BY <1>d, <2>c DEF ClosedKept
    <3> QED
      BY <1>d, <3>2, <3>3, <3>4 DEF DeliverInv
  <2> QED
    BY <2>1, <2>2, <2>3, <2>4
<1> QED
  BY <1>1, <1>2

-----------------------------------------------------------------------------
\* The invariant holds at first.
LEMMA InvInit == Undisturbed /\ Init => IInv
<1> SUFFICES ASSUME Init PROVE IInv
  OBVIOUS
<1>1. TypeInv
  BY TypeInit
<1>2. campaign.status = "draft" /\ ~Launched
  BY DEF Init, RosterInit, Launched
<1>3. LaunchInv
  BY DEF Init, LaunchInit, LaunchInv
<1>4. Exclusive /\ BeforeInv
  BY BeforeInit DEF Init, LaunchInit, Exclusive, OneLauncher, Launching
<1>5. TestInv
  BY <1>2 DEF Init, SenderInit, TestInv
<1>6. KeyInv
  <2>1. \A k \in Keys : ~Marked(k)
    BY <1>1, <1>2, <1>4, NothingMarked
  <2> QED
    BY <2>1 DEF KeyInv, OneKey, RowKey, HeldWaits, Init, RosterInit, NoRow, NewRow
<1>7. StampInv
  BY DEF StampInv, Init, SenderInit
<1>8. DeliverInv
  BY DEF DeliverInv, Init, SenderInit
<1> QED
  BY <1>1, <1>3, <1>4, <1>5, <1>6, <1>7, <1>8 DEF IInv

\* Every step keeps the invariant.
LEMMA InvStep == Undisturbed /\ IInv /\ [Next]_vars => IInv'
<1> SUFFICES ASSUME Undisturbed, IInv, [Next]_vars PROVE IInv'
  OBVIOUS
<1>1. CASE Next
  BY <1>1, TypeStep, ExclusiveKept, LaunchKept, BeforeKept, TestKept, KeyKept, StampKept, DeliverKept
     DEF IInv
<1>2. CASE UNCHANGED vars
  <2>0. TypeInv'
    BY <1>2, TypeStep DEF IInv
  <2>1. Exclusive' /\ LaunchInv' /\ BeforeInv' /\ TestInv'
    BY <1>2 DEF IInv, Exclusive, LaunchInv, BeforeInv, TestInv, OneLauncher, Split, Present, Launched, vars,
       rosterVars, senderVars, workerVars, providerVars, launchVars
  <2>2. KeyInv' /\ StampInv' /\ DeliverInv'
    BY <1>2 DEF IInv, KeyInv, OneKey, RowKey, HeldWaits, StampInv, DeliverInv, Closed, Unheld,
       Shut, Marked, Holding, Present, KeyOf, vars, rosterVars, senderVars, workerVars,
       providerVars
  <2> QED
    BY <2>0, <2>1, <2>2 DEF IInv
<1> QED
  BY <1>1, <1>2

\* The invariant always holds.
LEMMA InvAlways == ASSUME Undisturbed PROVE Spec => []IInv
BY InvInit, InvStep, PTL DEF Spec

\* Nobody gets a campaign twice, whatever answers are lost, whichever workers die and
\* however many take the rows of one another (within the limits of Undisturbed).
THEOREM DeliveredOnce == ASSUME Undisturbed PROVE Spec => []NoDoubleDelivery
<1>1. IInv => NoDoubleDelivery
  BY DEF IInv, DeliverInv, NoDoubleDelivery
<1> QED
  BY <1>1, InvAlways, PTL

\* No roster row is ever submitted under two idempotency keys.
THEOREM RowsKeepTheirKey == ASSUME Undisturbed PROVE Spec => []OneKeyPerRow
<1>1. IInv => OneKeyPerRow
  <2> SUFFICES ASSUME IInv, NEW j \in submitted, NEW k \in submitted, j[1] = k[1]
      PROVE  j[3] = k[3]
    BY DEF OneKeyPerRow
  <2>1. j \in Keys /\ k \in Keys /\ Marked(j) /\ Marked(k)
    BY DEF IInv, TypeInv, ProviderOK, Marked
  <2> QED
    BY <2>1 DEF IInv, KeyInv, OneKey
<1> QED
  BY <1>1, InvAlways, PTL

-----------------------------------------------------------------------------
(* The remainder of an A/B campaign.                                        *)

\* Under an undecided test only rows with a variant are in anybody's hands; held
\* rows have none; and nothing is held after the decision.
RestInv ==
    /\ campaign.test /\ campaign.winner = NoVariant =>
            \A k \in Keys : Marked(k) => k[3] # NoVariant
    /\ \A a \in Addresses : Present(a) /\ roster[a].held => roster[a].variant = NoVariant
    /\ campaign.winner # NoVariant =>
            Launched /\ \A a \in Addresses : Present(a) => ~roster[a].held
    /\ \A c \in Requests : at[c] \in {"launch: build", "launch: assign", "launch: hold"} =>
            \A a \in Addresses : Present(a) => ~roster[a].held

\* A calm step, or a claim, holds nothing back that was not held before.
LEMMA RestCalm ==
    ASSUME IInv, RestInv, Undisturbed, Next,
           ~(\E s \in Senders : Decide(s)), ~(\E c \in Requests : Build(c) \/ Assign(c) \/ Hold(c))
    PROVE  RestInv'
<1>1. campaign'.test = campaign.test
  BY TestStays DEF IInv
<1>2. campaign'.winner = campaign.winner /\ (Launched => Launched')
  BY SenderMoves, LaunchMoves DEF IInv, Next
<1>3. ASSUME NEW a \in Addresses, Present(a)'
      PROVE  /\ Present(a)
             /\ roster'[a].held = roster[a].held
             /\ roster'[a].variant = roster[a].variant
  <2>1. CASE Calm
    BY <1>3, <2>1 DEF Calm, Mild, Present
  <2>2. CASE \E s \in Senders : Claim(s)
    BY <1>3, <2>2, ClaimRows DEF IInv, Present
  <2> QED
    BY <2>1, <2>2, CalmSteps
<1>4. ASSUME campaign.test, campaign.winner = NoVariant, NEW k \in Keys, Marked(k)'
      PROVE  k[3] # NoVariant
  <2>1. CASE Marked(k)
    BY <1>4, <2>1 DEF RestInv
  <2>2. CASE ~Marked(k)
    <3>1. PICK s \in Senders : Claim(s)
      BY <1>4, <2>2, CalmSteps DEF Calm, MarkedLess
    <3>2. submitted' = submitted /\ Launched
      BY <3>1 DEF Claim, providerVars, Claimable, Launched
    <3>3. PICK t \in Senders, r \in Copy : Holding(t, r)' /\ k = KeyOf(r)
      BY <1>4, <2>2, <3>2 DEF Marked, KeyOf
    <3>4. ~Holding(t, r)
      BY <2>2, <3>3 DEF Marked
    <3>5. /\ r.to \in Addresses
          /\ KeyOf(r) = <<r.to, roster[r.to].build, roster[r.to].variant>>
          /\ roster[r.to].status = "pending"
          /\ ~roster[r.to].held
      BY <3>1, <3>3, <3>4, ClaimHolds DEF IInv
    <3>6. roster[r.to].variant # NoVariant
      BY <1>4, <3>2, <3>5 DEF IInv, TestInv, Split, Present
    <3> QED
      BY <3>3, <3>5, <3>6
  <2> QED
    BY <2>1, <2>2
<1>5. ASSUME NEW c \in Requests, at'[c] \in {"launch: build", "launch: assign", "launch: hold"},
             NEW a \in Addresses, Present(a)'
      PROVE  ~roster'[a].held
  <2>0. at \in [Requests -> HandlerSteps]
    BY DEF IInv, TypeInv, ApiOK
  <2>1. at'[c] = at[c] \/ Clear(c)
    <3>1. CASE UNCHANGED at
      BY <3>1
    <3>2. ASSUME NEW q \in Requests, Clear(q) PROVE at'[c] = at[c] \/ Clear(c)
      BY <2>0, <3>2 DEF Clear, Goto
    <3>3. ASSUME NEW q \in Requests, NEW to, Goto(q, to),
                 to \notin {"launch: build", "launch: assign", "launch: hold"}
          PROVE  at'[c] = at[c]
      BY <1>5, <2>0, <3>3 DEF Goto
    <3>4. ASSUME NEW q \in Requests, RequestStep(q)
          PROVE  \/ Clear(q)
                 \/ \E to : /\ to \notin {"launch: build", "launch: assign", "launch: hold"}
                            /\ Goto(q, to)
      <4>1. CASE LaunchReads(q) \/ Begin(q) \/ SnapshotReads(q) \/ DeleteMarks(q) \/ DeleteClears(q)
        BY <4>1 DEF LaunchReads, Begin, SnapshotReads, DeleteMarks, DeleteClears
      <4>2. CASE LaunchFails(q) \/ Revert(q) \/ Finish(q) \/ HandlerDies(q)
        BY <4>2 DEF LaunchFails, Revert, Finish, HandlerDies
      <4> QED
        BY <3>4, <4>1, <4>2 DEF RequestStep
    <3>5. UNCHANGED at \/ \E q \in Requests : RequestStep(q)
      BY DEF Next, LaunchNext, Edit, Pause, Resume, Cancel, launchVars
    <3> QED
      BY <3>1, <3>2, <3>3, <3>4, <3>5
  <2>2. CASE Clear(c)
    BY <1>5, <2>2 DEF Clear, ClearRoster, NoRow, NewRow, Present
  <2>3. CASE at'[c] = at[c]
    BY <1>3, <1>5, <2>3 DEF RestInv
  <2> QED
    BY <2>1, <2>2, <2>3
<1> QED
  BY <1>1, <1>2, <1>3, <1>4, <1>5 DEF RestInv

\* Every step keeps what is held back (RestInv).
LEMMA RestKept ==
    ASSUME IInv, RestInv, Undisturbed, Next
    PROVE  RestInv'
<1>t. /\ campaign \in Campaign /\ roster \in [Addresses -> Row]
      /\ at \in [Requests -> HandlerSteps]
  BY DEF IInv, TypeInv, StoreOK, ApiOK
<1>1. ASSUME NEW s \in Senders, Decide(s), UNCHANGED launchVars
      PROVE  RestInv'
  <2>1. PICK w \in Variants : DecideABWinner(w)
    BY <1>1 DEF Decide
  <2>2. UNCHANGED <<step, batch, cur, submitted, at>>
    BY <1>1 DEF Decide, providerVars, launchVars
  <2>3. CASE CanDecide
    <3>1. campaign'.winner = w /\ w # NoVariant /\ campaign'.status = campaign.status
      BY <1>t, <2>1, <2>3 DEF DecideABWinner, Campaign, Variants, NoVariant
    <3>2. Launched' /\ Launched
      BY <2>3, <3>1 DEF Launched, CanDecide
    <3>3. ASSUME NEW a \in Addresses, Present(a)'
          PROVE  ~roster'[a].held
      <4>1. CASE roster'[a] # roster[a]
        BY <1>1, <4>1, DecideRows
      <4>2. CASE roster'[a] = roster[a]
        <5>1. SUFFICES ASSUME roster[a].held PROVE FALSE
          BY <4>2
        <5>2. a \in Unassigned
          BY <3>3, <4>2, <5>1 DEF RestInv, IInv, KeyInv, HeldWaits, Present, Unassigned, Rows
        <5>3. roster'[a] = [roster[a] EXCEPT !.variant = w, !.held = FALSE]
          BY <2>1, <2>3, <5>2 DEF DecideABWinner
        <5> QED
          BY <1>t, <4>2, <5>1, <5>3 DEF Row
      <4> QED
        BY <4>1, <4>2
    <3> QED
      BY <3>1, <3>2, <3>3 DEF RestInv
  <2>4. CASE ~CanDecide
    <3>1. UNCHANGED campaign /\ \A a \in Addresses : roster'[a] = roster[a]
      BY <2>1, <2>4 DEF DecideABWinner
    <3> QED
      BY <2>2, <3>1 DEF RestInv, Marked, Holding, KeyOf, Launched, Present
  <2> QED
    BY <2>3, <2>4
<1>2. ASSUME NEW c \in Requests, Build(c) \/ Assign(c) \/ Hold(c), UNCHANGED senderVars
      PROVE  RestInv'
  <2>1. ~Launched /\ UNCHANGED campaign
    BY <1>2, FillsBefore DEF Build, Assign, Hold
  <2>2. \A k \in Keys : ~Marked(k)'
    <3>1. \A k \in Keys : ~Marked(k)
      BY <2>1, NothingMarked DEF IInv
    <3> QED
      BY <1>2, <3>1 DEF Marked, Holding, KeyOf, senderVars, workerVars, providerVars
  <2>3. campaign.winner = NoVariant
    BY <2>1 DEF RestInv
  <2>4. at[c] \in {"launch: build", "launch: assign", "launch: hold"}
    BY <1>2 DEF Build, Assign, Hold, IInv, LaunchInv
  <2>5. \A a \in Addresses : Present(a) => ~roster[a].held
    BY <2>4 DEF RestInv
  <2>6. CASE Build(c)
    <3>1. \A a \in Addresses : roster'[a] = roster[a] \/ roster'[a] = FreshRow(builds + 1)
      BY <2>6 DEF Build, SnapshotRoster
    <3>2. \A a \in Addresses : Present(a)' => ~roster'[a].held
      BY <2>5, <3>1 DEF Present, FreshRow, NewRow
    <3> QED
      BY <2>1, <2>2, <2>3, <3>2 DEF RestInv
  <2>7. CASE Assign(c)
    <3>1. ASSUME NEW a \in Addresses, Present(a)'
          PROVE  ~roster'[a].held
      <4>1. roster[a] \in Row /\ (UNCHANGED roster \/ AssignABTestCells)
        BY <1>t, <2>7 DEF Assign
      <4> QED
        BY <2>5, <3>1, <4>1, CellRows DEF Present, Row
    <3> QED
      BY <2>1, <2>2, <2>3, <3>1 DEF RestInv
  <2>8. CASE Hold(c)
    <3>1. ASSUME NEW a \in Addresses, Present(a)', roster'[a].held
          PROVE  roster'[a].variant = NoVariant
      <4>1. /\ roster[a] \in Row
            /\ roster'[a] = IF a \in Unassigned THEN [roster[a] EXCEPT !.held = TRUE] ELSE roster[a]
        BY <1>t, <2>8 DEF Hold, HoldRemainder
      <4> QED
        BY <2>5, <3>1, <4>1 DEF Present, Row, Unassigned
    <3>2. \A d \in Requests : at'[d] \notin {"launch: build", "launch: assign", "launch: hold"}
      <4>1. \A d \in Requests : at[d] \in Launching => d = c
        BY <2>4 DEF IInv, Exclusive, OneLauncher, Launching
      <4> QED
        BY <1>t, <2>8, <4>1 DEF Hold, Goto, Launching
    <3> QED
      BY <2>1, <2>2, <2>3, <3>1, <3>2 DEF RestInv
  <2> QED
    BY <1>2, <2>6, <2>7, <2>8
<1>3. ASSUME ~(\E s \in Senders : Decide(s)), ~(\E c \in Requests : Build(c) \/ Assign(c) \/ Hold(c))
      PROVE  RestInv'
  BY <1>3, RestCalm
<1>4. ASSUME NEW s \in Senders, Decide(s)
      PROVE  UNCHANGED launchVars
  BY <1>4 DEF Next, Decide, senderVars, workerVars
<1>5. ASSUME NEW c \in Requests, Build(c) \/ Assign(c) \/ Hold(c)
      PROVE  UNCHANGED senderVars
  <2>1. at' # at
    BY <1>t, <1>5 DEF Build, Assign, Hold, Goto
  <2> QED
    BY <2>1 DEF Next, launchVars
<1> QED
  BY <1>1, <1>2, <1>3, <1>4, <1>5

\* So it always holds.
LEMMA RestAlways == ASSUME Undisturbed PROVE Spec => [](IInv /\ RestInv)
<1>1. Init => RestInv
  <2>1. ASSUME Init PROVE \A k \in Keys : ~Marked(k)
    BY <2>1, TypeInit, BeforeInit, NothingMarked DEF Init, RosterInit, Launched
  <2> QED
    BY <2>1 DEF RestInv, Init, RosterInit, LaunchInit, Present, NoRow, NewRow
<1>2. IInv /\ RestInv /\ [Next]_vars => RestInv'
  <2>1. ASSUME RestInv, UNCHANGED vars PROVE RestInv'
    BY <2>1 DEF RestInv, Launched, Present, Marked, Holding, KeyOf, vars, rosterVars, senderVars,
       workerVars, providerVars, launchVars
  <2> QED
    BY <2>1, RestKept
<1> QED
  BY <1>1, <1>2, InvAlways, PTL DEF Spec

\* While an A/B campaign is undecided only its test cells are mailed, and after the
\* decision nothing stays held.
THEOREM RemainderWaits == ASSUME Undisturbed PROVE Spec => []RemainderHeldUntilDecided
<1>1. IInv /\ RestInv => RemainderHeldUntilDecided
  <2> SUFFICES ASSUME IInv, RestInv PROVE RemainderHeldUntilDecided
    OBVIOUS
  <2>1. \A k \in submitted : k \in Keys /\ Marked(k)
    BY DEF IInv, TypeInv, ProviderOK, Marked
  <2>2. \A a \in Rows("pending") : a \in Addresses /\ Present(a)
    BY DEF Rows, Present
  <2> QED
    BY <2>1, <2>2 DEF RestInv, RemainderHeldUntilDecided
<1> QED
  BY <1>1, RestAlways, PTL

-----------------------------------------------------------------------------
(* The lane implements the mailing.                                         *)
(*                                                                          *)
(* Four kinds of step are one of the mailing by themselves: the claim, the  *)
(* check, the submission that delivers, and the decision. The status flips  *)
(* and the three statements that fill the roster touch nothing else. All the  *)
(* rest is calm, and only lets go of rows, copies and checks (LetsGo).      *)

\* The addresses in a worker's hands are those of the rows it holds a copy of.
LEMMA ClaimedHolds ==
    ASSUME TypeInv, TypeInv'
    PROVE  /\ Claimed = {a \in Addresses : \E s \in Senders : \E r \in Copy :
                            Holding(s, r) /\ r.to = a}
           /\ Claimed' = {a \in Addresses : \E s \in Senders : \E r \in Copy :
                            Holding(s, r)' /\ r.to = a}
<1>1. /\ batch \in [Senders -> SUBSET Copy] /\ batch' \in [Senders -> SUBSET Copy]
      /\ \A s \in Senders : step[s] \in Busy => cur[s] \in Copy
      /\ \A s \in Senders : step'[s] \in Busy => cur'[s] \in Copy
  BY DEF TypeInv, WorkerOK, WorkInv
<1>2. ASSUME NEW a \in Addresses, NEW s \in Senders
      PROVE  /\ (\/ \E r \in batch[s] : r.to = a
                 \/ step[s] \in Busy /\ cur[s].to = a)
                <=> \E r \in Copy : Holding(s, r) /\ r.to = a
             /\ (\/ \E r \in batch'[s] : r.to = a
                 \/ step'[s] \in Busy /\ cur'[s].to = a)
                <=> \E r \in Copy : Holding(s, r)' /\ r.to = a
  BY <1>1 DEF Holding
<1> QED
  BY <1>2 DEF Claimed, Busy

\* A calm step puts nobody on the roster, holds nobody back and claims nobody.
LEMMA CalmLess ==
    ASSUME TypeInv, TypeInv', Calm
    PROVE  Due' \subseteq Due /\ HeldBack' \subseteq HeldBack /\ Claimed' \subseteq Claimed
<1>1. Due' \subseteq Due /\ HeldBack' \subseteq HeldBack
  BY DEF Calm, Mild, Due, HeldBack, Present
<1>2. Claimed' \subseteq Claimed
  BY ClaimedHolds DEF Calm, HoldLess
<1> QED
  BY <1>1, <1>2

\* Nor does it find anybody allowed, unless it is the check.
LEMMA CheckedLess ==
    ASSUME TypeInv, [Next]_vars,
           ~\E s \in Senders : CheckSendable(s) \/ SendMarketingEmail(s)
    PROVE  {a \in Addresses : InHand(a)}' \subseteq {a \in Addresses : InHand(a)}
<1>1. CASE \E s \in Senders : Dispatch(s)
  <2>1. PICK s \in Senders : Dispatch(s)
    BY <1>1
  <2>2. step[s] = "checked" /\ UNCHANGED cur /\ \A w \in Senders \ {s} : step'[w] = step[w]
    BY <2>1 DEF Dispatch, TypeInv, WorkerOK
  <2> QED
    BY <2>2 DEF InHand
<1>2. CASE ~\E s \in Senders : Dispatch(s)
  BY <1>2, QuietSteps DEF InHand
<1> QED
  BY <1>1, <1>2

\* So it lets go, if it leaves the campaign and the consents alone.
LEMMA LetsGo ==
    ASSUME TypeInv, TypeInv', Next, Calm,
           UNCHANGED <<campaign.status, campaign.winner, mailable>>,
           ~\E s \in Senders : CheckSendable(s) \/ SendMarketingEmail(s)
    PROVE  Abstract!LetGo
<1>1. Due' \subseteq Due /\ HeldBack' \subseteq HeldBack /\ Claimed' \subseteq Claimed
  BY CalmLess
<1>2. {a \in Addresses : InHand(a)}' \subseteq {a \in Addresses : InHand(a)}
  BY CheckedLess
<1>3. UNCHANGED delivered
  <2>1. CASE \E s \in Senders : Dispatch(s)
    BY <2>1 DEF Dispatch, Settle, providerVars
  <2>2. CASE ~\E s \in Senders : Dispatch(s)
    BY <2>2, QuietSteps
  <2> QED
    BY <2>1, <2>2
<1> QED
  BY <1>1, <1>2, <1>3 DEF Abstract!LetGo

\* What depends on the roster and on the workers stays when these do.
LEMMA SameMailing ==
    /\ UNCHANGED roster => UNCHANGED <<Due, HeldBack>>
    /\ UNCHANGED <<step, batch, cur>> =>
            UNCHANGED <<Claimed, {a \in Addresses : InHand(a)}>>
BY DEF Due, HeldBack, Claimed, InHand

\* A flip of the status is one of the mailing.
LEMMA FlipRefines ==
    ASSUME campaign \in Campaign, UNCHANGED <<roster, senderVars>>,
           NEW from, NEW to \in CampaignStatuses, campaign.status \in from,
           campaign' = [campaign EXCEPT !.status = to]
    PROVE  Abstract!Move(from, to)
<1>1. campaign'.status = to /\ campaign'.winner = campaign.winner
  BY DEF Campaign
<1>2. UNCHANGED <<mailable, delivered, step, batch, cur>>
  BY DEF senderVars, workerVars, providerVars
<1> QED
  BY <1>1, <1>2, SameMailing DEF Abstract!Move

\* A mailing starts as the lane does.
LEMMA MailingInit == Init => Abstract!Init
<1> SUFFICES ASSUME Init PROVE Abstract!Init
  OBVIOUS
<1>1. campaign.status = "draft" /\ campaign.winner = NoVariant
  BY DEF Init, RosterInit
<1>2. Due = {} /\ HeldBack = {}
  BY DEF Init, RosterInit, Due, HeldBack, NoRow, NewRow
<1>3. \A s \in Senders : step[s] = "idle" /\ batch[s] = {}
  BY DEF Init, SenderInit
<1>4. Claimed = {} /\ {a \in Addresses : InHand(a)} = {}
  BY <1>3 DEF Claimed, InHand
<1> QED
  BY <1>1, <1>2, <1>4 DEF Init, SenderInit, Abstract!Init

\* Whom a claim takes is due, and is claimed afterwards with those who were before.
LEMMA ClaimRefines ==
    ASSUME TypeInv, TypeInv', NEW s \in Senders, Claim(s)
    PROVE  Abstract!Next
<1>1. PICK chosen \in SUBSET Claimable :
            /\ chosen \subseteq {a \in Addresses : roster[a].status = "pending" /\ ~roster[a].held}
            /\ batch' = [batch EXCEPT ![s] = {CopyOf(a) : a \in chosen}]
            /\ \A a \in Addresses :
                /\ roster'[a].held = roster[a].held
                /\ roster'[a].status = IF a \in chosen THEN "processing" ELSE roster[a].status
  BY ClaimRows
<1>2. chosen \in SUBSET Due
  BY <1>1 DEF Due
<1>3. campaign.status = "sending"
  <2>1. \E c \in SUBSET Claimable : c # {}
    BY DEF Claim
  <2> QED
    BY <2>1 DEF Claimable
<1>4. Due' = Due /\ HeldBack' = HeldBack
  BY <1>1 DEF Due, HeldBack
<1>5. /\ step[s] = "idle" /\ step' = [step EXCEPT ![s] = "load"] /\ UNCHANGED cur
      /\ step \in [Senders -> WorkerSteps] /\ batch \in [Senders -> SUBSET Copy]
      /\ batch[s] = {}
  BY DEF Claim, TypeInv, WorkerOK, WorkInv
<1>6. Claimed' = Claimed \cup chosen
  <2>1. \A w \in Senders \ {s} : step'[w] = step[w] /\ batch'[w] = batch[w] /\ cur'[w] = cur[w]
    BY <1>1, <1>5
  <2>2. batch'[s] = {CopyOf(a) : a \in chosen} /\ step'[s] = "load"
    BY <1>1, <1>5
  <2>3. \A a \in chosen : a \in Addresses /\ CopyOf(a).to = a
    BY <1>1 DEF CopyOf
  <2>4. \A a \in Addresses : (\E r \in batch'[s] : r.to = a) <=> a \in chosen
    BY <2>2, <2>3
  <2> QED
    BY <1>5, <2>1, <2>2, <2>3, <2>4 DEF Claimed
<1>7. UNCHANGED {a \in Addresses : InHand(a)}
  BY <1>5 DEF InHand
<1>8. UNCHANGED <<campaign.status, campaign.winner, mailable, delivered>>
  BY DEF Claim, providerVars
<1>9. Abstract!Claim(chosen)
  BY <1>3, <1>4, <1>6, <1>7, <1>8 DEF Abstract!Claim
<1> QED
  BY <1>2, <1>9 DEF Abstract!Next

\* The check finds a claimed address allowed.
LEMMA CheckRefines ==
    ASSUME TypeInv, TypeInv', NEW s \in Senders, CheckSendable(s)
    PROVE  Abstract!Next
<1>0. /\ step \in [Senders -> WorkerSteps] /\ batch \in [Senders -> SUBSET Copy]
      /\ cur \in [Senders -> Copy \cup {NoCopy}]
  BY DEF TypeInv, WorkerOK
<1>1. PICK r \in batch[s] : /\ r.to \in mailable
                            /\ batch' = [batch EXCEPT ![s] = @ \ {r}]
                            /\ cur' = [cur EXCEPT ![s] = r]
  BY DEF CheckSendable
<1>2. PICK a \in Addresses : a = r.to
  BY <1>0, <1>1 DEF Copy
<1>3. /\ step[s] = "take" /\ step'[s] = "checked" /\ cur'[s] = r /\ batch'[s] = batch[s] \ {r}
      /\ \A w \in Senders \ {s} : step'[w] = step[w] /\ batch'[w] = batch[w] /\ cur'[w] = cur[w]
  BY <1>0, <1>1 DEF CheckSendable
<1>4. a \in Claimed \cap mailable /\ Claimed' = Claimed
  BY <1>1, <1>2, <1>3 DEF Claimed
<1>5. {b \in Addresses : InHand(b)}' = {b \in Addresses : InHand(b)} \cup {a}
  BY <1>2, <1>3 DEF InHand
<1>6. UNCHANGED <<campaign, roster, mailable, delivered>>
  BY DEF CheckSendable, rosterVars, providerVars
<1>7. Abstract!Check(a)
  BY <1>4, <1>5, <1>6, SameMailing DEF Abstract!Check
<1> QED
  BY <1>7 DEF Abstract!Next

\* A submission delivers to an address that was in hand and not mailed before, or
\* lets go of it.
LEMMA SendRefines ==
    ASSUME IInv, IInv', NEW s \in Senders, SendMarketingEmail(s)
    PROVE  Abstract!Next
<1>0. /\ step \in [Senders -> WorkerSteps] /\ delivered \in [Addresses -> 0..2]
      /\ cur[s] \in Copy
  BY DEF IInv, TypeInv, WorkerOK, WorkInv, ProviderOK, SendMarketingEmail, Busy
<1>1. PICK a \in Addresses : a = cur[s].to
  BY <1>0 DEF Copy
<1>2. /\ step[s] = "dispatched" /\ step'[s] = "answered"
      /\ \A w \in Senders \ {s} : step'[w] = step[w]
      /\ UNCHANGED <<cur, batch, campaign, roster, mailable>>
  BY <1>0 DEF SendMarketingEmail, rosterVars
<1>3. UNCHANGED <<Due, HeldBack, Claimed>>
  BY <1>2, SameMailing DEF Claimed
<1>4. /\ a \in {b \in Addresses : InHand(b)}
      /\ \A b \in Addresses \ {a} : InHand(b)' = InHand(b)
  BY <1>1, <1>2 DEF InHand
<1>5. {b \in Addresses : InHand(b)}' \in
            {{b \in Addresses : InHand(b)}, {b \in Addresses : InHand(b)} \ {a}}
  BY <1>4
<1>6. CASE delivered' = delivered
  BY <1>2, <1>3, <1>5, <1>6 DEF Abstract!LetGo, Abstract!Next
<1>7. CASE delivered' # delivered
  <2>1. delivered' = [delivered EXCEPT ![a] = IF @ = 0 THEN 1 ELSE 2]
    BY <1>1, <1>7 DEF SendMarketingEmail, Deliver
  <2>2. delivered'[a] = 0 \/ delivered'[a] = 1
    BY DEF IInv, DeliverInv
  <2>3. delivered[a] = 0 /\ delivered' = [delivered EXCEPT ![a] = 1]
    <3>1. delivered'[a] = IF delivered[a] = 0 THEN 1 ELSE 2
      BY <1>0, <2>1
    <3>2. delivered[a] = 0
      BY <2>2, <3>1
    <3> QED
      BY <2>1, <3>2
  <2>4. Abstract!Mail(a)
    BY <1>2, <1>3, <1>4, <1>5, <2>3 DEF Abstract!Mail
  <2> QED
    BY <2>4 DEF Abstract!Next
<1> QED
  BY <1>6, <1>7

\* The decision releases all that is held, and nothing else moves.
LEMMA DecideRefines ==
    ASSUME IInv, RestInv, RestInv', TypeInv', NEW s \in Senders, Decide(s)
    PROVE  [Abstract!Next]_(Abstract!vars)
<1>0. campaign \in Campaign /\ roster \in [Addresses -> Row]
  BY DEF IInv, TypeInv, StoreOK
<1>1. PICK w \in Variants : DecideABWinner(w)
  BY DEF Decide
<1>2. UNCHANGED <<step, batch, cur, mailable, delivered>>
  BY DEF Decide, providerVars
<1>3. UNCHANGED <<Claimed, {a \in Addresses : InHand(a)}>>
  BY <1>2, SameMailing
<1>4. CASE CanDecide
  <2>1. /\ campaign.status = "sending" /\ campaign.winner = NoVariant
        /\ campaign'.status = campaign.status /\ campaign'.winner = w /\ w # NoVariant
    BY <1>0, <1>1, <1>4 DEF DecideABWinner, CanDecide, Campaign, Variants, NoVariant
  <2>2. \A a \in Addresses : roster'[a].status = roster[a].status
    BY <1>0, <1>1 DEF DecideABWinner, Row
  <2>3. \A a \in Addresses : Present(a)' => ~roster'[a].held
    BY <2>1 DEF RestInv
  <2>4. HeldBack' = {}
    BY <2>3 DEF HeldBack, Present
  <2>5. Due' = Due \cup HeldBack
    BY <2>2, <2>3 DEF Due, HeldBack, Present
  <2>6. Abstract!Decide(w)
    BY <1>2, <1>3, <2>1, <2>4, <2>5 DEF Abstract!Decide
  <2> QED
    BY <2>6 DEF Abstract!Next
<1>5. CASE ~CanDecide
  <2>1. UNCHANGED campaign /\ roster' = [a \in Addresses |-> roster[a]]
    BY <1>1, <1>5 DEF DecideABWinner
  <2>2. UNCHANGED roster
    BY <1>0, <2>1
  <2> QED
    BY <1>2, <1>3, <2>1, <2>2, SameMailing DEF Abstract!vars
<1> QED
  BY <1>4, <1>5

\* Who opts out is allowed no more; nothing else is asked.
LEMMA OptOutRefines ==
    ASSUME NEW a \in Addresses, Unsubscribe(a)
    PROVE  Abstract!Next
<1>1. /\ UNCHANGED <<campaign, roster, step, batch, cur, delivered>>
      /\ mailable' = mailable \ {a}
  BY DEF Unsubscribe, rosterVars, workerVars, providerVars
<1>2. Abstract!OptOut(a)
  BY <1>1, SameMailing DEF Abstract!OptOut
<1> QED
  BY <1>2 DEF Abstract!Next

\* A campaign that is drained ends.
LEMMA FinalizeRefines ==
    ASSUME TypeInv, NEW s \in Senders, Finalize(s)
    PROVE  Abstract!Next
<1>1. Abstract!Move({"sending"}, "sent")
  BY FlipRefines DEF Finalize, MarkDrained, CampaignStatuses, TypeInv, StoreOK
<1> QED
  BY <1>1 DEF Abstract!Next, Abstract!End

\* Every step of the sending side is one of the mailing.
LEMMA SenderRefines ==
    ASSUME IInv, RestInv, IInv', RestInv', SenderNext, UNCHANGED launchVars
    PROVE  [Abstract!Next]_(Abstract!vars)
<1>0. TypeInv /\ TypeInv' /\ KeyInv /\ Next
  BY DEF IInv, Next
<1>1. CASE \E s \in Senders : Claim(s) \/ CheckSendable(s) \/ SendMarketingEmail(s) \/ Finalize(s)
  BY <1>0, <1>1, ClaimRefines, CheckRefines, SendRefines, FinalizeRefines
<1>2. CASE (\E s \in Senders : Decide(s)) \/ (\E a \in Addresses : Unsubscribe(a))
  BY <1>0, <1>2, DecideRefines, OptOutRefines
<1>3. ASSUME ~\E s \in Senders : \/ Claim(s) \/ CheckSendable(s) \/ SendMarketingEmail(s)
                                 \/ Finalize(s) \/ Decide(s),
             ~\E a \in Addresses : Unsubscribe(a)
      PROVE  Abstract!Next
  <2>1. Calm
    BY <1>0, <1>3, SenderCalm
  <2>2. UNCHANGED <<campaign, mailable>>
    BY <1>3 DEF SenderNext, WorkerStep, LoadCampaignContext, EndBatch, GiveUp, Refuse, Dispatch,
       MintFails, RecordOutcome, Settle, SenderCrash, ListUndecided, Reap, Prune, LeaseExpires,
       DayPasses, ProviderForgets, rosterVars, senderVars
  <2>3. Abstract!LetGo
    BY <1>0, <1>3, <2>1, <2>2, LetsGo
  <2> QED
    BY <2>3 DEF Abstract!Next
<1> QED
  BY <1>1, <1>2, <1>3

\* A flip of a status that may be left; otherwise nothing happens.
LEMMA StatusRefines ==
    ASSUME campaign \in Campaign, UNCHANGED <<roster, senderVars>>,
           NEW from, NEW to \in CampaignStatuses, SetStatus(to, from)
    PROVE  Abstract!Move(from, to) \/ UNCHANGED Abstract!vars
<1>1. CASE CanSet(from)
  BY <1>1, FlipRefines DEF SetStatus, CanSet
<1>2. CASE ~CanSet(from)
  <2>1. UNCHANGED <<campaign, roster, mailable, delivered, step, batch, cur>>
    BY <1>2 DEF SetStatus, senderVars, workerVars, providerVars
  <2> QED
    BY <2>1, SameMailing DEF Abstract!vars
<1> QED
  BY <1>1, <1>2

\* Every step of a request is one of the mailing.
LEMMA RequestRefines ==
    ASSUME IInv, IInv', LaunchNext, UNCHANGED senderVars
    PROVE  [Abstract!Next]_(Abstract!vars)
<1>0. TypeInv /\ TypeInv' /\ KeyInv /\ Next /\ campaign \in Campaign
  BY DEF IInv, Next, TypeInv, StoreOK
<1>h. UNCHANGED <<mailable, delivered, step, batch, cur>>
  BY DEF senderVars, workerVars, providerVars
<1>s. {"draft", "snapshotting", "sending", "paused", "canceled"} \subseteq CampaignStatuses
  BY DEF CampaignStatuses
<1>1. ASSUME NEW c \in Requests, Begin(c)
      PROVE  [Abstract!Next]_(Abstract!vars)
  <2>1. Abstract!Move({"draft"}, "snapshotting") \/ UNCHANGED Abstract!vars
    BY <1>0, <1>1, <1>s, StatusRefines DEF Begin, BeginLaunch
  <2> QED
    BY <2>1 DEF Abstract!Next, Abstract!Launch
<1>2. ASSUME NEW c \in Requests, Revert(c)
      PROVE  [Abstract!Next]_(Abstract!vars)
  <2>1. CASE RevertLaunch
    <3>1. Abstract!Move({"snapshotting"}, "draft") \/ UNCHANGED Abstract!vars
      BY <1>0, <1>2, <1>s, <2>1, StatusRefines DEF Revert, RevertLaunch
    <3> QED
      BY <3>1 DEF Abstract!Next, Abstract!Launch
  <2>2. CASE UNCHANGED campaign
    BY <1>2, <1>h, <2>2, SameMailing DEF Revert, Abstract!vars
  <2> QED
    BY <1>2, <2>1, <2>2 DEF Revert
<1>3. ASSUME NEW c \in Requests, Finish(c)
      PROVE  [Abstract!Next]_(Abstract!vars)
  <2>1. CASE FinishLaunch
    <3>1. Abstract!Move({"snapshotting"}, "sending") \/ UNCHANGED Abstract!vars
      BY <1>0, <1>3, <1>s, <2>1, StatusRefines DEF Finish, FinishLaunch
    <3> QED
      BY <3>1 DEF Abstract!Next, Abstract!Open
  <2>2. CASE UNCHANGED campaign
    BY <1>3, <1>h, <2>2, SameMailing DEF Finish, Abstract!vars
  <2> QED
    BY <1>3, <2>1, <2>2 DEF Finish
<1>4. CASE Pause
  <2>1. Abstract!Move({"sending"}, "paused") \/ UNCHANGED Abstract!vars
    BY <1>0, <1>4, <1>s, StatusRefines DEF Pause
  <2> QED
    BY <2>1 DEF Abstract!Next, Abstract!Pause
<1>5. CASE Resume
  <2>1. Abstract!Move({"paused"}, "sending") \/ UNCHANGED Abstract!vars
    BY <1>0, <1>5, <1>s, StatusRefines DEF Resume
  <2> QED
    BY <2>1 DEF Abstract!Next, Abstract!Pause
<1>6. CASE Cancel
  <2>1. Abstract!Move({"sending", "paused"}, "canceled") \/ UNCHANGED Abstract!vars
    BY <1>0, <1>6, <1>s, StatusRefines DEF Cancel
  <2> QED
    BY <2>1 DEF Abstract!Next, Abstract!End
<1>7. ASSUME NEW c \in Requests, Build(c) \/ Assign(c) \/ Hold(c)
      PROVE  Abstract!Next
  <2>1. UNCHANGED campaign /\ campaign.status = "snapshotting"
    BY <1>7 DEF Build, Assign, Hold, IInv, LaunchInv, Exclusive, Launching
  <2>2. Due' \in SUBSET Addresses /\ HeldBack' \in SUBSET (Addresses \ Due')
    BY DEF Due, HeldBack
  <2>3. Abstract!Fill
    BY <1>h, <2>1, <2>2, SameMailing DEF Abstract!Fill
  <2> QED
    BY <2>3 DEF Abstract!Next
<1>8. ASSUME ~(Pause \/ Resume \/ Cancel),
             ~\E c \in Requests : \/ Begin(c) \/ Revert(c) \/ Finish(c)
                                  \/ Build(c) \/ Assign(c) \/ Hold(c)
      PROVE  Abstract!Next
  <2>1. Calm
    BY <1>0, <1>8, RequestCalm
  <2>2. UNCHANGED <<campaign.status, campaign.winner>>
    <3>1. CASE Edit \/ \E c \in Requests : DeleteMarks(c)
      BY <1>0, <3>1 DEF Edit, UpdateCampaign, DeleteMarks, SoftDelete, Campaign
    <3>2. CASE \E c \in Requests : \/ LaunchReads(c) \/ Clear(c) \/ LaunchFails(c)
                                   \/ SnapshotReads(c) \/ DeleteClears(c) \/ HandlerDies(c)
      BY <3>2 DEF LaunchReads, Clear, LaunchFails, SnapshotReads, DeleteClears, HandlerDies,
         rosterVars
    <3> QED
      BY <1>8, <3>1, <3>2 DEF LaunchNext, RequestStep
  <2>3. ~\E s \in Senders : CheckSendable(s) \/ SendMarketingEmail(s)
    <3>1. UNCHANGED step
      BY <1>h
    <3> QED
      BY <1>0, <3>1 DEF CheckSendable, SendMarketingEmail, TypeInv, WorkerOK
  <2>4. Abstract!LetGo
    BY <1>0, <1>h, <2>1, <2>2, <2>3, LetsGo
  <2> QED
    BY <2>4 DEF Abstract!Next
<1> QED
  BY <1>1, <1>2, <1>3, <1>4, <1>5, <1>6, <1>7, <1>8

\* Nobody is mailed twice, nor before the campaign is open, nor while held back, nor
\* once found not allowed; what is over is over: whatever is lost, fails or dies,
\* every behaviour of the lane is one of Mailing.
THEOREM LaneImplementsMailing == ASSUME Undisturbed PROVE Spec => ImplementsMailing
<1>1. ASSUME IInv, RestInv, IInv', RestInv', [Next]_vars
      PROVE  [Abstract!Next]_(Abstract!vars)
  <2>1. CASE UNCHANGED vars
    <3>1. UNCHANGED <<campaign, roster, mailable, delivered, step, batch, cur>>
      BY <2>1 DEF vars, rosterVars, senderVars, workerVars, providerVars
    <3> QED
      BY <3>1, SameMailing DEF Abstract!vars
  <2>2. CASE Next
    BY <1>1, <2>2, SenderRefines, RequestRefines DEF Next
  <2> QED
    BY <1>1, <2>1, <2>2
<1> QED
  BY <1>1, MailingInit, RestAlways, PTL DEF Spec, ImplementsMailing, Abstract!Spec

=============================================================================
