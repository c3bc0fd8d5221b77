-------------------------- MODULE MailEventsProofs --------------------------
(***************************************************************************)
(* Proofs about MailEvents, for any events, drains, rates and bounds: its    *)
(* types and every safety property its run checks. Each property follows      *)
(* from an invariant about the rows and about what a drain is in the middle    *)
(* of, since a drain may go on with an event that is no longer its own.        *)
(***************************************************************************)
EXTENDS MailEvents, FiniteSetTheorems, TLAPS

-----------------------------------------------------------------------------
(* Types. That soft is no larger than it may be needs the count; see below.  *)

TypeInv ==
    /\ status \in [Events -> Statuses]
    /\ attempts \in [Events -> Nat]
    /\ ripe \subseteq Opens
    /\ suppressed \subseteq Bearing
    /\ soft \in Nat
    /\ paused \in BOOLEAN
    /\ drain \in [Drains -> Local]
    /\ triggering \subseteq Opens /\ enrolled \subseteq Opens
    /\ inTime \subseteq Opens
    /\ trouble \in [Events -> 0..MaxAttempts]
    /\ missed \in BOOLEAN
    /\ faults \in 0..MaxFaults

\* Troubled counts up to MaxAttempts, which is where it stays (Min).
LEMMA TroubledIs ==
    ASSUME trouble \in [Events -> 0..MaxAttempts], NEW e \in Events
    PROVE  /\ Troubled(e) \in 0..MaxAttempts
           /\ Troubled(e) >= trouble[e]
           /\ Troubled(e) = trouble[e] + 1 \/ Troubled(e) = MaxAttempts
<1> DEFINE S == {trouble[e] + 1, MaxAttempts}
<1>1. trouble[e] \in 0..MaxAttempts /\ MaxAttempts \in Nat
  BY MailBoundAssumption
<1>2. \E x \in S : \A y \in S : x =< y
  BY <1>1
<1>3. Min(S) \in S /\ \A y \in S : Min(S) =< y
  BY <1>2 DEF Min
<1> QED
  BY <1>1, <1>3 DEF Troubled

\* What Leave makes of the drains: the event before is forgotten, the next one
\* is of the batch and starts at its beginning.
LEMMA LeaveIs ==
    ASSUME drain \in [Drains -> Local], NEW d \in Drains, NEW e \in Events, Leave(d, e)
    PROVE  /\ drain' \in [Drains -> Local]
           /\ \A x \in Drains \ {d} : drain'[x] = drain[x]
           /\ drain'[d].step \in {"idle", "apply"}
           /\ drain'[d].step = "idle" => drain'[d].cur = {}
           /\ drain'[d].cur \cup drain'[d].batch \subseteq drain[d].batch
           /\ drain'[d].seen \in {0, drain[d].seen}
           /\ \A x \in Events : drain'[d].tries[x] \in {0, drain[d].tries[x]}
<1>1. Idle \in Local
  BY DEF Idle, NoTries, Local
<1>2. CASE drain[d].batch = {}
  BY <1>1, <1>2 DEF Leave, Idle, NoTries
<1>3. CASE drain[d].batch # {}
  <2>1. PICK next \in drain[d].batch :
            drain' = [drain EXCEPT ![d].step = "apply", ![d].cur = {next},
                                   ![d].batch = @ \ {next}, ![d].tries[e] = 0]
    BY <1>3 DEF Leave
  <2>2. drain[d] \in Local
    OBVIOUS
  <2>3. drain'[d] = [drain[d] EXCEPT !.step = "apply", !.cur = {next},
                                     !.batch = @ \ {next}, !.tries[e] = 0]
    BY <2>1
  <2>4. [drain[d].tries EXCEPT ![e] = 0] \in [Events -> Nat]
    BY <2>2 DEF Local
  <2>5. drain'[d] = [drain[d] EXCEPT !.step = "apply", !.cur = {next},
                                     !.batch = @ \ {next}, !.tries = [@ EXCEPT ![e] = 0]]
    BY <2>3
  <2>6. {next} \in SUBSET Events /\ drain[d].batch \ {next} \in SUBSET Events
    BY <2>2 DEF Local
  <2>7. drain'[d] \in Local
    BY <2>2, <2>4, <2>5, <2>6 DEF Local
  <2>8. drain'[d].step = "apply" /\ drain'[d].cur = {next} /\ drain'[d].batch = drain[d].batch \ {next}
        /\ drain'[d].seen = drain[d].seen /\ drain'[d].tries = [drain[d].tries EXCEPT ![e] = 0]
    BY <2>2, <2>5 DEF Local
  <2>9. \A x \in Events : drain'[d].tries[x] \in {0, drain[d].tries[x]}
    BY <2>2, <2>8 DEF Local
  <2> QED
    BY <2>1, <2>7, <2>8, <2>9
<1> QED
  BY <1>2, <1>3

\* What Go makes of them: the event stays, the step is another.
LEMMA GoIs ==
    ASSUME drain \in [Drains -> Local], NEW d \in Drains,
           NEW s \in {"idle", "apply", "count", "rates", "pause", "settle", "failed"}, Go(d, s)
    PROVE  /\ drain' \in [Drains -> Local]
           /\ \A x \in Drains \ {d} : drain'[x] = drain[x]
           /\ drain'[d] = [drain[d] EXCEPT !.step = s]
           /\ drain'[d].step = s
           /\ drain'[d].cur = drain[d].cur /\ drain'[d].batch = drain[d].batch
           /\ drain'[d].seen = drain[d].seen /\ drain'[d].tries = drain[d].tries
<1>1. drain[d] \in Local
  OBVIOUS
<1>2. drain'[d] = [drain[d] EXCEPT !.step = s]
  BY DEF Go
<1> QED
  BY <1>1, <1>2 DEF Go, Local

\* What a claim of S that starts with e makes of them.
ClaimOf(d, S, e) ==
    /\ status' = [x \in Events |-> IF x \in S THEN "processing" ELSE status[x]]
    /\ attempts' = [x \in Events |-> IF x \in S THEN attempts[x] + 1 ELSE attempts[x]]
    /\ \A x \in Drains \ {d} : drain'[x] = drain[x]
    /\ drain'[d].step = "apply" /\ drain'[d].cur = {e} /\ drain'[d].batch = S \ {e}
    /\ drain'[d].seen = 0
    /\ drain'[d].tries = [x \in Events |-> IF x \in S THEN attempts'[x] ELSE 0]
LEMMA ClaimIs ==
    ASSUME TypeInv, NEW d \in Drains, ClaimPendingEvents(d)
    PROVE  /\ status' \in [Events -> Statuses]
           /\ attempts' \in [Events -> Nat]
           /\ drain' \in [Drains -> Local]
           /\ \E S \in SUBSET Pending : \E e \in S : ClaimOf(d, S, e)
<1> DEFINE New(S, e) ==
              [step |-> "apply", cur |-> {e}, batch |-> S \ {e}, seen |-> 0,
               tries |-> [x \in Events |-> IF x \in S THEN attempts'[x] ELSE 0]]
<1>1. PICK S \in SUBSET Pending : \E e \in S :
          /\ status' = [x \in Events |-> IF x \in S THEN "processing" ELSE status[x]]
          /\ attempts' = [x \in Events |-> IF x \in S THEN attempts[x] + 1 ELSE attempts[x]]
          /\ drain' = [drain EXCEPT ![d] = New(S, e)]
  BY DEF ClaimPendingEvents, kSubset
<1>2. PICK e \in S :
          /\ status' = [x \in Events |-> IF x \in S THEN "processing" ELSE status[x]]
          /\ attempts' = [x \in Events |-> IF x \in S THEN attempts[x] + 1 ELSE attempts[x]]
          /\ drain' = [drain EXCEPT ![d] = New(S, e)]
  BY <1>1
<1>3. S \subseteq Events /\ drain \in [Drains -> Local]
  BY DEF Pending, TypeInv
<1>4. attempts' \in [Events -> Nat] /\ status' \in [Events -> Statuses]
  BY <1>2 DEF TypeInv, Statuses
<1>5. [x \in Events |-> IF x \in S THEN attempts'[x] ELSE 0] \in [Events -> Nat]
  BY <1>4
<1>6. New(S, e) \in Local
  BY <1>3, <1>5 DEF Local
<1>7. drain' \in [Drains -> Local] /\ drain'[d] = New(S, e) /\ \A x \in Drains \ {d} : drain'[x] = drain[x]
  BY <1>2, <1>3, <1>6
<1>8. ClaimOf(d, S, e)
  BY <1>2, <1>7 DEF ClaimOf
<1> QED
  BY <1>4, <1>7, <1>8

\* What the snapshot of a soft bounce makes of them.
LEMMA CountIs ==
    ASSUME TypeInv, NEW d \in Drains, CountSoft(d)
    PROVE  /\ drain' \in [Drains -> Local]
           /\ \A x \in Drains \ {d} : drain'[x] = drain[x]
           /\ drain'[d].step \in {"count", "failed"}
           /\ drain'[d].cur = drain[d].cur /\ drain'[d].batch = drain[d].batch
           /\ drain'[d].tries = drain[d].tries
           /\ drain'[d].seen \in {drain[d].seen, Cardinality(SoftBounces \cap InLedger)}
<1>1. drain[d] \in Local /\ drain \in [Drains -> Local]
  BY DEF TypeInv
<1>2. Cardinality(SoftBounces \cap InLedger) \in Nat
  BY EventAssumption, FS_Subset, FS_CardinalityType DEF SoftBounces
<1>3. CASE Go(d, "failed")
  BY <1>1, <1>3, GoIs
<1>4. CASE drain' = [drain EXCEPT ![d].step = "count",
                                  ![d].seen = Cardinality(SoftBounces \cap InLedger)]
  <2>1. drain'[d] = [drain[d] EXCEPT !.step = "count", !.seen = Cardinality(SoftBounces \cap InLedger)]
    BY <1>1, <1>4
  <2>2. drain'[d] \in Local
    BY <1>1, <1>2, <2>1 DEF Local
  <2>3. drain'[d].step = "count" /\ drain'[d].cur = drain[d].cur /\ drain'[d].batch = drain[d].batch
        /\ drain'[d].tries = drain[d].tries
        /\ drain'[d].seen = Cardinality(SoftBounces \cap InLedger)
    BY <1>1, <2>1 DEF Local
  <2> QED
    BY <1>1, <1>4, <2>2, <2>3
<1> QED
  BY <1>3, <1>4 DEF CountSoft

\* Settle, with the event named.
SettleOf(d, e) ==
    /\ drain[d].step \in {"settle", "failed"}
    /\ Cur(d, e)
    /\ \/ /\ status' = [status EXCEPT ![e] =
                 IF drain[d].step = "settle" THEN "done"
                 ELSE IF drain[d].tries[e] >= MaxAttempts THEN "failed" ELSE "pending"]
          /\ NoFault
       \/ Fault /\ UNCHANGED status
    /\ trouble' = [trouble EXCEPT ![e] = IF drain[d].step = "failed" THEN Troubled(e) ELSE @]
    /\ Leave(d, e)
    /\ UNCHANGED <<attempts, ripe, effectVars, inTime, missed>>

LEMMA TypeInit == Init => TypeInv
<1> SUFFICES ASSUME Init PROVE TypeInv
  OBVIOUS
<1>1. Idle \in Local
  BY DEF Idle, NoTries, Local
<1>2. faults \in 0..MaxFaults /\ trouble \in [Events -> 0..MaxAttempts]
  BY MailBoundAssumption DEF Init
<1>3. paused \in BOOLEAN /\ missed \in BOOLEAN
  BY DEF Init
<1>4. status \in [Events -> Statuses] /\ attempts \in [Events -> Nat] /\ soft \in Nat
  BY DEF Init, Statuses
<1> QED
  BY <1>1, <1>2, <1>3, <1>4 DEF Init, TypeInv

LEMMA TypeNext == TypeInv /\ [Next]_vars => TypeInv'
<1> SUFFICES ASSUME TypeInv, [Next]_vars PROVE TypeInv'
  OBVIOUS
<1> USE MailBoundAssumption
<1>0. Idle \in Local
  BY DEF Idle, NoTries, Local
<1>1. ASSUME NEW e \in Events, Receive(e) PROVE TypeInv'
  BY <1>1 DEF Receive, TypeInv, effectVars, historyVars, Statuses
<1>2. ASSUME NEW e \in Events, Ripen(e) PROVE TypeInv'
  BY <1>2 DEF Ripen, TypeInv, effectVars, ledgerVars
<1>3. ASSUME NEW e \in Events, Trigger(e) PROVE TypeInv'
  BY <1>3 DEF Trigger, TypeInv, ledgerVars, historyVars, Fault, NoFault
<1>4. ASSUME NEW d \in Drains, ClaimPendingEvents(d) PROVE TypeInv'
  <2>1. status' \in [Events -> Statuses] /\ attempts' \in [Events -> Nat] /\ drain' \in [Drains -> Local]
    BY <1>4, ClaimIs
  <2> QED
    BY <1>4, <2>1 DEF ClaimPendingEvents, TypeInv, effectVars, historyVars
<1>5. ASSUME NEW d \in Drains, DeferEvent(d) PROVE TypeInv'
  <2>1. PICK e \in Events :
            /\ drain[d].step = "apply" /\ Cur(d, e) /\ ShouldDefer(e)
            /\ \/ /\ status' = [status EXCEPT ![e] = "pending"]
                  /\ attempts' = [attempts EXCEPT ![e] = IF @ > 0 THEN @ - 1 ELSE 0]
                  /\ NoFault
               \/ Fault /\ UNCHANGED <<status, attempts>>
            /\ Leave(d, e)
            /\ UNCHANGED <<ripe, effectVars, historyVars>>
    BY <1>5 DEF DeferEvent
  <2>2. drain' \in [Drains -> Local]
    BY <2>1, LeaveIs DEF TypeInv
  <2> QED
    BY <2>1, <2>2 DEF TypeInv, effectVars, historyVars, Statuses, Fault, NoFault
<1>6. ASSUME NEW d \in Drains, Suppress(d) PROVE TypeInv'
  <2>1. drain' \in [Drains -> Local]
    BY <1>6, GoIs DEF Suppress, TypeInv
  <2> QED
    BY <1>6, <2>1 DEF Suppress, TypeInv, ledgerVars, historyVars, Fault, NoFault
<1>7. ASSUME NEW d \in Drains, CheckRates(d) PROVE TypeInv'
  <2>1. drain' \in [Drains -> Local]
    BY <1>7, GoIs DEF CheckRates, TypeInv
  <2>2. faults' \in 0..MaxFaults
    BY <1>7 DEF CheckRates, TypeInv, Fault, NoFault
  <2>3. missed' \in BOOLEAN
    BY <1>7, Zenon DEF CheckRates, TypeInv
  <2> QED
    BY <1>7, <2>1, <2>2, <2>3 DEF CheckRates, TypeInv, ledgerVars, effectVars
<1>8. ASSUME NEW d \in Drains, Pause(d) PROVE TypeInv'
  <2>1. drain' \in [Drains -> Local]
    BY <1>8, GoIs DEF Pause, TypeInv
  <2>2. faults' \in 0..MaxFaults
    BY <1>8 DEF Pause, TypeInv, Fault, NoFault
  <2>3. missed' \in BOOLEAN /\ paused' \in BOOLEAN
    BY <1>8, Zenon DEF Pause, TypeInv
  <2> QED
    BY <1>8, <2>1, <2>2, <2>3 DEF Pause, TypeInv, ledgerVars
<1>9. ASSUME NEW d \in Drains, CountSoft(d) PROVE TypeInv'
  <2>1. drain' \in [Drains -> Local]
    BY <1>9, CountIs DEF TypeInv
  <2> QED
    BY <1>9, <2>1 DEF CountSoft, TypeInv, ledgerVars, effectVars, historyVars, Fault, NoFault
<1>10. ASSUME NEW d \in Drains, UpsertSoft(d) PROVE TypeInv'
  <2>1. drain[d] \in Local
    BY DEF TypeInv
  <2>2. soft' \in Nat
    BY <1>10, <2>1 DEF UpsertSoft, SoftAfter, Local
  <2>3. [drain[d] EXCEPT !.step = "settle", !.seen = 0] \in Local
    BY <2>1 DEF Local
  <2>4. drain' \in [Drains -> Local]
    BY <1>10, <2>3 DEF UpsertSoft, TypeInv
  <2> QED
    BY <1>10, <2>2, <2>4 DEF UpsertSoft, TypeInv, ledgerVars, historyVars
<1>11. ASSUME NEW d \in Drains, Emit(d) PROVE TypeInv'
  <2>1. drain' \in [Drains -> Local]
    BY <1>11, GoIs DEF Emit, TypeInv
  <2> QED
    BY <1>11, <2>1 DEF Emit, TypeInv, ledgerVars, historyVars, Fault, NoFault
<1>12. ASSUME NEW d \in Drains, Settle(d) PROVE TypeInv'
  <2>1. PICK e \in Events : SettleOf(d, e)
    BY <1>12 DEF Settle, SettleOf
  <2>2. drain' \in [Drains -> Local]
    BY <2>1, LeaveIs DEF TypeInv, SettleOf
  <2>3. trouble' \in [Events -> 0..MaxAttempts]
    BY <2>1, TroubledIs DEF TypeInv, SettleOf
  <2>4. status' \in [Events -> Statuses]
    BY <2>1 DEF TypeInv, SettleOf, Statuses
  <2> QED
    BY <2>1, <2>2, <2>3, <2>4 DEF TypeInv, SettleOf, effectVars, Fault, NoFault
<1>13. ASSUME NEW d \in Drains, Crash(d) PROVE TypeInv'
  BY <1>0, <1>13 DEF Crash, TypeInv, ledgerVars, historyVars, Fault
<1>14. ASSUME NEW S \in SUBSET Events, ReapStrandedEvents(S) PROVE TypeInv'
  <2>1. trouble' \in [Events -> 0..MaxAttempts]
    BY <1>14, TroubledIs DEF TypeInv, ReapStrandedEvents
  <2> QED
    BY <1>14, <2>1 DEF ReapStrandedEvents, ReapedStatus, TypeInv, effectVars, Statuses
<1>15. CASE UNCHANGED vars
  BY <1>15 DEF vars, ledgerVars, effectVars, historyVars, TypeInv
<1> QED
  BY <1>1, <1>2, <1>3, <1>4, <1>5, <1>6, <1>7, <1>8, <1>9, <1>10, <1>11, <1>12, <1>13, <1>14, <1>15
     DEF Next, DrainStep

-----------------------------------------------------------------------------
(* What is in the ledger stays there.                                        *)

LEMMA LedgerGrows == TypeInv /\ [Next]_vars => InLedger \subseteq InLedger'
<1> SUFFICES ASSUME TypeInv, [Next]_vars, NEW x \in Events, status[x] # "absent"
             PROVE  status'[x] # "absent"
  BY DEF InLedger
<1> USE DEF TypeInv
<1>1. CASE UNCHANGED status
  BY <1>1
<1>2. CASE \E e \in Events : Receive(e)
  BY <1>2 DEF Receive
<1>3. ASSUME NEW d \in Drains, ClaimPendingEvents(d) PROVE status'[x] # "absent"
  <2>1. PICK S \in SUBSET Pending : \E e \in S : ClaimOf(d, S, e)
    BY <1>3, ClaimIs
  <2>2. status' = [y \in Events |-> IF y \in S THEN "processing" ELSE status[y]]
    BY <2>1 DEF ClaimOf
  <2> QED
    BY <2>2
<1>4. ASSUME NEW d \in Drains, DeferEvent(d) PROVE status'[x] # "absent"
  BY <1>4 DEF DeferEvent
<1>5. ASSUME NEW d \in Drains, Settle(d) PROVE status'[x] # "absent"
  BY <1>5 DEF Settle
<1>6. ASSUME NEW S \in SUBSET Events, ReapStrandedEvents(S) PROVE status'[x] # "absent"
  BY <1>6 DEF ReapStrandedEvents, ReapedStatus
<1>7. \/ UNCHANGED status
      \/ \E e \in Events : Receive(e)
      \/ \E d \in Drains : ClaimPendingEvents(d) \/ DeferEvent(d) \/ Settle(d)
      \/ \E S \in SUBSET Events : ReapStrandedEvents(S)
  BY DEF Next, DrainStep, vars, ledgerVars, Ripen, Trigger, Suppress, CheckRates, Pause,
         CountSoft, UpsertSoft, Emit, Crash
<1> QED
  BY <1>1, <1>2, <1>3, <1>4, <1>5, <1>6, <1>7

-----------------------------------------------------------------------------
(* What a drain has in hand: rows of the ledger, of the kind its step is for. *)

HandInv ==
    \A d \in Drains :
        /\ drain[d].cur \cup drain[d].batch \subseteq InLedger
        /\ drain[d].step = "count" => \E e \in SoftBounces : drain[d].cur = {e}
        /\ drain[d].step \in {"rates", "pause"} => \E e \in Complaints : drain[d].cur = {e}

LEMMA HandNext == TypeInv /\ HandInv /\ [Next]_vars => HandInv'
<1> SUFFICES ASSUME TypeInv, HandInv, [Next]_vars PROVE HandInv'
  OBVIOUS
<1> DEFINE Hand(x) ==
      /\ drain'[x].cur \cup drain'[x].batch \subseteq InLedger'
      /\ drain'[x].step = "count" => \E e \in SoftBounces : drain'[x].cur = {e}
      /\ drain'[x].step \in {"rates", "pause"} => \E e \in Complaints : drain'[x].cur = {e}
<1> SUFFICES \A x \in Drains : Hand(x)
  BY DEF HandInv
<1>0. InLedger \subseteq InLedger' /\ drain \in [Drains -> Local]
  BY LedgerGrows DEF TypeInv
<1>1. ASSUME NEW x \in Drains, drain'[x] = drain[x] PROVE Hand(x)
  BY <1>0, <1>1 DEF HandInv
<1>2. ASSUME NEW d \in Drains,
             \A x \in Drains \ {d} : drain'[x] = drain[x], Hand(d)
      PROVE  \A x \in Drains : Hand(x)
  BY <1>1, <1>2
<1> HIDE DEF Hand
<1>3. CASE UNCHANGED drain
  BY <1>1, <1>3
<1>4. ASSUME NEW d \in Drains, ClaimPendingEvents(d) PROVE \A x \in Drains : Hand(x)
  <2>1. PICK S \in SUBSET Pending : \E e \in S : ClaimOf(d, S, e)
    BY <1>4, ClaimIs
  <2>2. PICK e \in S : ClaimOf(d, S, e)
    BY <2>1
  <2>3. S \subseteq InLedger
    BY DEF Pending, InLedger
  <2>4. Hand(d)
    BY <1>0, <2>2, <2>3 DEF Hand, ClaimOf
  <2> QED
    BY <1>2, <2>2, <2>4 DEF ClaimOf
<1>5. ASSUME NEW d \in Drains, NEW e \in Events, Leave(d, e) PROVE \A x \in Drains : Hand(x)
  <2>1. Hand(d)
    BY <1>0, <1>5, LeaveIs DEF Hand, HandInv
  <2> QED
    BY <1>0, <1>2, <1>5, <2>1, LeaveIs
<1>6. ASSUME NEW d \in Drains, Go(d, "settle") \/ Go(d, "failed") PROVE \A x \in Drains : Hand(x)
  <2>1. Hand(d)
    BY <1>0, <1>6, GoIs DEF Hand, HandInv
  <2> QED
    BY <1>0, <1>2, <1>6, <2>1, GoIs
<1>7. ASSUME NEW d \in Drains, NEW s \in {"rates", "pause"}, Go(d, s),
             \E e \in Complaints : drain[d].cur = {e}
      PROVE  \A x \in Drains : Hand(x)
  <2>1. Hand(d)
    BY <1>0, <1>7, GoIs DEF Hand, HandInv
  <2> QED
    BY <1>0, <1>2, <1>7, <2>1, GoIs
<1>8. ASSUME NEW d \in Drains, CountSoft(d) PROVE \A x \in Drains : Hand(x)
  <2>1. Hand(d)
    BY <1>0, <1>8, CountIs DEF Hand, HandInv, CountSoft, Cur
  <2> QED
    BY <1>2, <1>8, <2>1, CountIs
<1>9. ASSUME NEW d \in Drains, UpsertSoft(d) PROVE \A x \in Drains : Hand(x)
  <2>1. /\ drain'[d].step = "settle"
        /\ drain'[d].cur = drain[d].cur /\ drain'[d].batch = drain[d].batch
        /\ \A x \in Drains \ {d} : drain'[x] = drain[x]
    BY <1>0, <1>9 DEF UpsertSoft, Local
  <2>2. Hand(d)
    BY <1>0, <2>1 DEF Hand, HandInv
  <2> QED
    BY <1>2, <2>1, <2>2
<1>10. ASSUME NEW d \in Drains, Crash(d) PROVE \A x \in Drains : Hand(x)
  <2>1. Hand(d)
    BY <1>0, <1>10 DEF Crash, Hand, Idle
  <2> QED
    BY <1>0, <1>2, <1>10, <2>1 DEF Crash
<1>11. ASSUME NEW d \in Drains, Suppress(d) PROVE \A x \in Drains : Hand(x)
  BY <1>6, <1>7, <1>11 DEF Suppress, Cur
<1>12. ASSUME NEW d \in Drains, CheckRates(d) PROVE \A x \in Drains : Hand(x)
  BY <1>6, <1>7, <1>12 DEF CheckRates, HandInv
<1>13. ASSUME NEW d \in Drains, DeferEvent(d) \/ Settle(d) PROVE \A x \in Drains : Hand(x)
  BY <1>5, <1>13 DEF DeferEvent, Settle
<1>14. ASSUME NEW d \in Drains, Pause(d) \/ Emit(d) PROVE \A x \in Drains : Hand(x)
  BY <1>6, <1>14 DEF Pause, Emit
<1> QED
  BY <1>3, <1>4, <1>8, <1>9, <1>10, <1>11, <1>12, <1>13, <1>14
     DEF Next, DrainStep, Receive, Ripen, Trigger, ReapStrandedEvents, vars

-----------------------------------------------------------------------------
(* DoneMeansSuppressed: whoever is past the suppression has made it.          *)

DoneInv ==
    /\ DoneMeansSuppressed
    /\ \A d \in Drains, e \in Bearing :
          drain[d].cur = {e} /\ drain[d].step \in {"rates", "pause", "settle"} => e \in suppressed

LEMMA BearingIs ==
    /\ Bearing \cap Opens = {} /\ Bearing \cap SoftBounces = {}
    /\ Complaints \subseteq Bearing
    /\ \A e \in Bearing : ~LedgerOnly(e)
BY DEF Bearing, Opens, SoftBounces, Complaints, LedgerOnly

LEMMA DoneNext == TypeInv /\ HandInv /\ DoneInv /\ [Next]_vars => DoneInv'
<1> SUFFICES ASSUME TypeInv, HandInv, DoneInv, [Next]_vars PROVE DoneInv'
  OBVIOUS
<1> DEFINE Did(x) == \A e \in Bearing :
      drain'[x].cur = {e} /\ drain'[x].step \in {"rates", "pause", "settle"} => e \in suppressed'
           Acked == \A e \in Bearing : status'[e] = "done" => e \in suppressed'
<1> SUFFICES Acked /\ \A x \in Drains : Did(x)
  BY DEF DoneInv, DoneMeansSuppressed
<1>0. suppressed \subseteq suppressed' /\ drain \in [Drains -> Local] /\ Bearing \subseteq Events
      /\ status \in [Events -> Statuses]
  BY DEF Next, DrainStep, Receive, Ripen, Trigger, ClaimPendingEvents, DeferEvent, Suppress, CheckRates,
         Pause, CountSoft, UpsertSoft, Emit, Settle, Crash, ReapStrandedEvents, vars, effectVars, TypeInv, Bearing
<1>1. ASSUME NEW x \in Drains, drain'[x] = drain[x] PROVE Did(x)
  BY <1>0, <1>1 DEF DoneInv
<1>2. ASSUME NEW x \in Drains, drain'[x].step \notin {"rates", "pause", "settle"} PROVE Did(x)
  BY <1>2
<1>3. ASSUME UNCHANGED status PROVE Acked
  BY <1>0, <1>3 DEF DoneInv, DoneMeansSuppressed
<1> HIDE DEF Did
<1>4. CASE \E e \in Events : Receive(e)
  <2>1. Acked
    BY <1>0, <1>4, BearingIs DEF Receive, DoneInv, DoneMeansSuppressed
  <2> QED
    BY <1>1, <1>4, <2>1 DEF Receive
<1>5. CASE UNCHANGED <<status, drain>>
  BY <1>1, <1>3, <1>5
<1>6. ASSUME NEW d \in Drains, ClaimPendingEvents(d) PROVE Acked /\ \A x \in Drains : Did(x)
  <2>1. PICK S \in SUBSET Pending : \E e \in S : ClaimOf(d, S, e)
    BY <1>6, ClaimIs
  <2>2. PICK e \in S : ClaimOf(d, S, e)
    BY <2>1
  <2>3. Acked
    BY <1>0, <2>2 DEF ClaimOf, DoneInv, DoneMeansSuppressed
  <2> QED
    BY <1>1, <1>2, <2>2, <2>3 DEF ClaimOf
<1>7. ASSUME NEW d \in Drains, DeferEvent(d) PROVE Acked /\ \A x \in Drains : Did(x)
  <2>1. Acked
    BY <1>0, <1>7 DEF DeferEvent, DoneInv, DoneMeansSuppressed
  <2>2. \E e \in Events : Leave(d, e)
    BY <1>7 DEF DeferEvent
  <2> QED
    BY <1>0, <1>1, <1>2, <2>1, <2>2, LeaveIs
<1>8. ASSUME NEW d \in Drains, Suppress(d) PROVE Acked /\ \A x \in Drains : Did(x)
  <2>1. PICK e \in Bearing :
            /\ drain[d].cur = {e}
            /\ \/ /\ suppressed' = suppressed \cup {e}
                  /\ Go(d, IF e \in Complaints THEN "rates" ELSE "settle")
               \/ Go(d, "failed")
    BY <1>8 DEF Suppress, Cur
  <2>2. CASE Go(d, "failed")
    BY <1>0, <1>1, <1>2, <1>3, <1>8, <2>2, GoIs DEF Suppress, ledgerVars
  <2>3. CASE suppressed' = suppressed \cup {e} /\ Go(d, IF e \in Complaints THEN "rates" ELSE "settle")
    <3>1. drain'[d].cur = {e} /\ \A x \in Drains \ {d} : drain'[x] = drain[x]
      BY <1>0, <2>1, <2>3, GoIs
    <3>2. Did(d)
      BY <2>3, <3>1 DEF Did
    <3> QED
      BY <1>1, <1>3, <1>8, <3>1, <3>2 DEF Suppress, ledgerVars
  <2> QED
    BY <2>1, <2>2, <2>3
<1>9. ASSUME NEW d \in Drains, CheckRates(d) \/ Pause(d) PROVE Acked /\ \A x \in Drains : Did(x)
  <2>1. drain[d].step \in {"rates", "pause"} /\ (Go(d, "pause") \/ Go(d, "settle")) /\ UNCHANGED status
    BY <1>9 DEF CheckRates, Pause, ledgerVars
  <2>2. drain'[d].cur = drain[d].cur /\ \A x \in Drains \ {d} : drain'[x] = drain[x]
    BY <1>0, <2>1, GoIs
  <2>3. Did(d)
    BY <1>0, <2>1, <2>2 DEF DoneInv, Did
  <2> QED
    BY <1>1, <1>3, <2>1, <2>2, <2>3
<1>10. ASSUME NEW d \in Drains, CountSoft(d) PROVE Acked /\ \A x \in Drains : Did(x)
  BY <1>1, <1>2, <1>3, <1>10, CountIs DEF CountSoft, ledgerVars
<1>11. ASSUME NEW d \in Drains, UpsertSoft(d) PROVE Acked /\ \A x \in Drains : Did(x)
  <2>1. drain'[d].cur = drain[d].cur /\ \A x \in Drains \ {d} : drain'[x] = drain[x]
    BY <1>0, <1>11 DEF UpsertSoft, Local
  <2>2. Did(d)
    BY <1>11, <2>1, BearingIs DEF UpsertSoft, HandInv, Did
  <2> QED
    BY <1>1, <1>3, <1>11, <2>1, <2>2 DEF UpsertSoft, ledgerVars
<1>12. ASSUME NEW d \in Drains, Emit(d) PROVE Acked /\ \A x \in Drains : Did(x)
  <2>1. PICK e \in Opens : drain[d].cur = {e} /\ Go(d, "settle")
    BY <1>12 DEF Emit, Cur
  <2>2. drain'[d].cur = {e} /\ \A x \in Drains \ {d} : drain'[x] = drain[x]
    BY <1>0, <2>1, GoIs
  <2>3. Did(d)
    BY <2>2, BearingIs DEF Did
  <2> QED
    BY <1>1, <1>3, <1>12, <2>2, <2>3 DEF Emit, ledgerVars
<1>13. ASSUME NEW d \in Drains, Settle(d) PROVE Acked /\ \A x \in Drains : Did(x)
  <2>1. PICK e \in Events : SettleOf(d, e)
    BY <1>13 DEF Settle, SettleOf
  <2>2. Acked
    BY <1>0, <2>1 DEF SettleOf, Cur, DoneInv, DoneMeansSuppressed
  <2> QED
    BY <1>0, <1>1, <1>2, <2>1, <2>2, LeaveIs DEF SettleOf
<1>14. ASSUME NEW d \in Drains, Crash(d) PROVE Acked /\ \A x \in Drains : Did(x)
  BY <1>0, <1>1, <1>2, <1>3, <1>14 DEF Crash, ledgerVars, Idle
<1>15. ASSUME NEW S \in SUBSET Events, ReapStrandedEvents(S) PROVE Acked /\ \A x \in Drains : Did(x)
  <2>1. Acked
    BY <1>0, <1>15 DEF ReapStrandedEvents, ReapedStatus, DoneInv, DoneMeansSuppressed
  <2> QED
    BY <1>1, <1>15, <2>1 DEF ReapStrandedEvents
<1> QED
  BY <1>4, <1>5, <1>6, <1>7, <1>8, <1>9, <1>10, <1>11, <1>12, <1>13, <1>14, <1>15
     DEF Next, DrainStep, Ripen, Trigger, vars, ledgerVars

-----------------------------------------------------------------------------
(* SoftCountBacked: counts and snapshots are of the ledger, which only grows. *)

Bounced == Cardinality(SoftBounces \cap InLedger)
SoftInv == soft <= Bounced /\ \A d \in Drains : drain[d].seen <= Bounced

\* Fewer events are not counted as more.
LEMMA CountGrows ==
    ASSUME NEW S \in SUBSET Events, NEW T \in SUBSET S
    PROVE  Cardinality(S) \in Nat /\ Cardinality(T) \in Nat /\ Cardinality(T) <= Cardinality(S)
<1>1. IsFiniteSet(S)
  BY EventAssumption, FS_Subset
<1>2. IsFiniteSet(T) /\ Cardinality(T) <= Cardinality(S)
  BY <1>1, FS_Subset
<1> QED
  BY <1>1, <1>2, FS_CardinalityType

LEMMA BouncedGrows ==
    TypeInv /\ [Next]_vars => Bounced \in Nat /\ Bounced' \in Nat /\ Bounced <= Bounced'
<1> SUFFICES ASSUME TypeInv, [Next]_vars PROVE Bounced \in Nat /\ Bounced' \in Nat /\ Bounced <= Bounced'
  OBVIOUS
<1>1. /\ SoftBounces \cap InLedger' \in SUBSET Events
      /\ SoftBounces \cap InLedger \in SUBSET (SoftBounces \cap InLedger')
  BY LedgerGrows DEF SoftBounces
<1> QED
  BY <1>1, CountGrows DEF Bounced

LEMMA SoftNext == TypeInv /\ SoftInv /\ [Next]_vars => SoftInv'
<1> SUFFICES ASSUME TypeInv, SoftInv, [Next]_vars PROVE SoftInv'
  OBVIOUS
<1>0. /\ Bounced \in Nat /\ Bounced' \in Nat /\ Bounced <= Bounced'
      /\ drain \in [Drains -> Local] /\ soft \in Nat
      /\ \A x \in Drains : drain[x].seen \in Nat
  BY BouncedGrows DEF TypeInv, Local
<1>1. ASSUME UNCHANGED soft,
             \A x \in Drains : drain'[x].seen \in {0, drain[x].seen, Bounced}
      PROVE  SoftInv'
  BY <1>0, <1>1 DEF SoftInv
<1>2. ASSUME NEW d \in Drains, ClaimPendingEvents(d) PROVE SoftInv'
  <2>1. PICK S \in SUBSET Pending : \E e \in S : ClaimOf(d, S, e)
    BY <1>2, ClaimIs
  <2> QED
    BY <1>1, <1>2, <2>1 DEF ClaimOf, ClaimPendingEvents, effectVars
<1>3. ASSUME NEW d \in Drains, DeferEvent(d) \/ Settle(d) PROVE SoftInv'
  <2>1. PICK e \in Events : Leave(d, e) /\ UNCHANGED soft
    BY <1>3 DEF DeferEvent, Settle, effectVars
  <2> QED
    BY <1>0, <1>1, <2>1, LeaveIs
<1>4. ASSUME NEW d \in Drains, Suppress(d) \/ CheckRates(d) \/ Pause(d) \/ Emit(d) PROVE SoftInv'
  <2>1. PICK s \in {"rates", "pause", "settle", "failed"} : Go(d, s) /\ UNCHANGED soft
    BY <1>4 DEF Suppress, CheckRates, Pause, Emit, effectVars
  <2> QED
    BY <1>0, <1>1, <2>1, GoIs
<1>5. ASSUME NEW d \in Drains, CountSoft(d) PROVE SoftInv'
  BY <1>1, <1>5, CountIs DEF CountSoft, effectVars, Bounced
<1>6. ASSUME NEW d \in Drains, UpsertSoft(d) PROVE SoftInv'
  <2>1. soft' = drain[d].seen /\ \A x \in Drains : drain'[x].seen \in {0, drain[x].seen}
    BY <1>0, <1>6 DEF UpsertSoft, SoftAfter, Local
  <2> QED
    BY <1>0, <2>1 DEF SoftInv
<1>7. ASSUME NEW d \in Drains, Crash(d) PROVE SoftInv'
  BY <1>0, <1>1, <1>7 DEF Crash, Idle
<1>8. CASE UNCHANGED <<soft, drain>>
  BY <1>1, <1>8
<1> QED
  BY <1>2, <1>3, <1>4, <1>5, <1>6, <1>7, <1>8
     DEF Next, DrainStep, Receive, Ripen, Trigger, ReapStrandedEvents, vars, effectVars

-----------------------------------------------------------------------------
(* BreakerTrips: while the rate is reached and nothing is paused, there is a  *)
(* complaint that no drain has taken past its check: the last one received is. *)

Unchecked(e) ==
    /\ e \in Rated /\ status[e] # "done"
    /\ \A d \in Drains : drain[d].cur = {e} => drain[d].step \in {"apply", "rates", "pause", "failed"}
BreakerInv ==
    Cardinality(Rated) >= TripAt /\ ~paused /\ ~missed => \E e \in Complaints : Unchecked(e)

LEMMA BreakerNext == TypeInv /\ HandInv /\ BreakerInv /\ [Next]_vars => BreakerInv'
<1> SUFFICES ASSUME TypeInv, HandInv, BreakerInv, [Next]_vars,
                    (Cardinality(Rated) >= TripAt)', ~paused', ~missed'
             PROVE  \E e \in Complaints : Unchecked(e)'
  BY DEF BreakerInv
<1>0. /\ InLedger \subseteq InLedger' /\ Complaints \subseteq Events
      /\ drain \in [Drains -> Local] /\ status \in [Events -> Statuses]
  BY LedgerGrows DEF TypeInv, Complaints
<1>1. ~paused /\ ~missed
  <2>1. CASE UNCHANGED <<paused, missed>>
    BY <2>1
  <2>2. ASSUME NEW d \in Drains, CheckRates(d) PROVE ~paused /\ ~missed
    <3>1. paused' = paused
      BY <2>2 DEF CheckRates, effectVars
    <3>2. missed' = missed \/ missed' = TRUE
      BY <2>2, Zenon DEF CheckRates
    <3> QED
      BY <3>1, <3>2
  <2>3. ASSUME NEW d \in Drains, Pause(d) PROVE ~paused /\ ~missed
    BY <2>3, Zenon DEF Pause
  <2> QED
    BY <2>1, <2>2, <2>3
       DEF Next, DrainStep, Receive, Ripen, Trigger, ClaimPendingEvents, DeferEvent, Suppress,
           CountSoft, UpsertSoft, Emit, Settle, Crash, ReapStrandedEvents, vars, effectVars, historyVars
<1>2. ASSUME NEW e \in Complaints, Receive(e) PROVE \E x \in Complaints : Unchecked(x)'
  <2>1. e \in Rated' /\ status'[e] # "done"
    BY <1>0, <1>2, BearingIs DEF Receive, InLedger, Rated
  <2>2. \A d \in Drains : drain'[d].cur # {e}
    BY <1>2 DEF Receive, HandInv
  <2> QED
    BY <2>1, <2>2 DEF Unchecked
<1> SUFFICES ASSUME \A e \in Complaints : ~Receive(e)
             PROVE  \E e \in Complaints : Unchecked(e)'
  BY <1>2
<1>3. Rated' = Rated
  <2>1. ASSUME NEW x \in Complaints, x \notin InLedger PROVE x \notin InLedger'
    <3>1. ASSUME NEW e \in Events, Receive(e) PROVE status'[x] = "absent"
      <4>1. e # x
        BY <3>1
      <4> QED
        BY <1>0, <2>1, <3>1, <4>1 DEF Receive, InLedger
    <3>2. ASSUME NEW d \in Drains, ClaimPendingEvents(d) PROVE status'[x] = "absent"
      <4>1. PICK S \in SUBSET Pending : \E e \in S : ClaimOf(d, S, e)
        BY <3>2, ClaimIs
      <4>2. x \notin S /\ status[x] = "absent"
        BY <1>0, <2>1 DEF InLedger, Pending
      <4> QED
        BY <1>0, <4>1, <4>2 DEF ClaimOf
    <3>3. ASSUME NEW d \in Drains, DeferEvent(d) \/ Settle(d) PROVE status'[x] = "absent"
      <4>1. drain[d].cur # {x} /\ status[x] = "absent"
        BY <1>0, <2>1 DEF HandInv, InLedger
      <4>2. CASE DeferEvent(d)
        BY <1>0, <4>1, <4>2 DEF DeferEvent, Cur
      <4>3. CASE Settle(d)
        BY <1>0, <4>1, <4>3 DEF Settle, Cur
      <4> QED
        BY <3>3, <4>2, <4>3
    <3>4. ASSUME NEW S \in SUBSET Events, ReapStrandedEvents(S) PROVE status'[x] = "absent"
      BY <1>0, <2>1, <3>4 DEF ReapStrandedEvents, InLedger
    <3>5. CASE UNCHANGED status
      BY <1>0, <2>1, <3>5 DEF InLedger
    <3> QED
      BY <1>0, <3>1, <3>2, <3>3, <3>4, <3>5
         DEF Next, DrainStep, InLedger, vars, ledgerVars, Ripen, Trigger, Suppress, CheckRates, Pause,
             CountSoft, UpsertSoft, Emit, Crash
  <2> QED
    BY <1>0, <2>1 DEF Rated
<1>4. Cardinality(Rated) >= TripAt
  BY <1>3
<1>5. PICK w \in Complaints : Unchecked(w)
  BY <1>1, <1>4 DEF BreakerInv
<1> SUFFICES /\ status'[w] # "done"
             /\ \A d \in Drains : drain'[d].cur = {w} => drain'[d].step \in {"apply", "rates", "pause", "failed"}
  BY <1>3, <1>5 DEF Unchecked
<1> DEFINE Still(x) == drain'[x].cur = {w} => drain'[x].step \in {"apply", "rates", "pause", "failed"}
<1>6. ASSUME NEW x \in Drains, drain'[x] = drain[x] PROVE Still(x)
  BY <1>5, <1>6 DEF Unchecked
<1>7. status[w] # "done" /\ w \in Events
  BY <1>0, <1>5 DEF Unchecked
<1> HIDE DEF Still
<1> SUFFICES status'[w] # "done" /\ \A d \in Drains : Still(d)
  BY DEF Still
<1>8. CASE UNCHANGED drain /\ \E e \in Events : Receive(e)
  BY <1>0, <1>6, <1>7, <1>8, <1>5 DEF Receive
<1>9. CASE UNCHANGED <<status, drain>>
  BY <1>6, <1>7, <1>9
<1>10. ASSUME NEW d \in Drains, ClaimPendingEvents(d) PROVE status'[w] # "done" /\ \A x \in Drains : Still(x)
  <2>1. PICK S \in SUBSET Pending : \E e \in S : ClaimOf(d, S, e)
    BY <1>10, ClaimIs
  <2> QED
    BY <1>6, <1>7, <2>1 DEF ClaimOf, Still
<1>11. ASSUME NEW d \in Drains, NEW e \in Events, Leave(d, e) PROVE \A x \in Drains : Still(x)
  <2>1. /\ drain'[d].step \in {"idle", "apply"} /\ \A x \in Drains \ {d} : drain'[x] = drain[x]
        /\ drain'[d].step = "idle" => drain'[d].cur = {}
    BY <1>0, <1>11, LeaveIs
  <2> QED
    BY <1>6, <2>1 DEF Still
<1>12. ASSUME NEW d \in Drains, DeferEvent(d) PROVE status'[w] # "done" /\ \A x \in Drains : Still(x)
  BY <1>0, <1>7, <1>11, <1>12 DEF DeferEvent
<1>13. ASSUME NEW d \in Drains, Settle(d) PROVE status'[w] # "done" /\ \A x \in Drains : Still(x)
  <2>1. PICK e \in Events : SettleOf(d, e)
    BY <1>13 DEF Settle, SettleOf
  <2>2. e = w => drain[d].step # "settle"
    BY <1>5, <2>1 DEF SettleOf, Cur, Unchecked
  <2>3. status'[w] # "done"
    BY <1>0, <1>7, <2>1, <2>2 DEF SettleOf
  <2> QED
    BY <1>11, <2>1, <2>3 DEF SettleOf
<1>14. ASSUME NEW d \in Drains, NEW s \in {"apply", "rates", "pause", "failed"}, Go(d, s)
       PROVE  \A x \in Drains : Still(x)
  <2>1. drain'[d].step = s /\ \A x \in Drains \ {d} : drain'[x] = drain[x]
    BY <1>0, <1>14, GoIs
  <2>2. Still(d)
    BY <2>1 DEF Still
  <2> QED
    BY <1>6, <2>1, <2>2
<1>15. ASSUME NEW d \in Drains, Suppress(d) PROVE status'[w] # "done" /\ \A x \in Drains : Still(x)
  <2>1. PICK e \in Bearing :
            /\ drain[d].cur = {e}
            /\ Go(d, IF e \in Complaints THEN "rates" ELSE "settle") \/ Go(d, "failed")
    BY <1>15 DEF Suppress, Cur
  <2>2. CASE e \in Complaints
    BY <1>7, <1>14, <1>15, <2>1, <2>2 DEF Suppress, ledgerVars
  <2>3. CASE e \notin Complaints /\ Go(d, "settle")
    <3>1. drain'[d].cur # {w} /\ \A x \in Drains \ {d} : drain'[x] = drain[x]
      BY <1>0, <2>1, <2>3, GoIs
    <3> QED
      BY <1>6, <1>7, <1>15, <3>1 DEF Still, Suppress, ledgerVars
  <2>4. CASE Go(d, "failed")
    BY <1>7, <1>14, <1>15, <2>4 DEF Suppress, ledgerVars
  <2> QED
    BY <2>1, <2>2, <2>3, <2>4
<1>16. ASSUME NEW d \in Drains, CheckRates(d) PROVE status'[w] # "done" /\ \A x \in Drains : Still(x)
  <2>1. Go(d, "pause") /\ UNCHANGED status
    BY <1>4, <1>16 DEF CheckRates, ledgerVars
  <2> QED
    BY <1>7, <1>14, <2>1
<1>17. ASSUME NEW d \in Drains, Pause(d) PROVE FALSE
  BY <1>17 DEF Pause
<1>18. ASSUME NEW d \in Drains, CountSoft(d) PROVE status'[w] # "done" /\ \A x \in Drains : Still(x)
  <2>1. drain[d].cur # {w}
    BY <1>18, BearingIs DEF CountSoft, Cur
  <2>2. drain'[d].cur # {w} /\ \A x \in Drains \ {d} : drain'[x] = drain[x]
    BY <1>18, <2>1, CountIs
  <2> QED
    BY <1>6, <1>7, <1>18, <2>2 DEF Still, CountSoft, ledgerVars
<1>19. ASSUME NEW d \in Drains, UpsertSoft(d) PROVE status'[w] # "done" /\ \A x \in Drains : Still(x)
  <2>1. drain[d].cur # {w}
    BY <1>19, BearingIs DEF UpsertSoft, HandInv
  <2>2. drain'[d].cur # {w} /\ \A x \in Drains \ {d} : drain'[x] = drain[x]
    BY <1>0, <1>19, <2>1 DEF UpsertSoft, Local
  <2> QED
    BY <1>6, <1>7, <1>19, <2>2 DEF Still, UpsertSoft, ledgerVars
<1>20. ASSUME NEW d \in Drains, Emit(d) PROVE status'[w] # "done" /\ \A x \in Drains : Still(x)
  <2>1. drain[d].cur # {w} /\ Go(d, "settle")
    BY <1>20, BearingIs DEF Emit, Cur
  <2>2. drain'[d].cur # {w} /\ \A x \in Drains \ {d} : drain'[x] = drain[x]
    BY <1>0, <2>1, GoIs
  <2> QED
    BY <1>6, <1>7, <1>20, <2>2 DEF Still, Emit, ledgerVars
<1>21. ASSUME NEW d \in Drains, Crash(d) PROVE status'[w] # "done" /\ \A x \in Drains : Still(x)
  <2>1. drain'[d].cur # {w} /\ \A x \in Drains \ {d} : drain'[x] = drain[x]
    BY <1>0, <1>21 DEF Crash, Idle
  <2> QED
    BY <1>6, <1>7, <1>21, <2>1 DEF Still, Crash, ledgerVars
<1>22. ASSUME NEW S \in SUBSET Events, ReapStrandedEvents(S)
       PROVE  status'[w] # "done" /\ \A x \in Drains : Still(x)
  BY <1>0, <1>6, <1>7, <1>22 DEF ReapStrandedEvents, ReapedStatus
<1> QED
  BY <1>8, <1>9, <1>10, <1>12, <1>13, <1>15, <1>16, <1>17, <1>18, <1>19, <1>20, <1>21, <1>22
     DEF Next, DrainStep, Receive, Ripen, Trigger, vars, ledgerVars

-----------------------------------------------------------------------------
(* PrefetchStartsNothing: nothing is started before its grace is over, and a  *)
(* delivered event that was there by then is still there.                     *)

PrefetchInv ==
    /\ PrefetchStartsNothing
    /\ inTime \subseteq ripe /\ triggering \cup enrolled \subseteq ripe
    /\ \A e \in inTime : DeliveredOf[e] \in InLedger

LEMMA PrefetchNext == TypeInv /\ PrefetchInv /\ [Next]_vars => PrefetchInv'
<1> SUFFICES ASSUME TypeInv, PrefetchInv, [Next]_vars PROVE PrefetchInv'
  OBVIOUS
<1> USE DEF PrefetchInv, PrefetchStartsNothing
<1>0. InLedger \subseteq InLedger'
  BY LedgerGrows
<1>1. CASE UNCHANGED <<ripe, inTime>> /\ triggering' \cup enrolled' \subseteq triggering \cup enrolled
  BY <1>0, <1>1
<1>2. ASSUME NEW e \in Events, Ripen(e) PROVE PrefetchInv'
  <2>1. e \notin inTime /\ e \notin triggering \cup enrolled /\ ripe' = ripe \cup {e}
        /\ UNCHANGED <<triggering, enrolled>>
    BY <1>2 DEF Ripen, effectVars
  <2>2. inTime' = inTime \/ (inTime' = inTime \cup {e} /\ DeliveredOf[e] \in InLedger)
    BY <1>2 DEF Ripen
  <2> QED
    BY <1>0, <2>1, <2>2
<1>3. ASSUME NEW d \in Drains, Emit(d) PROVE PrefetchInv'
  <2>1. PICK e \in Opens :
            /\ ~ShouldDefer(e)
            /\ triggering' = triggering \/ (triggering' = triggering \cup {e} /\ Human(e))
    BY <1>3 DEF Emit
  <2>2. e \in ripe
    BY <2>1 DEF ShouldDefer
  <2>3. Human(e) => e \notin inTime
    BY DEF Human
  <2> QED
    BY <1>0, <1>3, <2>1, <2>2, <2>3 DEF Emit, historyVars
<1>4. ASSUME NEW e \in Events, Trigger(e) PROVE PrefetchInv'
  BY <1>0, <1>4 DEF Trigger, historyVars
<1> QED
  BY <1>1, <1>2, <1>3, <1>4
     DEF Next, DrainStep, Receive, ClaimPendingEvents, DeferEvent, Suppress, CheckRates, Pause, CountSoft,
         UpsertSoft, Settle, Crash, ReapStrandedEvents, vars, effectVars, historyVars

-----------------------------------------------------------------------------
(* FailedMeansTried: every attempt but the one under way has failed or been   *)
(* abandoned, also for a drain that goes on with a claim it has lost.         *)

\* n attempts are no more than those in trouble, or the event may be given up on.
Owed(e, n) == n <= trouble[e] \/ trouble[e] = MaxAttempts
TriedInv ==
    \A e \in Events :
        /\ status[e] = "failed" => trouble[e] = MaxAttempts
        /\ status[e] \in {"absent", "pending"} => Owed(e, attempts[e])
        /\ Owed(e, attempts[e] - 1)
        /\ \A d \in Drains : Owed(e, drain[d].tries[e] - 1)

LEMMA StillOwed ==
    ASSUME NEW m \in Nat, NEW t \in 0..m, NEW u \in 0..m, NEW n \in Int, NEW k \in Int,
           u >= t, k <= n, n <= t \/ t = m
    PROVE  k <= u \/ u = m
  OBVIOUS

LEMMA OneMoreOwed ==
    ASSUME NEW m \in Nat, NEW t \in 0..m, NEW u \in 0..m, NEW n \in Int,
           u = t + 1 \/ u = m, n - 1 <= t \/ t = m
    PROVE  (n <= u \/ u = m) /\ (n - 1 <= u \/ u = m) /\ (n >= m => u = m)
  OBVIOUS

LEMMA TriedNext == TypeInv /\ TriedInv /\ [Next]_vars => TriedInv'
<1> SUFFICES ASSUME TypeInv, TriedInv, [Next]_vars PROVE TriedInv'
  OBVIOUS
<1> DEFINE Row(x) ==
      /\ status'[x] = "failed" => trouble'[x] = MaxAttempts
      /\ status'[x] \in {"absent", "pending"} => Owed(x, attempts[x])'
      /\ Owed(x, attempts[x] - 1)'
           Copy(d, x) == Owed(x, drain[d].tries[x] - 1)'
<1> SUFFICES \A x \in Events : Row(x) /\ \A d \in Drains : Copy(d, x)
  BY DEF TriedInv
<1>0. /\ drain \in [Drains -> Local] /\ status \in [Events -> Statuses] /\ attempts \in [Events -> Nat]
      /\ trouble \in [Events -> 0..MaxAttempts] /\ MaxAttempts \in Nat \ {0}
      /\ \A d \in Drains : drain[d].tries \in [Events -> Nat]
  BY MailBoundAssumption DEF TypeInv, Local
<1>1. trouble' \in [Events -> 0..MaxAttempts] /\ \A x \in Events : trouble'[x] >= trouble[x]
  <2>1. CASE UNCHANGED trouble
    BY <1>0, <2>1
  <2>2. ASSUME NEW d \in Drains, Settle(d) PROVE <1>1!1 /\ <1>1!2
    BY <1>0, <2>2, TroubledIs DEF Settle
  <2>3. ASSUME NEW S \in SUBSET Events, ReapStrandedEvents(S) PROVE <1>1!1 /\ <1>1!2
    BY <1>0, <2>3, TroubledIs DEF ReapStrandedEvents
  <2> QED
    BY <2>1, <2>2, <2>3
       DEF Next, DrainStep, vars, historyVars, Receive, Ripen, Trigger, ClaimPendingEvents, DeferEvent, Suppress,
           CheckRates, Pause, CountSoft, UpsertSoft, Emit, Crash
<1>2. ASSUME NEW x \in Events, NEW n \in Int, NEW k \in Int, Owed(x, n), k <= n
      PROVE  k <= trouble'[x] \/ trouble'[x] = MaxAttempts
  <2>1. trouble[x] \in 0..MaxAttempts /\ trouble'[x] \in 0..MaxAttempts /\ trouble'[x] >= trouble[x]
    BY <1>0, <1>1
  <2> QED
    BY <1>0, <1>2, <2>1, StillOwed DEF Owed
<1>3. ASSUME NEW x \in Events, status'[x] = status[x], attempts'[x] = attempts[x] PROVE Row(x)
  <2>1. attempts[x] \in Int /\ attempts[x] - 1 \in Int /\ attempts[x] <= attempts[x] /\ attempts[x] - 1 <= attempts[x] - 1
    BY <1>0
  <2>2. status[x] \in {"absent", "pending"} => attempts[x] <= trouble'[x] \/ trouble'[x] = MaxAttempts
    BY <1>2, <2>1 DEF TriedInv
  <2>3. attempts[x] - 1 <= trouble'[x] \/ trouble'[x] = MaxAttempts
    BY <1>2, <2>1 DEF TriedInv
  <2>4. status[x] = "failed" => trouble'[x] = MaxAttempts
    <3>1. trouble[x] \in 0..MaxAttempts /\ trouble'[x] \in 0..MaxAttempts /\ trouble'[x] >= trouble[x]
      BY <1>0, <1>1
    <3> QED
      BY <1>0, <3>1 DEF TriedInv
  <2> QED
    BY <1>3, <2>2, <2>3, <2>4 DEF Owed
<1>4. ASSUME NEW d \in Drains, NEW x \in Events, drain'[d].tries[x] \in {0, drain[d].tries[x]}
      PROVE  Copy(d, x)
  <2>1. drain[d].tries[x] \in Nat /\ trouble'[x] \in Nat
    BY <1>0, <1>1
  <2>2. drain[d].tries[x] - 1 <= trouble'[x] \/ trouble'[x] = MaxAttempts
    <3>1. drain[d].tries[x] - 1 \in Int /\ drain[d].tries[x] - 1 <= drain[d].tries[x] - 1
      BY <2>1
    <3> QED
      BY <1>2, <3>1 DEF TriedInv
  <2> QED
    BY <1>4, <2>1, <2>2 DEF Owed
<1> HIDE DEF Row, Copy
<1>5. ASSUME NEW e \in Events, Receive(e) PROVE \A x \in Events : Row(x) /\ \A d \in Drains : Copy(d, x)
  <2>1. status[e] = "absent" /\ status'[e] \in {"pending", "done"} /\ UNCHANGED <<attempts, trouble, drain>>
    BY <1>0, <1>5 DEF Receive, InLedger, historyVars
  <2>2. Row(e)
    BY <1>0, <2>1 DEF Row, TriedInv, Owed
  <2>3. \A x \in Events \ {e} : Row(x)
    BY <1>0, <1>3, <1>5 DEF Receive
  <2> QED
    BY <1>4, <2>1, <2>2, <2>3
<1>6. ASSUME NEW d \in Drains, ClaimPendingEvents(d)
      PROVE  \A x \in Events : Row(x) /\ \A c \in Drains : Copy(c, x)
  <2>1. PICK S \in SUBSET Pending : \E e \in S : ClaimOf(d, S, e)
    BY <1>6, ClaimIs
  <2>2. UNCHANGED trouble
    BY <1>6 DEF ClaimPendingEvents, historyVars
  <2>3. ASSUME NEW x \in S PROVE Row(x) /\ \A c \in Drains : Copy(c, x)
    <3>1. /\ x \in Events /\ status[x] = "pending" /\ status'[x] = "processing"
          /\ attempts'[x] = attempts[x] + 1
          /\ drain'[d].tries[x] = attempts'[x]
          /\ \A c \in Drains \ {d} : drain'[c] = drain[c]
      BY <1>0, <2>1 DEF ClaimOf, Pending
    <3>2. Owed(x, attempts[x])
      BY <3>1 DEF TriedInv
    <3>3. Owed(x, attempts[x] - 1)' /\ Owed(x, drain[d].tries[x] - 1)'
      BY <1>0, <2>2, <3>1, <3>2 DEF Owed
    <3> QED
      BY <1>4, <3>1, <3>3 DEF Row, Copy
  <2>4. ASSUME NEW x \in Events \ S PROVE Row(x) /\ \A c \in Drains : Copy(c, x)
    BY <1>3, <1>4, <2>1 DEF ClaimOf
  <2> QED
    BY <2>3, <2>4
<1>7. ASSUME NEW d \in Drains, NEW e \in Events, Leave(d, e)
      PROVE  \A x \in Events : \A c \in Drains : Copy(c, x)
  BY <1>0, <1>4, <1>7, LeaveIs
<1>8. ASSUME NEW d \in Drains, DeferEvent(d)
      PROVE  \A x \in Events : Row(x) /\ \A c \in Drains : Copy(c, x)
  <2>1. PICK e \in Events :
            /\ \/ /\ status' = [status EXCEPT ![e] = "pending"]
                  /\ attempts' = [attempts EXCEPT ![e] = IF @ > 0 THEN @ - 1 ELSE 0]
               \/ UNCHANGED <<status, attempts>>
            /\ Leave(d, e) /\ UNCHANGED trouble
    BY <1>8 DEF DeferEvent, historyVars
  <2>2. CASE UNCHANGED <<status, attempts>>
    BY <1>3, <1>7, <2>1, <2>2
  <2>3. CASE /\ status' = [status EXCEPT ![e] = "pending"]
             /\ attempts' = [attempts EXCEPT ![e] = IF @ > 0 THEN @ - 1 ELSE 0]
    <3>1. \A x \in Events \ {e} : Row(x)
      BY <1>0, <1>3, <2>3
    <3>2. status'[e] = "pending" /\ attempts'[e] = IF attempts[e] > 0 THEN attempts[e] - 1 ELSE 0
      BY <1>0, <2>3
    <3>3. Owed(e, attempts[e] - 1)
      BY DEF TriedInv
    <3>4. Row(e)
      BY <1>0, <2>1, <3>2, <3>3 DEF Row, Owed
    <3> QED
      BY <1>7, <2>1, <3>1, <3>4
  <2> QED
    BY <2>1, <2>2, <2>3
<1>9. ASSUME NEW d \in Drains, Settle(d)
      PROVE  \A x \in Events : Row(x) /\ \A c \in Drains : Copy(c, x)
  <2>1. PICK e \in Events : SettleOf(d, e)
    BY <1>9 DEF Settle, SettleOf
  <2>2. UNCHANGED attempts /\ \A x \in Events \ {e} : Row(x)
    BY <1>0, <1>3, <2>1 DEF SettleOf
  <2>3. Owed(e, attempts[e] - 1) /\ Owed(e, drain[d].tries[e] - 1)
    BY DEF TriedInv
  <2>4. Row(e)
    <3>1. CASE status' = status
      BY <1>3, <2>2, <3>1
    <3>2. CASE status'[e] = "done"
      BY <1>0, <1>1, <1>2, <2>2, <2>3, <3>2 DEF Row, Owed
    <3>3. CASE drain[d].step = "failed" /\ status'[e] = (IF drain[d].tries[e] >= MaxAttempts THEN "failed" ELSE "pending")
      <4>1. trouble'[e] = trouble[e] + 1 \/ trouble'[e] = MaxAttempts
        BY <1>0, <2>1, <3>3, TroubledIs DEF SettleOf
      <4>2. trouble[e] \in 0..MaxAttempts /\ trouble'[e] \in 0..MaxAttempts
            /\ drain[d].tries[e] \in Int /\ attempts[e] \in Int
        BY <1>0, <1>1
      <4>3. drain[d].tries[e] >= MaxAttempts => trouble'[e] = MaxAttempts
        <5> DEFINE n == drain[d].tries[e]
        <5>1. n \in Int /\ MaxAttempts \in Nat /\ (n - 1 <= trouble[e] \/ trouble[e] = MaxAttempts)
          BY <1>0, <2>3, <4>2 DEF Owed
        <5> HIDE DEF n
        <5>2. n >= MaxAttempts => trouble'[e] = MaxAttempts
          BY <4>1, <4>2, <5>1, OneMoreOwed
        <5> QED
          BY <5>2 DEF n
      <4>4. /\ attempts[e] <= trouble'[e] \/ trouble'[e] = MaxAttempts
            /\ attempts[e] - 1 <= trouble'[e] \/ trouble'[e] = MaxAttempts
        BY <1>0, <2>3, <4>1, <4>2, OneMoreOwed DEF Owed
      <4>5. status'[e] = "failed" => trouble'[e] = MaxAttempts
        BY <3>3, <4>3
      <4> QED
        BY <2>2, <4>4, <4>5 DEF Row, Owed
    <3> QED
      BY <1>0, <2>1, <3>1, <3>2, <3>3 DEF SettleOf
  <2> QED
    BY <1>7, <2>1, <2>2, <2>4 DEF SettleOf
<1>10. ASSUME NEW S \in SUBSET Events, ReapStrandedEvents(S)
       PROVE  \A x \in Events : Row(x) /\ \A c \in Drains : Copy(c, x)
  <2>1. UNCHANGED <<attempts, drain>> /\ \A x \in Events \ S : Row(x)
    BY <1>0, <1>3, <1>10 DEF ReapStrandedEvents
  <2>2. ASSUME NEW x \in S PROVE Row(x)
    <3>1. trouble'[x] = trouble[x] + 1 \/ trouble'[x] = MaxAttempts
      BY <1>0, <1>10, TroubledIs DEF ReapStrandedEvents
    <3>2. status'[x] = IF attempts[x] >= MaxAttempts THEN "failed" ELSE "pending"
      BY <1>0, <1>10 DEF ReapStrandedEvents, ReapedStatus
    <3>3. trouble[x] \in 0..MaxAttempts /\ trouble'[x] \in 0..MaxAttempts /\ attempts[x] \in Int
      BY <1>0, <1>1
    <3>4. Owed(x, attempts[x] - 1)
      BY DEF TriedInv
    <3>5. /\ attempts[x] <= trouble'[x] \/ trouble'[x] = MaxAttempts
          /\ attempts[x] - 1 <= trouble'[x] \/ trouble'[x] = MaxAttempts
          /\ attempts[x] >= MaxAttempts => trouble'[x] = MaxAttempts
      BY <1>0, <3>1, <3>3, <3>4, OneMoreOwed DEF Owed
    <3>6. status'[x] = "failed" => trouble'[x] = MaxAttempts
      BY <3>2, <3>5
    <3> QED
      BY <2>1, <3>5, <3>6 DEF Row, Owed
  <2> QED
    BY <1>4, <2>1, <2>2
<1>11. ASSUME UNCHANGED <<status, attempts>>,
              \A x \in Events : \A d \in Drains : drain'[d].tries[x] \in {0, drain[d].tries[x]}
       PROVE  \A x \in Events : Row(x) /\ \A d \in Drains : Copy(d, x)
  BY <1>3, <1>4, <1>11
<1>12. ASSUME NEW d \in Drains, Suppress(d) \/ CheckRates(d) \/ Pause(d) \/ Emit(d)
       PROVE  \A x \in Events : Row(x) /\ \A c \in Drains : Copy(c, x)
  <2>1. PICK s \in {"rates", "pause", "settle", "failed"} : Go(d, s) /\ UNCHANGED <<status, attempts>>
    BY <1>12 DEF Suppress, CheckRates, Pause, Emit, ledgerVars
  <2> QED
    BY <1>0, <1>11, <2>1, GoIs
<1>13. ASSUME NEW d \in Drains, CountSoft(d)
       PROVE  \A x \in Events : Row(x) /\ \A c \in Drains : Copy(c, x)
  <2>1. UNCHANGED <<status, attempts>>
    BY <1>13 DEF CountSoft, ledgerVars
  <2> QED
    BY <1>11, <1>13, <2>1, CountIs
<1>14. ASSUME NEW d \in Drains, UpsertSoft(d)
       PROVE  \A x \in Events : Row(x) /\ \A c \in Drains : Copy(c, x)
  <2>1. UNCHANGED <<status, attempts>> /\ \A c \in Drains : drain'[c].tries = drain[c].tries
    BY <1>0, <1>14 DEF UpsertSoft, ledgerVars, Local
  <2> QED
    BY <1>11, <2>1
<1>15. ASSUME NEW d \in Drains, Crash(d)
       PROVE  \A x \in Events : Row(x) /\ \A c \in Drains : Copy(c, x)
  <2>1. UNCHANGED <<status, attempts>>
    BY <1>15 DEF Crash, ledgerVars
  <2>2. \A x \in Events : \A c \in Drains : drain'[c].tries[x] \in {0, drain[c].tries[x]}
    BY <1>0, <1>15 DEF Crash, Idle, NoTries
  <2> QED
    BY <1>11, <2>1, <2>2
<1>16. CASE UNCHANGED <<status, attempts, drain>>
  BY <1>11, <1>16
<1> QED
  BY <1>5, <1>6, <1>8, <1>9, <1>10, <1>12, <1>13, <1>14, <1>15, <1>16
     DEF Next, DrainStep, Ripen, Trigger, vars, ledgerVars

-----------------------------------------------------------------------------
(* The theorems.                                                             *)

IInv == TypeInv /\ HandInv /\ DoneInv /\ SoftInv /\ BreakerInv /\ PrefetchInv /\ TriedInv

LEMMA InvInit == Init => IInv
<1> SUFFICES ASSUME Init PROVE IInv
  OBVIOUS
<1>1. InLedger = {}
  BY DEF Init, InLedger
<1>2. \A d \in Drains : drain[d] = Idle /\ Idle.step = "idle" /\ Idle.cur = {} /\ Idle.batch = {} /\ Idle.seen = 0
                       /\ \A e \in Events : Idle.tries[e] = 0
  BY DEF Init, Idle, NoTries
<1>3. HandInv
  BY <1>2 DEF HandInv
<1>4. DoneInv
  BY <1>2 DEF DoneInv, DoneMeansSuppressed, Init, Bearing
<1>5. SoftInv
  <2>1. Bounced = 0
    BY <1>1, FS_EmptySet DEF Bounced
  <2> QED
    BY <1>2, <2>1 DEF SoftInv, Init
<1>6. BreakerInv
  <2>1. Cardinality(Rated) = 0
    BY <1>1, FS_EmptySet DEF Rated
  <2> QED
    BY <2>1, MailBoundAssumption DEF BreakerInv
<1>7. PrefetchInv
  BY DEF PrefetchInv, PrefetchStartsNothing, Init
<1>8. TriedInv
  BY <1>2, MailBoundAssumption DEF TriedInv, Owed, Init
<1> QED
  BY <1>3, <1>4, <1>5, <1>6, <1>7, <1>8, TypeInit DEF IInv

LEMMA InvAlways == Spec => []IInv
<1>1. IInv /\ [Next]_vars => IInv'
  BY TypeNext, HandNext, DoneNext, SoftNext, BreakerNext, PrefetchNext, TriedNext DEF IInv
<1> QED
  BY <1>1, InvInit, PTL DEF Spec

\* Every variable keeps its type; the soft count is never above the soft bounces there are.
THEOREM MailTypeCorrect == Spec => []TypeOK
<1>1. IInv => TypeOK
  <2> SUFFICES ASSUME IInv PROVE TypeOK
    OBVIOUS
  <2>1. Bounced <= Cardinality(SoftBounces) /\ Bounced \in Nat /\ Cardinality(SoftBounces) \in Nat
    <3>1. SoftBounces \in SUBSET Events /\ SoftBounces \cap InLedger \in SUBSET SoftBounces
      BY DEF SoftBounces
    <3> QED
      BY <3>1, CountGrows DEF Bounced
  <2>2. soft \in 0..Cardinality(SoftBounces)
    BY <2>1 DEF IInv, TypeInv, SoftInv
  <2> QED
    BY <2>2 DEF IInv, TypeInv, TypeOK
<1> QED
  BY <1>1, InvAlways, PTL

\* No complaint and no unsubscribe is ever acknowledged without its suppression (apply, process).
THEOREM SuppressedBeforeDone == Spec => []DoneMeansSuppressed
<1>1. IInv => DoneMeansSuppressed
  BY DEF IInv, DoneInv
<1> QED
  BY <1>1, InvAlways, PTL

\* A soft bounce counts once, however often it is applied (RecordSoftBounce).
THEOREM SoftBouncesCountOnce == Spec => []SoftCountBacked
<1>1. IInv => SoftCountBacked
  BY DEF IInv, SoftInv, Bounced, SoftCountBacked
<1> QED
  BY <1>1, InvAlways, PTL

\* Complaints that reach the rate pause marketing, whoever handles them (checkBreaker).
THEOREM RateReachedMeansPaused == Spec => []BreakerTrips
<1>1. IInv => BreakerTrips
  BY DEF IInv, BreakerInv, BreakerTrips, Unchecked, Rated
<1> QED
  BY <1>1, InvAlways, PTL

\* A prefetch whose delivered event came in time starts no workflow (shouldDeferEngagement).
THEOREM NoWorkflowByPrefetch == Spec => []PrefetchStartsNothing
<1>1. IInv => PrefetchStartsNothing
  BY DEF IInv, PrefetchInv
<1> QED
  BY <1>1, InvAlways, PTL

\* An event is given up on only after MaxAttempts failed or abandoned attempts (DeferEvent).
THEOREM GivenUpAfterItsAttempts == Spec => []FailedMeansTried
<1>1. IInv => FailedMeansTried
  BY MailBoundAssumption DEF IInv, TriedInv, FailedMeansTried
<1> QED
  BY <1>1, InvAlways, PTL
=============================================================================
