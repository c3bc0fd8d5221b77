-------------------------- MODULE LeadIngestProofs --------------------------
(***************************************************************************)
(* Proofs about the lead ledger, for any deliveries, actors and bounds.      *)
(***************************************************************************)
EXTENDS LeadIngest, TLAPS

-----------------------------------------------------------------------------
(***************************************************************************)
(* Types.                                                                    *)
(***************************************************************************)

\* The statements write rows and the actors hold rows.
LEMMA RowWrites ==
    /\ NoRow \in Row /\ Idle \in Local
    /\ \A r \in Row : [r EXCEPT !.source = TRUE] \in Row
    /\ \A r \in Row : [r EXCEPT !.record = TRUE] \in Row
    /\ \A r \in Row : \A s \in {"pending", "processing", "processed", "failed", "quarantined"} :
           [r EXCEPT !.status = s] \in Row
    /\ \A r \in Row : [r EXCEPT !.status = "processing", !.attempts = @ + 1] \in Row
    /\ \A r \in Row : [r EXCEPT !.status = "processing", !.claimed = TRUE, !.attempts = @ + 1] \in Row
    /\ \A r \in Row : [r EXCEPT !.status = "pending", !.claimed = FALSE] \in Row
    /\ \A b \in BOOLEAN : Inserted(b) \in Row
<1>1. NoRow \in Row /\ Idle \in Local
  BY DEF NoRow, Row, Idle, Local
<1>2. \A r \in Row : [r EXCEPT !.source = TRUE] \in Row /\ [r EXCEPT !.record = TRUE] \in Row
  BY DEF Row
<1>3. \A r \in Row : \A s \in {"pending", "processing", "processed", "failed", "quarantined"} :
         [r EXCEPT !.status = s] \in Row
  BY DEF Row
<1>a. \A r \in Row : r.attempts + 1 \in Nat
  BY DEF Row
<1>b. \A r \in Row, n \in Nat : [r EXCEPT !.status = "processing", !.attempts = n] \in Row
  BY DEF Row
<1>c. \A r \in Row, n \in Nat : [r EXCEPT !.status = "processing", !.claimed = TRUE, !.attempts = n] \in Row
  BY DEF Row
<1>4. \A r \in Row : [r EXCEPT !.status = "processing", !.attempts = @ + 1] \in Row
  BY <1>a, <1>b
<1>5. \A r \in Row : [r EXCEPT !.status = "processing", !.claimed = TRUE, !.attempts = @ + 1] \in Row
  BY <1>a, <1>c
<1>6. \A r \in Row : [r EXCEPT !.status = "pending", !.claimed = FALSE] \in Row
  BY DEF Row
<1>7. \A b \in BOOLEAN : Inserted(b) \in Row
  BY DEF NoRow, Row, Inserted
<1>8. QED BY <1>1, <1>2, <1>3, <1>4, <1>5, <1>6, <1>7

\* What Save, PutBack and the insert leave behind.
LEMMA TableWrites ==
    ASSUME TypeOK, NEW d \in Deliveries
    PROVE  /\ \A copy \in Row : \A s \in {"failed", "quarantined", "processed"} :
                  Save(d, copy, s) => row' \in [Deliveries -> Row]
           /\ PutBack(d) => row' \in [Deliveries -> Row]
           /\ \A r \in Row : row' = [row EXCEPT ![d] = r] => row' \in [Deliveries -> Row]
<1>1. \A r \in Row : row' = [row EXCEPT ![d] = r] => row' \in [Deliveries -> Row]
  BY DEF TypeOK
<1>2. ASSUME NEW copy \in Row, NEW s \in {"failed", "quarantined", "processed"}, Save(d, copy, s)
      PROVE  row' \in [Deliveries -> Row]
  <2>1. [copy EXCEPT !.status = s] \in Row
    BY RowWrites
  <2>2. QED BY <2>1, <1>1, <1>2 DEF Save
<1>3. ASSUME PutBack(d) PROVE row' \in [Deliveries -> Row]
  <2>1. row[d] \in Row
    BY DEF TypeOK
  <2>2. [row[d] EXCEPT !.status = "pending", !.claimed = FALSE] \in Row
    BY <2>1, RowWrites
  <2>3. row' = [row EXCEPT ![d] = [row[d] EXCEPT !.status = "pending", !.claimed = FALSE]]
    BY <1>3, <2>1 DEF PutBack, TypeOK, Row
  <2>4. QED BY <2>2, <2>3, <1>1
<1>4. QED BY <1>1, <1>2, <1>3

\* What the moves of an actor leave behind.
LEMMA WorkMoves ==
    ASSUME TypeOK, NEW a \in Actors
    PROVE  /\ Leave(a) => work' \in [Actors -> Local]
           /\ \A s \in {"repend", "finish", "fail", "refuse"} : Go(a, s) => work' \in [Actors -> Local]
           /\ \A d \in Deliveries, r \in Row : Take(a, d, r) => work' \in [Actors -> Local]
           /\ \A d \in Deliveries :
                  work' = [work EXCEPT ![a] = [Idle EXCEPT !.step = "look", !.on = {d}]]
                     => work' \in [Actors -> Local]
           /\ \A b \in BOOLEAN : work' = [work EXCEPT ![a].step = "write", ![a].found = b]
                     => work' \in [Actors -> Local]
<1>0. work[a] \in Local /\ \A l \in Local : [work EXCEPT ![a] = l] \in [Actors -> Local]
  BY DEF TypeOK
<1>1. Leave(a) => work' \in [Actors -> Local]
  BY <1>0, RowWrites DEF Leave
<1>2. ASSUME NEW s \in {"repend", "finish", "fail", "refuse"}, Go(a, s)
      PROVE  work' \in [Actors -> Local]
  <2>1. [work[a] EXCEPT !.step = s] \in Local
    BY <1>0 DEF Local
  <2>2. work' = [work EXCEPT ![a] = [work[a] EXCEPT !.step = s]]
    BY <1>2 DEF Go
  <2>3. QED BY <2>1, <2>2, <1>0
<1>3. ASSUME NEW d \in Deliveries, NEW r \in Row, Take(a, d, r)
      PROVE  work' \in [Actors -> Local]
  <2>1. [r EXCEPT !.source = TRUE] \in Row
    BY RowWrites
  <2>2. [Idle EXCEPT !.step = "match", !.on = {d}, !.copy = [r EXCEPT !.source = TRUE]] \in Local
    BY <2>1 DEF Idle, Local
  <2>3. QED BY <2>2, <1>0, <1>3 DEF Take
<1>4. ASSUME NEW d \in Deliveries,
             work' = [work EXCEPT ![a] = [Idle EXCEPT !.step = "look", !.on = {d}]]
      PROVE  work' \in [Actors -> Local]
  <2>1. [Idle EXCEPT !.step = "look", !.on = {d}] \in Local
    BY RowWrites DEF Idle, Local
  <2>2. QED BY <2>1, <1>0, <1>4
<1>5. ASSUME NEW b \in BOOLEAN, work' = [work EXCEPT ![a].step = "write", ![a].found = b]
      PROVE  work' \in [Actors -> Local]
  <2>1. [work[a] EXCEPT !.step = "write", !.found = b] \in Local
    BY <1>0 DEF Local
  <2>2. work' = [work EXCEPT ![a] = [work[a] EXCEPT !.step = "write", !.found = b]]
    BY <1>5, <1>0 DEF TypeOK, Local
  <2>3. QED BY <2>1, <2>2, <1>0
<1>6. QED BY <1>1, <1>2, <1>3, <1>4, <1>5

\* Every action keeps the types.
LEMMA TypeStep == TypeOK /\ [Next]_vars => TypeOK'
<1> SUFFICES ASSUME TypeOK, [Next]_vars PROVE TypeOK'
  OBVIOUS
<1> USE DEF vars, ledgerVars, actorVars, historyVars, retryVars, boundVars
<1>1. ASSUME NEW d \in Leads, Receive(d) PROVE TypeOK'
  <2>1. d \in Deliveries /\ [NoRow EXCEPT !.status = "pending"] \in Row
    BY RowWrites DEF Deliveries
  <2>2. row' \in [Deliveries -> Row]
    BY <2>1, <1>1, TableWrites DEF Receive
  <2>3. QED BY <2>1, <2>2, <1>1 DEF Receive, TypeOK
<1>2. ASSUME NEW d \in Leads, Ask(d) PROVE TypeOK'
  BY <1>2 DEF Ask, TypeOK
<1>3. ASSUME NEW d \in Leads, Requeue(d) PROVE TypeOK'
  <2>1. row' \in [Deliveries -> Row]
    BY <1>3, TableWrites DEF Requeue, Deliveries, TypeOK
  <2>2. requeued' \in [Leads -> Nat]
    BY <1>3 DEF Requeue, TypeOK
  <2>3. QED BY <2>1, <2>2, <1>3 DEF Requeue, TypeOK
<1>4. ASSUME NEW w \in Drains, NEW S \in SUBSET Pending, Claim(w, S) PROVE TypeOK'
  <2>1. \A d \in Deliveries : Claimed(d) \in Row
    BY RowWrites DEF Claimed, TypeOK
  <2>2. row' \in [Deliveries -> Row]
    BY <2>1, <1>4 DEF Claim, TypeOK
  <2>3. [d \in Deliveries |-> IF d \in S THEN Claimed(d) ELSE NoRow] \in [Deliveries -> Row]
    BY <2>1, RowWrites
  <2>4. hand' \in [Drains -> [Deliveries -> Row]]
    BY <2>3, <1>4 DEF Claim, TypeOK
  <2>5. claims' \in [Leads -> Nat]
    BY <1>4 DEF Claim, TypeOK
  <2>6. QED BY <2>2, <2>4, <2>5, <1>4 DEF Claim, TypeOK
<1>5. ASSUME NEW w \in Drains, NEW d \in Deliveries, OfBatch(w, d) \/ Repend(w, d) PROVE TypeOK'
  <2>0. w \in Actors /\ hand[w][d] \in Row
    BY DEF Actors, TypeOK
  <2>1. NextOfBatch(w, d) => hand' \in [Drains -> [Deliveries -> Row]]
    <3>1. [hand[w] EXCEPT ![d] = NoRow] \in [Deliveries -> Row]
      BY RowWrites DEF TypeOK
    <3>2. QED BY <3>1 DEF NextOfBatch, TypeOK
  <2>2. ASSUME FetchFails(w, d) PROVE TypeOK'
    <3>1. row' \in [Deliveries -> Row]
      BY <2>0, <2>2, TableWrites DEF FetchFails, TypeOK
    <3>2. QED BY <3>1, <2>1, <2>2 DEF FetchFails, NextOfBatch, Fault, TypeOK
  <2>3. ASSUME FetchRefused(w, d) \/ Quarantine(w, d) PROVE TypeOK'
    <3>1. row' \in [Deliveries -> Row]
      BY <2>0, <2>3, TableWrites DEF FetchRefused, Quarantine, SaveOrLose, TypeOK
    <3>2. QED
      BY <3>1, <2>1, <2>3 DEF FetchRefused, Quarantine, SaveOrLose, NextOfBatch, Fault, NoFault, TypeOK
  <2>4. ASSUME Fetched(w, d) PROVE TypeOK'
    <3>1. work' \in [Actors -> Local]
      BY <2>0, <2>4, WorkMoves DEF Fetched
    <3>2. QED BY <3>1, <2>1, <2>4 DEF Fetched, NextOfBatch, NoFault, TypeOK
  <2>5. ASSUME Repend(w, d) PROVE TypeOK'
    <3>1. row' \in [Deliveries -> Row]
      BY <2>5, TableWrites DEF Repend, TypeOK
    <3>2. work' \in [Actors -> Local]
      BY <2>0, <2>5, WorkMoves DEF Repend
    <3>3. QED BY <3>1, <3>2, <2>5 DEF Repend, Fault, NoFault, TypeOK
  <2>6. QED BY <1>5, <2>2, <2>3, <2>4, <2>5 DEF OfBatch
<1>6. ASSUME NEW a \in Actors, NEW d \in Deliveries, Core(a, d), a \in Clients => d \in Keys
      PROVE  TypeOK'
  <2>0. work[a].copy \in Row /\ [work[a].copy EXCEPT !.record = TRUE] \in Row
    BY RowWrites DEF TypeOK, Local
  <2>1. ASSUME Match(a, d) PROVE TypeOK'
    <3>1. work' \in [Actors -> Local]
      <4>1. Matches(Who[d]) \in BOOLEAN
        <5>1. (contacts[Who[d]] > 0) \in BOOLEAN /\ (contacts[Who[d]] = 1) \in BOOLEAN
          OBVIOUS
        <5>2. CASE Who[d] \in Emailed
          BY <5>1, <5>2, Zenon DEF Matches
        <5>3. CASE Who[d] \notin Emailed
          BY <5>1, <5>3, Zenon DEF Matches
        <5>4. QED BY <5>2, <5>3
      <4>2. QED BY <4>1, <2>1, WorkMoves DEF Match
    <3>2. QED BY <3>1, <2>1 DEF Match, NoFault, CoreSame, TypeOK
  <2>2. ASSUME Write(a, d) PROVE TypeOK'
    <3>1. work' \in [Actors -> Local]
      BY <2>2, WorkMoves DEF Write
    <3>2. contacts' \in [People -> Nat] /\ live' \subseteq Deliveries
      BY <2>2 DEF Write, Upsert, TypeOK
    <3>3. QED BY <3>1, <3>2, <2>2 DEF Write, Fault, NoFault, CoreSame, TypeOK
  <2>3. ASSUME WriteFails(a, d) PROVE TypeOK'
    <3>1. work' \in [Actors -> Local]
      BY <2>3, WorkMoves DEF WriteFails
    <3>2. QED BY <3>1, <2>3 DEF WriteFails, Fault, NoFault, CoreSame, TypeOK
  <2>4. ASSUME FailEvent(a, d) PROVE TypeOK'
    <3>1. work' \in [Actors -> Local]
      BY <2>4, WorkMoves DEF FailEvent, AfterFailure
    <3>2. row' \in [Deliveries -> Row]
      BY <2>0, <2>4, TableWrites DEF FailEvent, SaveOrLose, TypeOK
    <3>3. QED BY <3>1, <3>2, <2>4 DEF FailEvent, SaveOrLose, Fault, NoFault, CoreSame, TypeOK
  <2>5. ASSUME Finish(a, d) PROVE TypeOK'
    <3>1. work' \in [Actors -> Local]
      BY <2>5, WorkMoves DEF Finish, AfterFailure
    <3>2. row' \in [Deliveries -> Row]
      BY <2>0, <2>5, TableWrites DEF Finish, TypeOK
    <3>3. told' \subseteq Keys
      BY <1>6, <2>5 DEF Finish, TypeOK
    <3>4. faults' \in Nat
      <4>1. faults \in Nat
        BY DEF TypeOK
      <4>2. faults' = faults \/ faults' = faults + 1
        BY <2>5 DEF Finish, Fault, NoFault
      <4>3. QED BY <4>1, <4>2
    <3>5. UNCHANGED <<contacts, open, hand, todo, asked, origin, live, retryVars, deaths, requests,
                      imports, toggles>>
      BY <2>5 DEF Finish, CoreSame
    <3>6. QED BY <3>1, <3>2, <3>3, <3>4, <3>5 DEF TypeOK
  <2>6. QED BY <1>6, <2>1, <2>2, <2>3, <2>4, <2>5 DEF Core
<1>7. ASSUME NEW a \in Actors, NEW d \in Deliveries, NEW b \in BOOLEAN,
             InsertOrLook(a, d, Inserted(b))
      PROVE  row' \in [Deliveries -> Row] /\ work' \in [Actors -> Local]
  <2>1. Inserted(b) \in Row
    BY RowWrites
  <2>2. row' \in [Deliveries -> Row]
    BY <2>1, <1>7, TableWrites DEF InsertOrLook, TypeOK
  <2>3. work' \in [Actors -> Local]
    BY <2>1, <1>7, WorkMoves DEF InsertOrLook
  <2>4. QED BY <2>2, <2>3
<1>8. ASSUME NEW a \in Actors, NEW d \in Deliveries, Rerun(a, d) PROVE work' \in [Actors -> Local]
  <2>1. [row[d] EXCEPT !.status = "processing", !.attempts = @ + 1] \in Row
    BY RowWrites DEF TypeOK
  <2>2. QED BY <2>1, <1>8, WorkMoves DEF Rerun
<1>9. ASSUME NEW c \in Clients, NEW d \in Keys, Request(c, d) PROVE TypeOK'
  <2>1. c \in Actors /\ d \in Deliveries
    BY DEF Actors, Deliveries
  <2>2. row' \in [Deliveries -> Row] /\ work' \in [Actors -> Local]
    BY <2>1, <1>7, <1>9 DEF Request
  <2>3. QED BY <2>1, <2>2, <1>9 DEF Request, From, TypeOK
<1>10. ASSUME NEW c \in Clients, NEW d \in Keys, Replay(c, d) PROVE TypeOK'
  <2>1. c \in Actors /\ d \in Deliveries
    BY DEF Actors, Deliveries
  <2>2. work' \in [Actors -> Local] /\ told' \subseteq Keys
    BY <2>1, <1>8, <1>10, WorkMoves DEF Replay, TypeOK
  <2>3. QED BY <2>2, <1>10 DEF Replay, NoFault, CoreSame, TypeOK
<1>11. ASSUME NEW i \in Importers, NEW d \in Leads, Import(i, d) PROVE TypeOK'
  <2>1. i \in Actors /\ d \in Deliveries
    BY DEF Actors, Deliveries
  <2>2. row' \in [Deliveries -> Row] /\ work' \in [Actors -> Local]
    BY <2>1, <1>7, <1>11 DEF Import
  <2>3. todo' \in [Importers -> SUBSET Leads]
    BY <1>11 DEF Import, TypeOK
  <2>4. QED BY <2>1, <2>2, <2>3, <1>11 DEF Import, From, TypeOK
<1>12. ASSUME NEW i \in Importers, NEW d \in Leads, LookAtPrior(i, d) PROVE TypeOK'
  <2>1. i \in Actors /\ d \in Deliveries
    BY DEF Actors, Deliveries
  <2>2. work' \in [Actors -> Local]
    BY <2>1, <1>8, <1>12, WorkMoves DEF LookAtPrior
  <2>3. QED BY <2>2, <1>12 DEF LookAtPrior, NoFault, CoreSame, TypeOK
<1>13. ASSUME NEW i \in Importers, StartImport(i) \/ EndImport(i) PROVE TypeOK'
  BY <1>13 DEF StartImport, EndImport, TypeOK
<1>14. ASSUME NEW d \in Deliveries, Reap(d) PROVE TypeOK'
  <2>1. row[d] \in Row
    BY DEF TypeOK
  <2>2. [row[d] EXCEPT !.status = "failed"] \in Row
    BY <2>1, RowWrites
  <2>3. row' \in [Deliveries -> Row]
    BY <2>2, <1>14, TableWrites DEF Reap
  <2>4. overtaken' \subseteq Leads
    BY <1>14 DEF Reap, TypeOK
  <2>5. QED BY <2>3, <2>4, <1>14 DEF Reap, TypeOK
<1>15. ASSUME Toggle PROVE TypeOK'
  BY <1>15 DEF Toggle, TypeOK
<1>16. ASSUME NEW a \in Actors, Die(a) PROVE TypeOK'
  <2>1. work' \in [Actors -> Local]
    BY <1>16, WorkMoves DEF Die
  <2>2. hand' \in [Drains -> [Deliveries -> Row]]
    <3>1. NoCopies \in [Deliveries -> Row]
      BY RowWrites DEF NoCopies
    <3>2. QED BY <3>1, <1>16 DEF Die, TypeOK
  <2>3. todo' \in [Importers -> SUBSET Leads]
    BY <1>16 DEF Die, TypeOK
  <2>4. QED BY <2>1, <2>2, <2>3, <1>16 DEF Die, TypeOK
<1>17. CASE UNCHANGED vars
  BY <1>17 DEF TypeOK
<1>18. ASSUME NEW w \in Drains, DrainStep(w) PROVE TypeOK'
  BY <1>18, <1>4, <1>5, <1>6, LeadAssumption DEF DrainStep, Actors
<1>19. ASSUME NEW c \in Clients, ClientStep(c) PROVE TypeOK'
  BY <1>19, <1>6, <1>10 DEF ClientStep, Actors, Deliveries
<1>20. ASSUME NEW i \in Importers, ImportStep(i) PROVE TypeOK'
  BY <1>20, <1>6, <1>11, <1>12, LeadAssumption DEF ImportStep, Actors, Deliveries
<1>21. QED
  BY <1>1, <1>2, <1>3, <1>9, <1>13, <1>14, <1>15, <1>16, <1>17, <1>18, <1>19, <1>20 DEF Next, ReapStep

LEMMA TypeInit == Init => TypeOK
<1> SUFFICES ASSUME Init PROVE TypeOK
  OBVIOUS
<1>1. row \in [Deliveries -> Row] /\ hand \in [Drains -> [Deliveries -> Row]]
  BY RowWrites DEF Init, NoCopies
<1>2. work \in [Actors -> Local]
  BY RowWrites DEF Init
<1>3. QED BY <1>1, <1>2 DEF Init, TypeOK

\* The columns, copies and counters keep their types.
THEOREM LedgerTypeCorrect == Spec => []TypeOK
  BY TypeInit, TypeStep, PTL DEF Spec

-----------------------------------------------------------------------------
(***************************************************************************)
(* A step is one of these. A client works on keys and an import on leads.    *)
(***************************************************************************)

LEMMA StepCases ==
    ASSUME [Next]_vars
    PROVE  \/ \E d \in Leads : Receive(d) \/ Ask(d) \/ Requeue(d)
           \/ \E w \in Drains, S \in SUBSET Pending : Claim(w, S)
           \/ \E w \in Drains, d \in Deliveries : OfBatch(w, d) \/ Repend(w, d)
           \/ \E a \in Actors, d \in Deliveries :
                  Core(a, d) /\ (a \in Clients => d \in Keys) /\ (a \in Importers => d \in Leads)
           \/ \E c \in Clients, d \in Keys : Request(c, d) \/ Replay(c, d)
           \/ \E i \in Importers, d \in Leads : Import(i, d) \/ LookAtPrior(i, d)
           \/ \E i \in Importers : StartImport(i) \/ EndImport(i)
           \/ \E d \in Deliveries : Reap(d)
           \/ Toggle
           \/ \E a \in Actors : Die(a)
           \/ UNCHANGED vars
<1>1. ASSUME NEW w \in Drains, DrainStep(w)
      PROVE  \/ \E S \in SUBSET Pending : Claim(w, S)
             \/ \E d \in Deliveries : OfBatch(w, d) \/ Repend(w, d)
             \/ w \in Actors /\ w \notin Clients \cup Importers /\ \E d \in Deliveries : Core(w, d)
  BY <1>1, LeadAssumption DEF DrainStep, Actors
<1>2. ASSUME NEW c \in Clients, ClientStep(c)
      PROVE  \/ \E d \in Keys : Replay(c, d)
             \/ c \in Actors /\ c \notin Importers /\ \E d \in Keys : d \in Deliveries /\ Core(c, d)
  BY <1>2, LeadAssumption DEF ClientStep, Actors, Deliveries
<1>3. ASSUME NEW i \in Importers, ImportStep(i)
      PROVE  \/ \E d \in Leads : Import(i, d) \/ LookAtPrior(i, d)
             \/ i \in Actors /\ i \notin Clients /\ \E d \in Leads : d \in Deliveries /\ Core(i, d)
  BY <1>3, LeadAssumption DEF ImportStep, Actors, Deliveries
<1>4. QED BY <1>1, <1>2, <1>3 DEF Next, ReapStep

-----------------------------------------------------------------------------
(***************************************************************************)
(* What each move reads like, column by column.                             *)
(***************************************************************************)

LEMMA Moves ==
    ASSUME TypeOK, NEW a \in Actors
    PROVE  /\ Leave(a) => work'[a] = Idle
           /\ \A s : Go(a, s) =>
                  /\ At(a, s)' /\ work'[a].on = work[a].on
                  /\ work'[a].copy = work[a].copy /\ work'[a].found = work[a].found
           /\ \A d \in Deliveries, r \in Row : Take(a, d, r) =>
                  /\ At(a, "match")' /\ work'[a].on = {d} /\ ~work'[a].found
                  /\ work'[a].copy.source /\ work'[a].copy.record = r.record
           /\ \A d \in Deliveries :
                  work' = [work EXCEPT ![a] = [Idle EXCEPT !.step = "look", !.on = {d}]] =>
                  /\ At(a, "look")' /\ work'[a].on = {d} /\ ~work'[a].found /\ ~work'[a].copy.record
           /\ \A b : work' = [work EXCEPT ![a].step = "write", ![a].found = b] =>
                  /\ At(a, "write")' /\ work'[a].on = work[a].on
                  /\ work'[a].copy = work[a].copy /\ work'[a].found = b
           /\ \/ Leave(a) \/ \E s : Go(a, s) \/ \E d, r : Take(a, d, r)
              \/ \E d : work' = [work EXCEPT ![a] = [Idle EXCEPT !.step = "look", !.on = {d}]]
              \/ \E b : work' = [work EXCEPT ![a].step = "write", ![a].found = b]
              => \A b \in Actors \ {a} : work'[b] = work[b]
<1> USE DEF TypeOK, At
<1>1. Leave(a) => work'[a] = Idle
  BY DEF Leave
<1>2. \A s : Go(a, s) =>
          /\ At(a, s)' /\ work'[a].on = work[a].on
          /\ work'[a].copy = work[a].copy /\ work'[a].found = work[a].found
  BY DEF Go, Local
<1>3. ASSUME NEW d \in Deliveries, NEW r \in Row, Take(a, d, r)
      PROVE  /\ At(a, "match")' /\ work'[a].on = {d} /\ ~work'[a].found
             /\ work'[a].copy.source /\ work'[a].copy.record = r.record
  <2>1. work'[a] = [Idle EXCEPT !.step = "match", !.on = {d}, !.copy = [r EXCEPT !.source = TRUE]]
    BY <1>3 DEF Take
  <2>2. [r EXCEPT !.source = TRUE].source /\ [r EXCEPT !.source = TRUE].record = r.record
    BY DEF Row
  <2>3. QED BY <2>1, <2>2 DEF Idle
<1>4. \A d \in Deliveries :
          work' = [work EXCEPT ![a] = [Idle EXCEPT !.step = "look", !.on = {d}]] =>
          /\ At(a, "look")' /\ work'[a].on = {d} /\ ~work'[a].found /\ ~work'[a].copy.record
  BY DEF Idle, NoRow
<1>5. \A b : work' = [work EXCEPT ![a].step = "write", ![a].found = b] =>
          /\ At(a, "write")' /\ work'[a].on = work[a].on
          /\ work'[a].copy = work[a].copy /\ work'[a].found = b
  BY DEF Local
<1>6. ASSUME NEW b \in Actors \ {a}
      PROVE  \/ Leave(a) \/ \E s : Go(a, s) \/ \E d, r : Take(a, d, r)
             \/ \E d : work' = [work EXCEPT ![a] = [Idle EXCEPT !.step = "look", !.on = {d}]]
             \/ \E c : work' = [work EXCEPT ![a].step = "write", ![a].found = c]
             => work'[b] = work[b]
  BY DEF Leave, Go, Take
<1>7. QED BY <1>1, <1>2, <1>3, <1>4, <1>5, <1>6

\* The move that hands a delivery to an actor, by itself.
LEMMA HandsOver ==
    ASSUME TypeOK, NEW a \in Actors, NEW d \in Deliveries, NEW r \in Row, Take(a, d, r)
    PROVE  /\ At(a, "match")' /\ work'[a].on = {d} /\ ~work'[a].found
           /\ work'[a].copy.record = r.record
<1>1. [r EXCEPT !.source = TRUE].record = r.record
  BY DEF Row
<1>2. work'[a] = [Idle EXCEPT !.step = "match", !.on = {d}, !.copy = [r EXCEPT !.source = TRUE]]
  BY DEF Take, TypeOK
<1> QED
  BY <1>1, <1>2 DEF Idle, At

LEMMA Saves ==
    ASSUME TypeOK, NEW d \in Deliveries
    PROVE  /\ \A copy \in Row : \A s : Save(d, copy, s) =>
                  /\ row'[d].record = copy.record /\ row'[d].source = copy.source
                  /\ row'[d].attempts = copy.attempts /\ row'[d].status = s
           /\ PutBack(d) => \A e \in Deliveries :
                  /\ row'[e].record = row[e].record /\ row'[e].source = row[e].source
                  /\ row'[e].attempts = row[e].attempts
           /\ PutBack(d) => row'[d].status = "pending"
           /\ PutBack(d) \/ (\E copy, s : Save(d, copy, s)) =>
                  \A e \in Deliveries \ {d} : row'[e] = row[e]
<1> USE DEF TypeOK
<1>1. \A copy \in Row : \A s : Save(d, copy, s) =>
          /\ row'[d].record = copy.record /\ row'[d].source = copy.source
          /\ row'[d].attempts = copy.attempts /\ row'[d].status = s
  BY DEF Save, Row
<1>2. PutBack(d) \/ (\E copy, s : Save(d, copy, s)) =>
          \A e \in Deliveries \ {d} : row'[e] = row[e]
  BY DEF PutBack, Save
<1>3. ASSUME PutBack(d), NEW e \in Deliveries
      PROVE  /\ row'[e].record = row[e].record /\ row'[e].source = row[e].source
             /\ row'[e].attempts = row[e].attempts
  BY <1>3 DEF PutBack, Row
<1>4. PutBack(d) => row'[d].status = "pending"
  BY DEF PutBack, Row
<1>5. QED BY <1>1, <1>2, <1>3, <1>4

-----------------------------------------------------------------------------
(***************************************************************************)
(* An import stays quiet. Its row carries the source from its insert on, so  *)
(* neither the reaper nor a retry queues it, and no drain ever holds it.      *)
(***************************************************************************)

\* Who is past the look holds a copy with the source in it.
CopiesSourced == \A a \in Actors : work[a].step \notin {"idle", "look"} => work[a].copy.source

\* Nobody has to do with a delivery before its row exists.
AbsentUntouched ==
    \A d \in Deliveries : row[d].status = "absent" =>
        /\ d \notin live \cup asked
        /\ \A a \in Actors : ~Works(a, d)
        /\ \A w \in Drains : hand[w][d] = NoRow

\* What an import inserted is out of the drains' reach.
ImportsApart ==
    \A d \in Leads : origin[d] = "import" =>
        /\ row[d].source /\ row[d].status \notin {"absent", "pending"}
        /\ d \notin live \cup asked
        /\ \A w \in Drains : hand[w][d] = NoRow /\ ~Works(w, d)

QuietInv == TypeOK /\ CopiesSourced /\ AbsentUntouched /\ ImportsApart

-----------------------------------------------------------------------------
(***************************************************************************)
(* What is answered is written.                                             *)
(***************************************************************************)

\* Whom the delivery is about has a contact.
Has(d) == contacts[Who[d]] > 0

\* A record in the row, or in a copy that may be saved over it, and the way to one:
\* a match that found the contact, a write that succeeded.
WrittenInv ==
    \A d \in Deliveries :
        /\ d \in told \/ row[d].record => Has(d)
        /\ \A w \in Drains : hand[w][d].record => Has(d)
        /\ \A a \in Actors :
             Works(a, d) /\ (work[a].copy.record \/ work[a].found \/ At(a, "finish")) => Has(d)

\* A contact is never taken away.
LEMMA ContactsStay ==
    ASSUME TypeOK, [Next]_vars
    PROVE  \A d \in Deliveries : Has(d) => Has(d)'
<1> SUFFICES ASSUME NEW d \in Deliveries, Has(d) PROVE Has(d)'
  OBVIOUS
<1> USE DEF vars, ledgerVars, actorVars, historyVars, retryVars, boundVars
<1>1. UNCHANGED contacts \/ \E a \in Actors, e \in Deliveries : Write(a, e)
  <2>1. ASSUME NEW a \in Actors, NEW e \in Deliveries, Core(a, e)
        PROVE  UNCHANGED contacts \/ Write(a, e)
    BY <2>1 DEF Core, Match, WriteFails, FailEvent, Finish
  <2>2. ASSUME NEW w \in Drains, NEW e \in Deliveries, OfBatch(w, e) \/ Repend(w, e)
        PROVE  UNCHANGED contacts
    BY <2>2 DEF OfBatch, FetchFails, FetchRefused, Quarantine, Fetched, NextOfBatch, Repend
  <2>3. QED
    BY <2>1, <2>2, StepCases DEF Receive, Ask, Requeue, Claim, Request, Replay, StartImport, Import,
       LookAtPrior, EndImport, Reap, Toggle, Die, CoreSame
<1>2. CASE UNCHANGED contacts
  BY <1>2 DEF Has
<1>3. ASSUME NEW a \in Actors, NEW e \in Deliveries, Write(a, e) PROVE Has(d)'
  <2>1. Who[d] \in People /\ Who[e] \in People
    BY LeadAssumption
  <2>2. contacts[Who[d]] \in Nat /\ contacts[Who[e]] \in Nat
    BY <2>1 DEF TypeOK
  <2>3. contacts' = contacts \/ contacts' = [contacts EXCEPT ![Who[e]] = @ + 1]
    BY <1>3 DEF Write, Upsert
  <2>4. QED BY <2>1, <2>2, <2>3 DEF Has, TypeOK
<1>4. QED BY <1>1, <1>2, <1>3

LEMMA WrittenStep == TypeOK /\ WrittenInv /\ [Next]_vars => WrittenInv'
<1> SUFFICES ASSUME TypeOK, WrittenInv, [Next]_vars, NEW d \in Deliveries
             PROVE  /\ (d \in told \/ row[d].record => Has(d))'
                    /\ (\A w \in Drains : hand[w][d].record => Has(d))'
                    /\ (\A a \in Actors :
                         Works(a, d) /\ (work[a].copy.record \/ work[a].found \/ At(a, "finish"))
                         => Has(d))'
  BY DEF WrittenInv
<1> DEFINE Due(a) == Works(a, d) /\ (work[a].copy.record \/ work[a].found \/ At(a, "finish"))
           Goal == /\ (d \in told \/ row[d].record => Has(d))'
                   /\ (\A w \in Drains : hand[w][d].record => Has(d))'
                   /\ (\A a \in Actors : Due(a) => Has(d))'
<1> SUFFICES Goal
  OBVIOUS
<1>a. Has(d) => Has(d)'
  BY ContactsStay
<1>b. /\ d \in told \/ row[d].record => Has(d)
      /\ \A w \in Drains : hand[w][d].record => Has(d)
      /\ \A a \in Actors : Due(a) => Has(d)
  BY DEF WrittenInv
<1>c. TypeOK'
  BY TypeStep
<1>d. SUFFICES ASSUME ~Has(d)'
               PROVE  /\ d \notin told' /\ ~row'[d].record
                      /\ \A w \in Drains : ~hand'[w][d].record
                      /\ \A a \in Actors : ~Due(a)'
  OBVIOUS
<1>e. /\ ~Has(d) /\ d \notin told /\ ~row[d].record
      /\ \A w \in Drains : ~hand[w][d].record
      /\ \A a \in Actors : ~Due(a)
  BY <1>a, <1>b, <1>d
<1> USE DEF vars, ledgerVars, actorVars, historyVars, retryVars, boundVars
<1> HIDE DEF Goal, Due
<1> DEFINE Clean == /\ d \notin told' /\ ~row'[d].record
                    /\ \A w \in Drains : ~hand'[w][d].record
                    /\ \A a \in Actors : ~Due(a)'
<1> HIDE DEF Clean
<1>f. ASSUME ~row'[d].record, UNCHANGED <<hand, told, work>> PROVE Clean
  BY <1>f, <1>e DEF Clean, Due, Works, At
<1>g. ASSUME ~row'[d].record, UNCHANGED <<hand, told>>, NEW a \in Actors,
             \A b \in Actors \ {a} : work'[b] = work[b], ~Due(a)'
      PROVE  Clean
  <2>1. \A b \in Actors \ {a} : ~Due(b)'
    BY <1>g, <1>e DEF Due, Works, At
  <2>2. QED BY <2>1, <1>g, <1>e DEF Clean
<1>1. ASSUME NEW e \in Leads, Receive(e) \/ Ask(e) \/ Requeue(e) PROVE Clean
  <2>1. e \in Deliveries /\ row[e] \in Row /\ row[d] \in Row
    BY DEF Deliveries, TypeOK
  <2>2. Receive(e) => row'[d] = row[d] \/ ~row'[d].record
    BY <2>1 DEF Receive, NoRow, TypeOK
  <2>3. Ask(e) => row'[d] = row[d]
    BY DEF Ask
  <2>4. Requeue(e) => row'[d].record = row[d].record
    BY <2>1, Saves DEF Requeue
  <2>5. ~row'[d].record
    BY <1>1, <1>e, <2>2, <2>3, <2>4
  <2>6. QED BY <1>1, <1>f, <2>5 DEF Receive, Ask, Requeue
<1>2. ASSUME NEW w \in Drains, NEW S \in SUBSET Pending, Claim(w, S) PROVE Clean
  <2>1. row[d] \in Row
    BY DEF TypeOK
  <2>2. Claimed(d).record = row[d].record
    BY <2>1 DEF Claimed, Row
  <2>3. ~row'[d].record
    BY <2>2, <1>2, <1>e DEF Claim
  <2>4. \A v \in Drains : hand'[v][d].record => hand[v][d].record \/ row[d].record
    BY <2>2, <1>2 DEF Claim, NoRow, TypeOK
  <2>5. \A a \in Actors : ~Due(a)'
    BY <1>2, <1>e DEF Claim, Due, Works, At
  <2>6. QED BY <2>3, <2>4, <2>5, <1>2, <1>e DEF Claim, Clean
<1>3. ASSUME NEW w \in Drains, NEW e \in Deliveries, OfBatch(w, e) PROVE Clean
  <2>0. w \in Actors /\ hand[w][e] \in Row /\ row[d] \in Row
    BY DEF Actors, TypeOK
  <2>1. NextOfBatch(w, e) /\ (UNCHANGED work \/ Fetched(w, e))
    BY <1>3 DEF OfBatch, FetchFails, FetchRefused, Quarantine, Fetched
  <2>2. \A v \in Drains : hand'[v][d].record => hand[v][d].record
    BY <2>1 DEF NextOfBatch, NoRow, TypeOK
  <2>3. ~row'[d].record
    <3>1. PutBack(e) \/ UNCHANGED row \/ (\E s : Save(e, hand[w][e], s))
      BY <1>3 DEF OfBatch, FetchFails, FetchRefused, Quarantine, Fetched, SaveOrLose
    <3>2. QED BY <3>1, <2>0, <1>e, Saves
  <2>4. \A a \in Actors : ~Due(a)'
    <3>1. CASE UNCHANGED work
      BY <3>1, <1>e DEF Due, Works, At
    <3>2. CASE Fetched(w, e)
      <4>1. Take(w, e, hand[w][e])
        BY <3>2 DEF Fetched
      <4>2. /\ At(w, "match")' /\ work'[w].on = {e} /\ ~work'[w].found
            /\ work'[w].copy.record = hand[w][e].record
        BY <4>1, <2>0, HandsOver
      <4>3. ~Due(w)'
        BY <4>2, <1>e DEF Due, Works, At
      <4>4. \A b \in Actors \ {w} : work'[b] = work[b]
        BY <4>1, <2>0, Moves
      <4>5. QED BY <4>3, <4>4, <1>e DEF Due, Works, At
    <3>3. QED BY <2>1, <3>1, <3>2
  <2>5. QED BY <2>1, <2>2, <2>3, <2>4, <1>e DEF NextOfBatch, Clean
<1>4. ASSUME NEW w \in Drains, NEW e \in Deliveries, Repend(w, e) PROVE Clean
  <2>1. w \in Actors
    BY DEF Actors
  <2>2. work'[w] = Idle /\ \A b \in Actors \ {w} : work'[b] = work[b]
    BY <2>1, <1>4, Moves DEF Repend
  <2>3. ~Due(w)'
    BY <2>2 DEF Due, Works, Idle
  <2>4. ~row'[d].record
    BY <1>4, <1>e, Saves DEF Repend
  <2>5. QED BY <2>1, <2>2, <2>3, <2>4, <1>4, <1>g DEF Repend
<1>5. ASSUME NEW a \in Actors, NEW e \in Deliveries, Core(a, e) PROVE Clean
  <2>0. work[a].copy \in Row /\ row[d] \in Row
    BY DEF TypeOK, Local
  <2>1. CASE Match(a, e)
    <3>1. work' = [work EXCEPT ![a].step = "write", ![a].found = Matches(Who[e])]
      BY <2>1 DEF Match
    <3>2. /\ At(a, "write")' /\ work'[a].on = work[a].on
          /\ work'[a].copy = work[a].copy /\ work'[a].found = Matches(Who[e])
      BY <3>1, Moves
    <3>3. Matches(Who[e]) => Has(e)
      BY DEF Matches, Has
    <3>4. Works(a, d) => e = d
      BY <2>1 DEF Match, Works
    <3>5. ~Due(a)'
      <4>1. CASE Works(a, d)
        BY <4>1, <3>2, <3>3, <3>4, <1>e DEF Due, Works, At
      <4>2. CASE ~Works(a, d)
        BY <4>2, <3>2 DEF Due, Works
      <4>3. QED BY <4>1, <4>2
    <3>6. \A b \in Actors \ {a} : work'[b] = work[b]
      BY <3>1, Moves
    <3>7. QED BY <3>5, <3>6, <2>1, <1>e, <1>g DEF Match, CoreSame
  <2>2. CASE Write(a, e)
    <3>1. Go(a, "finish") \/ Go(a, "fail")
      BY <2>2 DEF Write
    <3>2. /\ At(a, "finish")' \/ At(a, "fail")'
          /\ work'[a].on = work[a].on /\ work'[a].copy = work[a].copy
          /\ work'[a].found = work[a].found
      BY <3>1, Moves
    <3>3. ~Due(a)'
      <4>1. CASE Works(a, d)
        <5>1. e = d
          BY <4>1, <2>2 DEF Write, Works
        <5>2. Who[d] \in People /\ contacts[Who[d]] \in Nat
          BY LeadAssumption DEF TypeOK
        <5>3. contacts' = contacts \/ contacts' = [contacts EXCEPT ![Who[d]] = @ + 1]
          BY <5>1, <2>2 DEF Write, Upsert
        <5>4. contacts' = contacts => work[a].found \/ Has(d)
          BY <5>1, <5>2, <2>2 DEF Write, Upsert, Has, TypeOK
        <5>5. contacts' # contacts => Has(d)'
          BY <5>2, <5>3 DEF Has, TypeOK
        <5>6. work[a].found => Has(d)
          BY <4>1, <1>b DEF Due
        <5>7. QED BY <5>4, <5>5, <5>6, <1>a, <1>d
      <4>2. CASE ~Works(a, d)
        BY <4>2, <3>2 DEF Due, Works
      <4>3. QED BY <4>1, <4>2
    <3>4. \A b \in Actors \ {a} : work'[b] = work[b]
      BY <3>1, Moves
    <3>5. QED BY <3>3, <3>4, <2>2, <1>e, <1>g DEF Write, CoreSame
  <2>3. CASE WriteFails(a, e)
    <3>1. Go(a, "refuse") \/ Go(a, "fail")
      BY <2>3 DEF WriteFails
    <3>2. /\ At(a, "refuse")' \/ At(a, "fail")'
          /\ work'[a].on = work[a].on /\ work'[a].copy = work[a].copy
          /\ work'[a].found = work[a].found
      BY <3>1, Moves
    <3>3. ~Due(a)'
      BY <3>2, <1>e DEF Due, Works, At
    <3>4. \A b \in Actors \ {a} : work'[b] = work[b]
      BY <3>1, Moves
    <3>5. QED BY <3>3, <3>4, <2>3, <1>e, <1>g DEF WriteFails, CoreSame
  <2>4. ASSUME Go(a, "repend") \/ Leave(a)
        PROVE  ~Due(a)' /\ \A b \in Actors \ {a} : work'[b] = work[b]
    <3>1. Go(a, "repend") => ~Due(a)'
      <4>1. Go(a, "repend") => /\ At(a, "repend")' /\ work'[a].on = work[a].on
                               /\ work'[a].copy = work[a].copy /\ work'[a].found = work[a].found
        BY Moves
      <4>2. QED BY <4>1, <1>e DEF Due, Works, At
    <3>2. Leave(a) => ~Due(a)'
      <4>1. Leave(a) => work'[a] = Idle
        BY Moves
      <4>2. QED BY <4>1 DEF Due, Works, Idle
    <3>3. QED BY <3>1, <3>2, <2>4, Moves
  <2>5. CASE FailEvent(a, e)
    <3>1. Go(a, "repend") \/ Leave(a)
      BY <2>5 DEF FailEvent, AfterFailure
    <3>2. ~row'[d].record
      <4>1. CASE UNCHANGED row
        BY <4>1, <1>e
      <4>2. CASE Save(e, work[a].copy, "failed")
        <5>1. e = d => ~work[a].copy.record
          BY <2>5, <1>e DEF FailEvent, Due
        <5>2. QED BY <5>1, <4>2, <2>0, <1>e, Saves
      <4>3. QED BY <4>1, <4>2, <2>5 DEF FailEvent, SaveOrLose
    <3>3. QED BY <3>1, <3>2, <2>4, <2>5, <1>g DEF FailEvent, CoreSame
  <2>6. CASE Finish(a, e)
    <3>1. Go(a, "repend") \/ Leave(a)
      BY <2>6 DEF Finish, AfterFailure
    <3>2. e # d
      BY <2>6, <1>e DEF Finish, Due
    <3>3. ~row'[d].record
      BY <3>2, <2>6, <1>e, Saves DEF Finish
    <3>4. d \notin told'
      BY <3>2, <2>6, <1>e DEF Finish
    <3>5. UNCHANGED hand
      BY <2>6 DEF Finish, CoreSame
    <3>6. \A b \in Actors : ~Due(b)'
      BY <3>1, <2>4, <1>e DEF Due, Works, At
    <3>7. QED BY <3>3, <3>4, <3>5, <3>6, <1>e DEF Clean
  <2>7. QED BY <1>5, <2>1, <2>2, <2>3, <2>5, <2>6 DEF Core
<1>6. ASSUME NEW a \in Actors, NEW e \in Deliveries, NEW b \in BOOLEAN,
             InsertOrLook(a, e, Inserted(b)), UNCHANGED <<hand, told>>
      PROVE  Clean
  <2>1. Inserted(b) \in Row /\ ~Inserted(b).record
    BY RowWrites DEF Inserted, NoRow
  <2>2. CASE row' = [row EXCEPT ![e] = Inserted(b)] /\ Take(a, e, Inserted(b))
    <3>1. /\ At(a, "match")' /\ ~work'[a].found /\ ~work'[a].copy.record
          /\ \A c \in Actors \ {a} : work'[c] = work[c]
      BY <2>1, <2>2, Moves
    <3>2. ~Due(a)'
      BY <3>1 DEF Due, At
    <3>3. ~row'[d].record
      BY <2>1, <2>2, <1>e DEF TypeOK
    <3>4. QED BY <3>1, <3>2, <3>3, <1>6, <1>g
  <2>3. CASE /\ work' = [work EXCEPT ![a] = [Idle EXCEPT !.step = "look", !.on = {e}]]
             /\ UNCHANGED row
    <3>1. /\ At(a, "look")' /\ ~work'[a].found /\ ~work'[a].copy.record
          /\ \A c \in Actors \ {a} : work'[c] = work[c]
      BY <2>3, Moves
    <3>2. ~Due(a)'
      BY <3>1 DEF Due, At
    <3>3. QED BY <2>3, <3>1, <3>2, <1>6, <1>e, <1>g
  <2>4. QED BY <1>6, <2>2, <2>3 DEF InsertOrLook
<1>7. ASSUME NEW a \in Actors, NEW e \in Deliveries, Rerun(a, e)
      PROVE  ~Due(a)' /\ \A c \in Actors \ {a} : work'[c] = work[c]
  <2> DEFINE again == [row[e] EXCEPT !.status = "processing", !.attempts = @ + 1]
  <2>1. row[e] \in Row /\ again \in Row
    BY RowWrites DEF TypeOK
  <2>2. again.record = row[e].record
    BY <2>1 DEF Row
  <2>3. Take(a, e, again)
    BY <1>7 DEF Rerun
  <2> HIDE DEF again
  <2>4. /\ At(a, "match")' /\ work'[a].on = {e} /\ ~work'[a].found
        /\ work'[a].copy.record = again.record
    BY <2>1, <2>3, HandsOver
  <2>5. ~Due(a)'
    BY <2>2, <2>4, <1>e DEF Due, Works, At
  <2>6. QED BY <2>3, <2>5, Moves
<1>8. ASSUME NEW a \in Actors, Leave(a)
      PROVE  ~Due(a)' /\ \A c \in Actors \ {a} : work'[c] = work[c]
  <2>1. work'[a] = Idle
    BY <1>8, Moves
  <2>2. ~Due(a)'
    BY <2>1 DEF Due, Works, Idle
  <2>3. QED BY <2>2, <1>8, Moves
<1>9. ASSUME NEW c \in Clients, NEW e \in Keys, Request(c, e) \/ Replay(c, e) PROVE Clean
  <2>1. c \in Actors /\ e \in Deliveries
    BY DEF Actors, Deliveries
  <2>2. CASE Request(c, e)
    BY <2>1, <2>2, <1>6 DEF Request
  <2>3. CASE Replay(c, e)
    <3>1. ~Due(c)' /\ \A b \in Actors \ {c} : work'[b] = work[b]
      BY <2>1, <2>3, <1>7, <1>8 DEF Replay
    <3>2. d \notin told'
      BY <2>3, <1>e DEF Replay
    <3>3. UNCHANGED <<row, hand>>
      BY <2>3 DEF Replay, CoreSame
    <3>4. \A b \in Actors : ~Due(b)'
      BY <3>1, <1>e DEF Due, Works, At
    <3>5. QED BY <3>2, <3>3, <3>4, <1>e DEF Clean
  <2>4. QED BY <1>9, <2>2, <2>3
<1>10. ASSUME NEW i \in Importers, NEW e \in Leads, Import(i, e) \/ LookAtPrior(i, e) PROVE Clean
  <2>1. i \in Actors /\ e \in Deliveries
    BY DEF Actors, Deliveries
  <2>2. CASE Import(i, e)
    BY <2>1, <2>2, <1>6 DEF Import
  <2>3. CASE LookAtPrior(i, e)
    <3>1. ~Due(i)' /\ \A b \in Actors \ {i} : work'[b] = work[b]
      BY <2>1, <2>3, <1>7, <1>8 DEF LookAtPrior
    <3>2. UNCHANGED <<row, hand, told>>
      BY <2>3 DEF LookAtPrior, CoreSame
    <3>3. QED BY <2>1, <3>1, <3>2, <1>e, <1>g
  <2>4. QED BY <1>10, <2>2, <2>3
<1>11. ASSUME NEW e \in Deliveries, Reap(e) PROVE Clean
  <2>1. row[d] \in Row /\ row[e] \in Row
    BY DEF TypeOK
  <2>2. PutBack(e) => ~row'[d].record
    BY <1>e, Saves
  <2>3. row' = [row EXCEPT ![e].status = "failed"] => ~row'[d].record
    BY <2>1, <1>e DEF Row, TypeOK
  <2>4. QED BY <2>2, <2>3, <1>11, <1>f DEF Reap
<1>12. ASSUME NEW a \in Actors, Die(a) PROVE Clean
  <2>1. \A w \in Drains : ~hand'[w][d].record
    BY <1>12, <1>e DEF Die, NoCopies, NoRow
  <2>2. \A b \in Actors : ~Due(b)'
    BY <1>12, <1>8, <1>e DEF Die, Due, Works, At
  <2>3. QED BY <2>1, <2>2, <1>12, <1>e DEF Die, Clean
<1>13. ASSUME \/ \E i \in Importers : StartImport(i) \/ EndImport(i)
              \/ Toggle \/ UNCHANGED vars
       PROVE  Clean
  BY <1>13, <1>e, <1>f DEF StartImport, EndImport, Toggle
<1>14. Clean
  BY StepCases, <1>1, <1>2, <1>3, <1>4, <1>5, <1>9, <1>10, <1>11, <1>12, <1>13
<1>15. QED BY <1>14 DEF Clean

\* A success told to a client, or shown by the ledger, has its contact.
THEOREM AnsweredLeadsExist == Spec => []AnsweredIsWritten
<1>1. Init => WrittenInv
  <2>1. ASSUME Init, NEW d \in Deliveries
        PROVE  /\ d \notin told /\ ~row[d].record
               /\ \A w \in Drains : ~hand[w][d].record
               /\ \A a \in Actors : ~Works(a, d)
    BY <2>1 DEF Init, NoCopies, NoRow, Idle, Works
  <2>2. QED BY <2>1 DEF WrittenInv
<1>2. WrittenInv => AnsweredIsWritten
  BY DEF WrittenInv, AnsweredIsWritten, Has
<1>3. TypeOK /\ WrittenInv /\ [Next]_vars => WrittenInv'
  BY WrittenStep
<1>4. QED BY LedgerTypeCorrect, <1>1, <1>2, <1>3, PTL DEF Spec

\* Steps of one actor that leave a copy behind leave one with the source in it.
LEMMA CopiesSourcedStep == TypeOK /\ CopiesSourced /\ [Next]_vars => CopiesSourced'
<1> SUFFICES ASSUME TypeOK, CopiesSourced, [Next]_vars PROVE CopiesSourced'
  OBVIOUS
<1> USE DEF vars, ledgerVars, actorVars, historyVars, retryVars, boundVars
<1> DEFINE Fine(a) == work[a].step \notin {"idle", "look"} => work[a].copy.source
<1>a. \A a \in Actors : Fine(a)
  BY DEF CopiesSourced
<1>b. CASE UNCHANGED work
  BY <1>b, <1>a DEF CopiesSourced
<1>c. ASSUME NEW a \in Actors, Fine(a)', \A b \in Actors \ {a} : work'[b] = work[b]
      PROVE  CopiesSourced'
  BY <1>c, <1>a DEF CopiesSourced
<1>d. ASSUME NEW a \in Actors, NEW d \in Deliveries, NEW r \in Row, Take(a, d, r)
      PROVE  CopiesSourced'
  <2>1. Fine(a)' /\ \A b \in Actors \ {a} : work'[b] = work[b]
    BY <1>d, Moves
  <2>2. QED BY <2>1, <1>c
<1>e. ASSUME NEW a \in Actors, Leave(a) PROVE CopiesSourced'
  <2>1. work'[a] = Idle /\ \A b \in Actors \ {a} : work'[b] = work[b]
    BY <1>e, Moves
  <2>2. Fine(a)'
    BY <2>1 DEF Idle
  <2>3. QED BY <2>1, <2>2, <1>c
<1>f. ASSUME NEW a \in Actors, NEW s, Go(a, s), ~At(a, "idle"), ~At(a, "look") PROVE CopiesSourced'
  <2>1. work'[a].copy = work[a].copy /\ \A b \in Actors \ {a} : work'[b] = work[b]
    BY <1>f, Moves
  <2>2. Fine(a)'
    BY <2>1, <1>a, <1>f DEF At
  <2>3. QED BY <2>1, <2>2, <1>c
<1>g. ASSUME NEW a \in Actors, NEW d \in Deliveries, NEW b \in BOOLEAN, InsertOrLook(a, d, Inserted(b))
      PROVE  CopiesSourced'
  <2>1. Inserted(b) \in Row
    BY RowWrites
  <2>2. CASE work' = [work EXCEPT ![a] = [Idle EXCEPT !.step = "look", !.on = {d}]]
    <3>1. At(a, "look")' /\ \A c \in Actors \ {a} : work'[c] = work[c]
      BY <2>2, Moves
    <3>2. QED BY <3>1, <1>c DEF At
  <2>3. QED BY <2>1, <2>2, <1>d, <1>g DEF InsertOrLook
<1>h. ASSUME NEW a \in Actors, NEW d \in Deliveries, Rerun(a, d) PROVE CopiesSourced'
  <2>1. [row[d] EXCEPT !.status = "processing", !.attempts = @ + 1] \in Row
    BY RowWrites DEF TypeOK
  <2>2. QED BY <2>1, <1>d, <1>h DEF Rerun
<1>1. ASSUME NEW w \in Drains, NEW d \in Deliveries, OfBatch(w, d) \/ Repend(w, d)
      PROVE  CopiesSourced'
  <2>1. w \in Actors /\ hand[w][d] \in Row
    BY DEF Actors, TypeOK
  <2>2. QED
    BY <2>1, <1>1, <1>b, <1>d, <1>e DEF OfBatch, FetchFails, FetchRefused, Quarantine, Fetched, Repend
<1>2. ASSUME NEW a \in Actors, NEW d \in Deliveries, Core(a, d) PROVE CopiesSourced'
  <2>1. CASE Match(a, d)
    <3>1. work' = [work EXCEPT ![a].step = "write", ![a].found = Matches(Who[d])]
      BY <2>1 DEF Match
    <3>2. work'[a].copy = work[a].copy /\ \A b \in Actors \ {a} : work'[b] = work[b]
      BY <3>1, Moves
    <3>3. Fine(a)'
      BY <3>2, <2>1, <1>a DEF Match, At
    <3>4. QED BY <3>2, <3>3, <1>c
  <2>2. CASE Write(a, d)
    BY <2>2, <1>f DEF Write, At
  <2>3. CASE WriteFails(a, d)
    BY <2>3, <1>f DEF WriteFails, At
  <2>4. CASE FailEvent(a, d)
    BY <2>4, <1>e, <1>f DEF FailEvent, AfterFailure, At
  <2>5. CASE Finish(a, d)
    BY <2>5, <1>e, <1>f DEF Finish, AfterFailure, At
  <2>6. QED BY <1>2, <2>1, <2>2, <2>3, <2>4, <2>5 DEF Core
<1>3. ASSUME NEW c \in Clients, NEW d \in Keys, Request(c, d) \/ Replay(c, d) PROVE CopiesSourced'
  <2>1. c \in Actors /\ d \in Deliveries
    BY DEF Actors, Deliveries
  <2>2. QED BY <2>1, <1>3, <1>e, <1>g, <1>h DEF Request, Replay
<1>4. ASSUME NEW i \in Importers, NEW d \in Leads, Import(i, d) \/ LookAtPrior(i, d) PROVE CopiesSourced'
  <2>1. i \in Actors /\ d \in Deliveries
    BY DEF Actors, Deliveries
  <2>2. QED BY <2>1, <1>4, <1>e, <1>g, <1>h DEF Import, LookAtPrior
<1>5. ASSUME NEW a \in Actors, Die(a) PROVE CopiesSourced'
  BY <1>5, <1>e DEF Die
<1>6. QED
  BY StepCases, <1>b, <1>1, <1>2, <1>3, <1>4, <1>5 DEF Receive, Ask, Requeue, Claim, StartImport,
     EndImport, Reap, Toggle

\* Who becomes live, asked for or an import's in a step.
LEMMA MarkFoot ==
    ASSUME TypeOK, [Next]_vars, NEW d \in Deliveries
    PROVE  /\ d \in live' => \/ d \in live
                             \/ \E a \in Actors : Works(a, d) /\ (a \in Drains \/ d \in Keys)
           /\ d \in asked' => d \in asked \/ (~row[d].source /\ Rerunnable(d))
           /\ origin'[d] = "import" =>
                  origin[d] = "import" \/ (row[d].status = "absent" /\ row'[d] = Inserted(TRUE))
<1> USE DEF vars, ledgerVars, actorVars, historyVars, retryVars, boundVars
<1> DEFINE Goal ==
             /\ d \in live' => \/ d \in live
                               \/ \E a \in Actors : Works(a, d) /\ (a \in Drains \/ d \in Keys)
             /\ d \in asked' => d \in asked \/ (~row[d].source /\ Rerunnable(d))
             /\ origin'[d] = "import" =>
                    origin[d] = "import" \/ (row[d].status = "absent" /\ row'[d] = Inserted(TRUE))
<1>a. ASSUME UNCHANGED <<live, asked, origin>> PROVE Goal
  BY <1>a
<1> HIDE DEF Goal
<1>1. ASSUME NEW e \in Leads, Receive(e) PROVE Goal
  BY <1>1 DEF Receive, TypeOK, Goal
<1>2. ASSUME NEW e \in Leads, Ask(e) PROVE Goal
  BY <1>2 DEF Ask, Goal
<1>3. ASSUME NEW e \in Leads, Requeue(e) PROVE Goal
  BY <1>3 DEF Requeue, Goal
<1>4. ASSUME NEW w \in Drains, NEW e \in Deliveries, OfBatch(w, e) \/ Repend(w, e) PROVE Goal
  BY <1>4, <1>a DEF OfBatch, FetchFails, FetchRefused, Quarantine, Fetched, NextOfBatch, Repend
<1>5. ASSUME NEW a \in Actors, NEW e \in Deliveries, Core(a, e), a \in Clients => e \in Keys
      PROVE  Goal
  <2>1. CASE Write(a, e)
    BY <1>5, <2>1 DEF Write, Upsert, Runs, CoreSame, Actors, Goal
  <2>2. CASE ~Write(a, e)
    BY <1>5, <2>2, <1>a DEF Core, Match, WriteFails, FailEvent, Finish, CoreSame
  <2>3. QED BY <2>1, <2>2
<1>6. ASSUME NEW c \in Clients, NEW e \in Keys, Request(c, e) \/ Replay(c, e) PROVE Goal
  <2>1. CASE Request(c, e)
    BY <2>1 DEF Request, From, TypeOK, Goal
  <2>2. CASE Replay(c, e)
    BY <2>2, <1>a DEF Replay, CoreSame
  <2>3. QED BY <1>6, <2>1, <2>2
<1>7. ASSUME NEW i \in Importers, NEW e \in Leads, Import(i, e) \/ LookAtPrior(i, e) PROVE Goal
  <2>1. CASE Import(i, e)
    BY <2>1 DEF Import, From, InsertOrLook, TypeOK, Goal
  <2>2. CASE LookAtPrior(i, e)
    BY <2>2, <1>a DEF LookAtPrior, CoreSame
  <2>3. QED BY <1>7, <2>1, <2>2
<1>8. Goal
  BY StepCases, <1>a, <1>1, <1>2, <1>3, <1>4, <1>5, <1>6, <1>7 DEF Claim, StartImport, EndImport, Reap,
     Toggle, Die
<1>9. QED BY <1>8 DEF Goal

\* Who comes to hold a delivery in a step, and what it finds.
LEMMA HoldFoot ==
    ASSUME TypeOK, [Next]_vars, NEW d \in Deliveries
    PROVE  /\ \A w \in Drains : hand'[w][d] # NoRow => hand[w][d] # NoRow \/ row[d].status = "pending"
           /\ \A w \in Drains : Works(w, d)' => Works(w, d) \/ hand[w][d] # NoRow
           /\ \A a \in Actors : Works(a, d)' =>
                  Works(a, d) \/ a \in Drains \/ row'[d].status # "absent"
<1> USE DEF vars, ledgerVars, actorVars, historyVars, retryVars, boundVars
<1> DEFINE Hand == \A w \in Drains : hand'[w][d] # NoRow => hand[w][d] # NoRow \/ row[d].status = "pending"
           Work == /\ \A w \in Drains : Works(w, d)' => Works(w, d) \/ hand[w][d] # NoRow
                   /\ \A a \in Actors : Works(a, d)' =>
                          Works(a, d) \/ a \in Drains \/ row'[d].status # "absent"
<1>a. UNCHANGED work => Work
  BY DEF Works
<1>b. UNCHANGED hand => Hand
  OBVIOUS
<1>c. ASSUME NEW a \in Actors, Works(a, d)' => Works(a, d), \A b \in Actors \ {a} : work'[b] = work[b]
      PROVE  Work
  BY <1>c DEF Works, Actors
<1>d. ASSUME NEW a \in Actors, a \notin Drains, Works(a, d)' => row'[d].status # "absent",
             \A b \in Actors \ {a} : work'[b] = work[b]
      PROVE  Work
  BY <1>d DEF Works, Actors
<1> HIDE DEF Hand, Work
<1>e. ASSUME NEW a \in Actors, Leave(a) PROVE Work
  <2>1. work'[a] = Idle /\ \A b \in Actors \ {a} : work'[b] = work[b]
    BY <1>e, Moves
  <2>2. ~Works(a, d)'
    BY <2>1 DEF Works, Idle
  <2>3. QED BY <2>1, <2>2, <1>c
<1>f. ASSUME NEW a \in Actors, NEW s, Go(a, s) PROVE Work
  <2>1. work'[a].on = work[a].on /\ \A b \in Actors \ {a} : work'[b] = work[b]
    BY <1>f, Moves
  <2>2. QED BY <2>1, <1>c DEF Works
<1>g. ASSUME NEW a \in Actors, a \notin Drains, NEW e \in Deliveries, NEW b \in BOOLEAN,
             InsertOrLook(a, e, Inserted(b))
      PROVE  Work
  <2>1. Inserted(b) \in Row /\ Inserted(b).status = "processing"
    BY RowWrites DEF Inserted, NoRow
  <2>2. CASE /\ work' = [work EXCEPT ![a] = [Idle EXCEPT !.step = "look", !.on = {e}]]
             /\ row[e].status # "absent" /\ UNCHANGED row
    <3>1. work'[a].on = {e} /\ \A c \in Actors \ {a} : work'[c] = work[c]
      BY <2>2, Moves
    <3>2. QED BY <3>1, <2>2, <1>d, <1>g DEF Works
  <2>3. CASE row' = [row EXCEPT ![e] = Inserted(b)] /\ Take(a, e, Inserted(b))
    <3>1. work'[a].on = {e} /\ \A c \in Actors \ {a} : work'[c] = work[c]
      BY <2>1, <2>3, Moves
    <3>2. row'[e].status = "processing"
      BY <2>1, <2>3 DEF TypeOK
    <3>3. QED BY <3>1, <3>2, <1>d, <1>g DEF Works
  <2>4. QED BY <1>g, <2>2, <2>3 DEF InsertOrLook
<1>h. ASSUME NEW a \in Actors, a \notin Drains, NEW e \in Deliveries, Rerun(a, e), Rerunnable(e),
             UNCHANGED row
      PROVE  Work
  <2>1. [row[e] EXCEPT !.status = "processing", !.attempts = @ + 1] \in Row
    BY RowWrites DEF TypeOK
  <2>2. work'[a].on = {e} /\ \A c \in Actors \ {a} : work'[c] = work[c]
    BY <2>1, <1>h, Moves DEF Rerun
  <2>3. row'[e].status # "absent"
    BY <1>h DEF Rerunnable
  <2>4. QED BY <2>2, <2>3, <1>d, <1>h DEF Works
<1>1. ASSUME NEW w \in Drains, NEW S \in SUBSET Pending, Claim(w, S) PROVE Hand /\ Work
  BY <1>1, <1>a DEF Claim, Pending, TypeOK, Hand
<1>2. ASSUME NEW w \in Drains, NEW e \in Deliveries, OfBatch(w, e) PROVE Hand /\ Work
  <2>1. w \in Actors /\ hand[w][e] \in Row
    BY DEF Actors, TypeOK
  <2>2. NextOfBatch(w, e) /\ (UNCHANGED work \/ Take(w, e, hand[w][e]))
    BY <1>2 DEF OfBatch, FetchFails, FetchRefused, Quarantine, Fetched
  <2>3. Hand
    BY <2>2 DEF NextOfBatch, TypeOK, Hand
  <2>4. Take(w, e, hand[w][e]) => Work
    <3>1. Take(w, e, hand[w][e]) =>
              work'[w].on = {e} /\ \A b \in Actors \ {w} : work'[b] = work[b]
      BY <2>1, Moves
    <3>2. hand[w][e] # NoRow
      BY <2>2 DEF NextOfBatch, Held
    <3>3. QED BY <3>1, <3>2 DEF Works, Actors, Work
  <2>5. QED BY <2>2, <2>3, <2>4, <1>a
<1>3. ASSUME NEW w \in Drains, NEW e \in Deliveries, Repend(w, e) PROVE Hand /\ Work
  BY <1>3, <1>b, <1>e DEF Repend, Actors
<1>4. ASSUME NEW a \in Actors, NEW e \in Deliveries, Core(a, e) PROVE Hand /\ Work
  <2>1. Match(a, e) => Work
    <3>1. Match(a, e) => work'[a].on = work[a].on /\ \A b \in Actors \ {a} : work'[b] = work[b]
      BY Moves DEF Match
    <3>2. QED BY <3>1, <1>c DEF Works
  <2>2. Hand
    BY <1>4, <1>b DEF Core, Match, Write, WriteFails, FailEvent, Finish, CoreSame
  <2>3. QED
    BY <1>4, <2>1, <2>2, <1>e, <1>f DEF Core, Write, WriteFails, FailEvent, Finish, AfterFailure
<1>5. ASSUME NEW c \in Clients, NEW e \in Keys, Request(c, e) \/ Replay(c, e) PROVE Hand /\ Work
  <2>1. c \in Actors /\ c \notin Drains /\ e \in Deliveries
    BY LeadAssumption DEF Actors, Deliveries
  <2>2. Request(c, e) => Hand /\ Work
    BY <2>1, <1>b, <1>g DEF Request
  <2>3. Replay(c, e) => Hand /\ Work
    BY <2>1, <1>b, <1>e, <1>h DEF Replay, CoreSame
  <2>4. QED BY <1>5, <2>2, <2>3
<1>6. ASSUME NEW i \in Importers, NEW e \in Leads, Import(i, e) \/ LookAtPrior(i, e) PROVE Hand /\ Work
  <2>1. i \in Actors /\ i \notin Drains /\ e \in Deliveries
    BY LeadAssumption DEF Actors, Deliveries
  <2>2. Import(i, e) => Hand /\ Work
    BY <2>1, <1>b, <1>g DEF Import
  <2>3. LookAtPrior(i, e) => Hand /\ Work
    BY <2>1, <1>b, <1>e, <1>h DEF LookAtPrior, CoreSame
  <2>4. QED BY <1>6, <2>2, <2>3
<1>7. ASSUME NEW a \in Actors, Die(a) PROVE Hand /\ Work
  <2>1. Hand
    BY <1>7 DEF Die, NoCopies, Hand
  <2>2. QED BY <2>1, <1>7, <1>e DEF Die
<1>8. Hand /\ Work
  BY StepCases, <1>a, <1>b, <1>1, <1>2, <1>3, <1>4, <1>5, <1>6, <1>7 DEF Receive, Ask, Requeue,
     StartImport, EndImport, Reap, Toggle
<1>9. QED BY <1>8 DEF Hand, Work

\* What a step may do to a row.
LEMMA RowFoot ==
    ASSUME TypeOK, CopiesSourced, [Next]_vars, NEW d \in Deliveries
    PROVE  \/ row'[d] = row[d]
           \/ row[d].status = "absent" /\ row'[d].status # "absent"
           \/ row'[d].status # "absent" /\ \E w \in Drains : hand[w][d] # NoRow \/ Works(w, d)
           \/ row'[d].status \in {"processing", "pending"} /\ (row[d].status = "pending" \/ d \in asked)
           \/ row'[d].status \in {"failed", "processed"} /\ row'[d].source
           \/ row'[d].status = "failed" /\ row'[d].source = row[d].source
           \/ row'[d].status = "pending" /\ ~row[d].source
<1> USE DEF vars, ledgerVars, actorVars, historyVars, retryVars, boundVars
<1> DEFINE Goal ==
             \/ row'[d] = row[d]
             \/ row[d].status = "absent" /\ row'[d].status # "absent"
             \/ row'[d].status # "absent" /\ \E w \in Drains : hand[w][d] # NoRow \/ Works(w, d)
             \/ row'[d].status \in {"processing", "pending"} /\ (row[d].status = "pending" \/ d \in asked)
             \/ row'[d].status \in {"failed", "processed"} /\ row'[d].source
             \/ row'[d].status = "failed" /\ row'[d].source = row[d].source
             \/ row'[d].status = "pending" /\ ~row[d].source
<1>a. UNCHANGED row => Goal
  OBVIOUS
<1> HIDE DEF Goal
<1>1. ASSUME NEW e \in Leads, Receive(e) \/ Ask(e) \/ Requeue(e) PROVE Goal
  <2>1. e \in Deliveries
    BY DEF Deliveries
  <2>2. Receive(e) => Goal
    BY <2>1 DEF Receive, NoRow, TypeOK, Goal
  <2>3. Requeue(e) => Goal
    <3>1. CASE e = d /\ PutBack(e) /\ Requeue(e)
      BY <3>1, Saves DEF Requeue, Goal
    <3>2. CASE e # d /\ PutBack(e)
      BY <3>2, <2>1, Saves DEF Goal
    <3>3. QED BY <3>1, <3>2, <1>a DEF Requeue
  <2>4. QED BY <1>1, <1>a, <2>2, <2>3 DEF Ask
<1>2. ASSUME NEW w \in Drains, NEW S \in SUBSET Pending, Claim(w, S) PROVE Goal
  <2>1. row[d] \in Row
    BY DEF TypeOK
  <2>2. Claimed(d).status = "processing"
    BY <2>1 DEF Claimed, Row
  <2>3. QED BY <2>2, <1>2 DEF Claim, Pending, Goal
<1>3. ASSUME NEW w \in Drains, NEW e \in Deliveries, OfBatch(w, e) \/ Repend(w, e) PROVE Goal
  <2>1. hand[w][e] \in Row
    BY DEF TypeOK
  <2>2. hand[w][e] # NoRow \/ Works(w, e)
    BY <1>3 DEF OfBatch, FetchFails, FetchRefused, Quarantine, Fetched, NextOfBatch, Held, Repend
  <2>3. PutBack(e) \/ UNCHANGED row \/ \E s \in {"failed", "quarantined"} : Save(e, hand[w][e], s)
    BY <1>3 DEF OfBatch, FetchFails, FetchRefused, Quarantine, Fetched, SaveOrLose, Repend
  <2>4. CASE e = d
    <3>1. PutBack(e) => row'[d].status = "pending"
      BY <2>4, Saves
    <3>2. \A s \in {"failed", "quarantined"} : Save(e, hand[w][e], s) => row'[d].status = s
      BY <2>1, <2>4, Saves
    <3>3. QED BY <2>2, <2>3, <2>4, <3>1, <3>2, <1>a DEF Goal
  <2>5. CASE e # d
    BY <2>3, <2>5, <1>a, Saves DEF Goal
  <2>6. QED BY <2>4, <2>5
<1>4. ASSUME NEW a \in Actors, NEW e \in Deliveries, Core(a, e) PROVE Goal
  <2> DEFINE done == [work[a].copy EXCEPT !.record = TRUE]
  <2>1. work[a].copy \in Row /\ done \in Row /\ done.source = work[a].copy.source
    <3>1. work[a].copy \in Row
      BY DEF TypeOK, Local
    <3>2. done \in Row
      BY <3>1, RowWrites
    <3>3. done.source = work[a].copy.source
      BY <3>1 DEF Row
    <3>4. QED BY <3>1, <3>2, <3>3
  <2> HIDE DEF done
  <2>2. UNCHANGED row \/ Save(e, work[a].copy, "failed") \/ Save(e, done, "processed")
    BY <1>4 DEF Core, Match, Write, WriteFails, FailEvent, Finish, SaveOrLose, CoreSame, done
  <2>3. FailEvent(a, e) \/ Finish(a, e) \/ UNCHANGED row
    BY <1>4 DEF Core, Match, Write, WriteFails
  <2>4. UNCHANGED row \/ work[a].copy.source
    BY <2>3 DEF FailEvent, Finish, At, CopiesSourced
  <2>5. CASE e = d
    <3>1. Save(e, work[a].copy, "failed") =>
              row'[d].status = "failed" /\ row'[d].source = work[a].copy.source
      BY <2>1, <2>5, Saves
    <3>2. Save(e, done, "processed") =>
              row'[d].status = "processed" /\ row'[d].source = work[a].copy.source
      BY <2>1, <2>5, Saves
    <3>3. QED BY <3>1, <3>2, <2>2, <2>4, <1>a DEF Goal
  <2>6. CASE e # d
    BY <2>2, <2>6, <1>a, Saves DEF Goal
  <2>7. QED BY <2>5, <2>6
<1>5. ASSUME NEW a \in Actors, NEW e \in Deliveries, NEW b \in BOOLEAN, InsertOrLook(a, e, Inserted(b))
      PROVE  Goal
  <2>1. Inserted(b).status = "processing"
    BY DEF Inserted, NoRow
  <2>2. DOMAIN row = Deliveries
    BY DEF TypeOK
  <2>3. CASE row[e].status = "absent" /\ row' = [row EXCEPT ![e] = Inserted(b)]
    <3>1. row'[d] = IF d = e THEN Inserted(b) ELSE row[d]
      BY <2>2, <2>3
    <3>2. QED BY <2>1, <2>3, <3>1 DEF Goal
  <2>4. QED BY <2>3, <1>5, <1>a DEF InsertOrLook
<1>6. ASSUME NEW c \in Clients, NEW e \in Keys, Request(c, e) \/ Replay(c, e) PROVE Goal
  BY <1>6, <1>5, <1>a DEF Request, Replay, Actors, Deliveries
<1>7. ASSUME NEW i \in Importers, NEW e \in Leads, Import(i, e) \/ LookAtPrior(i, e) PROVE Goal
  BY <1>7, <1>5, <1>a DEF Import, LookAtPrior, Actors, Deliveries
<1>8. ASSUME NEW e \in Deliveries, Reap(e) PROVE Goal
  <2>1. CASE e # d
    BY <2>1, <1>8, Saves DEF Reap, TypeOK, Goal
  <2>2. CASE e = d /\ Reclaimable(e)
    BY <2>2, <1>8, Saves DEF Reap, Reclaimable, Goal
  <2>3. CASE e = d /\ ~Reclaimable(e)
    BY <2>3, <1>8 DEF Reap, Row, TypeOK, Goal
  <2>4. QED BY <2>1, <2>2, <2>3
<1>9. Goal
  BY StepCases, <1>a, <1>1, <1>2, <1>3, <1>4, <1>6, <1>7, <1>8 DEF StartImport, EndImport, Toggle, Die
<1>10. QED BY <1>9 DEF Goal

LEMMA QuietStep == QuietInv /\ [Next]_vars => QuietInv'
<1> SUFFICES ASSUME QuietInv, [Next]_vars PROVE QuietInv'
  OBVIOUS
<1> USE DEF QuietInv
<1>1. TypeOK' /\ CopiesSourced'
  BY TypeStep, CopiesSourcedStep
<1>2. ASSUME NEW d \in Deliveries, row'[d].status = "absent"
      PROVE  /\ row[d].status = "absent" /\ d \notin live' \cup asked'
             /\ \A a \in Actors : ~Works(a, d)'
             /\ \A w \in Drains : hand'[w][d] = NoRow
  <2>1. row[d].status = "absent"
    BY <1>2, RowFoot DEF AbsentUntouched, Actors
  <2>2. /\ d \notin live \cup asked
        /\ \A a \in Actors : ~Works(a, d)
        /\ \A w \in Drains : hand[w][d] = NoRow
    BY <2>1 DEF AbsentUntouched
  <2>3. d \notin live' \cup asked'
    BY <2>1, <2>2, MarkFoot DEF Rerunnable
  <2>4. \A w \in Drains : hand'[w][d] = NoRow /\ ~Works(w, d)'
    BY <2>1, <2>2, HoldFoot DEF Actors
  <2>5. \A a \in Actors : ~Works(a, d)'
    BY <1>2, <2>2, <2>4, HoldFoot
  <2>6. QED BY <2>1, <2>3, <2>4, <2>5
<1>3. AbsentUntouched'
  BY <1>2 DEF AbsentUntouched
<1>4. ASSUME NEW d \in Leads, origin'[d] = "import"
      PROVE  /\ row'[d].source /\ row'[d].status \notin {"absent", "pending"}
             /\ d \notin live' \cup asked'
             /\ \A w \in Drains : hand'[w][d] = NoRow /\ ~Works(w, d)'
  <2>1. d \in Deliveries /\ d \notin Keys
    BY LeadAssumption DEF Deliveries
  <2>2. /\ d \notin live \cup asked
        /\ \A w \in Drains : hand[w][d] = NoRow /\ ~Works(w, d)
        /\ row[d].status # "pending"
        /\ row[d].status # "absent" => row[d].source
        /\ row[d].status = "absent" => origin[d] = "import" \/ row'[d] = Inserted(TRUE)
    <3>1. CASE origin[d] = "import"
      BY <3>1 DEF ImportsApart
    <3>2. CASE row[d].status = "absent" /\ row'[d] = Inserted(TRUE)
      BY <3>2, <2>1 DEF AbsentUntouched, Actors
    <3>3. QED BY <3>1, <3>2, <2>1, <1>4, MarkFoot
  <2>3. row'[d].source /\ row'[d].status \notin {"absent", "pending"}
    <3>1. CASE row[d].status = "absent"
      <4>1. origin[d] # "import"
        BY <3>1 DEF ImportsApart
      <4>2. row'[d] = Inserted(TRUE)
        BY <4>1, <3>1, <2>2
      <4>3. QED BY <4>2 DEF Inserted, NoRow
    <3>2. CASE row[d].status # "absent"
      BY <3>2, <2>1, <2>2, RowFoot
    <3>3. QED BY <3>1, <3>2
  <2>4. d \notin live' \cup asked'
    <3>1. d \notin live'
      <4>1. \A a \in Actors : Works(a, d) => a \notin Drains
        BY <2>2
      <4>2. QED BY <4>1, <2>1, <2>2, MarkFoot
    <3>2. d \notin asked'
      BY <2>1, <2>2, MarkFoot DEF Rerunnable
    <3>3. QED BY <3>1, <3>2
  <2>5. \A w \in Drains : hand'[w][d] = NoRow /\ ~Works(w, d)'
    BY <2>1, <2>2, HoldFoot
  <2>6. QED BY <2>3, <2>4, <2>5
<1>5. ImportsApart'
  BY <1>4 DEF ImportsApart
<1>6. QED BY <1>1, <1>3, <1>5

LEMMA QuietInit == Init => QuietInv
<1>1. Init => CopiesSourced
  BY DEF Init, Idle, CopiesSourced
<1>2. ASSUME Init PROVE AbsentUntouched
  <2>1. live = {} /\ asked = {}
    BY <1>2 DEF Init
  <2>2. \A a \in Actors, d \in Deliveries : ~Works(a, d)
    BY <1>2 DEF Init, Idle, Works
  <2>3. \A w \in Drains, d \in Deliveries : hand[w][d] = NoRow
    BY <1>2 DEF Init, NoCopies
  <2>4. QED BY <2>1, <2>2, <2>3 DEF AbsentUntouched
<1>3. Init => ImportsApart
  BY DEF Init, Deliveries, ImportsApart
<1>4. QED BY <1>1, <1>2, <1>3, TypeInit DEF QuietInv

\* A lead that an import brought in is never written with automation running.
THEOREM ImportsNeverRun == Spec => []ImportsStayQuiet
<1>1. Init => QuietInv
  BY QuietInit
<1>2. QuietInv => ImportsStayQuiet
  BY DEF QuietInv, ImportsApart, ImportsStayQuiet
<1>3. QED BY <1>1, <1>2, QuietStep, PTL DEF Spec

-----------------------------------------------------------------------------
(***************************************************************************)
(* A poison lead ends. Its row, and every copy that may be saved over the     *)
(* row, counts the claims that retries have not given back. Only an import    *)
(* that was behind saves an older count; with three attempts that count is    *)
(* never so low that a claim too many follows.                                *)
(***************************************************************************)

\* A drain has the delivery in hand or at work; the copy it would save.
Holds(w, d) == hand[w][d] # NoRow \/ Works(w, d)
CopyOf(w, d) == IF hand[w][d] # NoRow THEN hand[w][d] ELSE work[w].copy
\* An import is past the look at the row.
Brings(i, d) == Works(i, d) /\ ~At(i, "look")
\* Claims that no retry gave back.
Used(d) == claims[d] - requeued[d]

HeldOnce(d) ==
    /\ \A v, w \in Drains : Holds(v, d) /\ Holds(w, d) => v = w
    /\ \A w \in Drains : hand[w][d] = NoRow \/ ~Works(w, d)

\* What is queued, or failed before it was ever written, is in nobody's hands.
Released(d) == row[d].status \in {"absent", "pending"} \/ (Rerunnable(d) /\ ~row[d].source)
HeldUnderWay(d) == Released(d) => \A w \in Drains : ~Holds(w, d)

AskedStays(d) == d \in asked => Rerunnable(d) /\ ~row[d].source

SourceStays(d) ==
    /\ \A w \in Drains : hand[w][d] # NoRow /\ row[d].source => hand[w][d].source
    /\ \A i \in Importers : Brings(i, d) => row[d].source

RowCounts(d) ==
    /\ Used(d) <= MaxAttempts
    /\ row[d].status = "absent" \/ origin[d] = "import" => claims[d] = 0
    /\ row[d].status \notin {"absent", "pending"} => row[d].attempts >= 1
    /\ row[d].status = "pending" => Used(d) < MaxAttempts
    /\ row[d].status = "pending" \/ ~row[d].source => Used(d) <= row[d].attempts

CopiesCount(d) ==
    /\ \A w \in Drains : Holds(w, d) =>
         /\ Used(d) <= CopyOf(w, d).attempts /\ CopyOf(w, d).attempts >= 1
         /\ row[d].attempts >= CopyOf(w, d).attempts \/ row[d].attempts >= MaxAttempts - 1
    /\ \A i \in Importers : Brings(i, d) =>
         /\ work[i].copy.attempts >= 1
         /\ work[i].copy.attempts >= 2 \/ origin[d] = "import"

CountInv(d) ==
    HeldOnce(d) /\ HeldUnderWay(d) /\ AskedStays(d) /\ SourceStays(d) /\ RowCounts(d) /\ CopiesCount(d)

\* A drain puts back only what has budget left.
Patient == \A w \in Drains : At(w, "repend") => work[w].copy.attempts < MaxAttempts

EndsInv == QuietInv /\ Patient /\ \A d \in Leads \ overtaken : CountInv(d)

\* The code's own number of attempts; with four an import that is behind can give a
\* budget back.
BudgetAssumption == MaxAttempts <= 3

\* Nobody's copy of the delivery changes, no drain comes to hold it, and an import that
\* comes to bring it runs a written row again.
Keeps(d) ==
    /\ \A w \in Drains :
         /\ hand'[w][d] # NoRow => hand'[w][d] = hand[w][d]
         /\ Works(w, d)' =>
              \/ Works(w, d) /\ work'[w].copy.attempts = work[w].copy.attempts /\ hand'[w][d] = hand[w][d]
              \/ /\ hand[w][d] # NoRow /\ hand'[w][d] = NoRow
                 /\ work'[w].copy.attempts = hand[w][d].attempts
    /\ \A i \in Importers : Brings(i, d)' =>
         \/ Brings(i, d) /\ work'[i].copy.attempts = work[i].copy.attempts
         \/ row[d].source /\ row'[d].source /\ work'[i].copy.attempts \in Nat \ {0, 1}

\* The counters and the origin of the delivery stay; who asks for it may retry it.
Marked(d) ==
    /\ claims'[d] = claims[d] /\ requeued'[d] = requeued[d] /\ origin'[d] = origin[d]
    /\ d \in asked' => d \in asked \/ (Rerunnable(d) /\ ~row[d].source)

\* Who holds it afterwards held it before, with the same count.
LEMMA KeepsHolders ==
    ASSUME NEW d \in Leads, HeldOnce(d), Keeps(d)
    PROVE  /\ HeldOnce(d)'
           /\ \A w \in Drains : Holds(w, d)' =>
                Holds(w, d) /\ CopyOf(w, d)'.attempts = CopyOf(w, d).attempts
<1>1. ASSUME NEW w \in Drains, Holds(w, d)'
      PROVE  /\ Holds(w, d) /\ CopyOf(w, d)'.attempts = CopyOf(w, d).attempts
             /\ hand'[w][d] = NoRow \/ ~Works(w, d)'
  <2>1. CASE hand'[w][d] # NoRow
    BY <2>1 DEF Keeps, HeldOnce, Holds, CopyOf
  <2>2. CASE hand'[w][d] = NoRow
    BY <1>1, <2>2 DEF Keeps, HeldOnce, Holds, CopyOf
  <2>3. QED BY <2>1, <2>2
<1>2. HeldOnce(d)'
  <2>1. \A v, w \in Drains : Holds(v, d)' /\ Holds(w, d)' => v = w
    BY <1>1 DEF HeldOnce
  <2>2. \A w \in Drains : hand'[w][d] = NoRow \/ ~Works(w, d)'
    BY <1>1 DEF Holds
  <2>3. QED BY <2>1, <2>2 DEF HeldOnce
<1>3. QED BY <1>1, <1>2

\* A step that leaves the row alone.
LEMMA RowKept ==
    ASSUME NEW d \in Leads, CountInv(d), Keeps(d), Marked(d), row'[d] = row[d]
    PROVE  CountInv(d)'
<1> USE DEF CountInv
<1>1. /\ HeldOnce(d)'
      /\ \A w \in Drains : Holds(w, d)' =>
           Holds(w, d) /\ CopyOf(w, d)'.attempts = CopyOf(w, d).attempts
  BY KeepsHolders
<1>2. Used(d)' = Used(d)
  BY DEF Marked, Used
<1>3. HeldUnderWay(d)'
  BY <1>1 DEF HeldUnderWay, Released, Rerunnable
<1>4. AskedStays(d)'
  BY DEF AskedStays, Marked, Rerunnable
<1>5. SourceStays(d)'
  BY DEF SourceStays, Keeps
<1>6. RowCounts(d)'
  BY <1>2 DEF RowCounts, Marked
<1>7. CopiesCount(d)'
  BY <1>1, <1>2 DEF CopiesCount, Keeps, Marked
<1>8. QED BY <1>1, <1>3, <1>4, <1>5, <1>6, <1>7

\* A drain saves the copy it holds.
LEMMA DrainSaves ==
    ASSUME NEW d \in Leads, TypeOK, CountInv(d), Keeps(d), Marked(d), asked' = asked,
           NEW w \in Drains, Holds(w, d),
           row'[d].status \in {"failed", "quarantined", "processed"},
           row'[d].attempts = CopyOf(w, d).attempts, row'[d].source = CopyOf(w, d).source,
           hand'[w][d] = NoRow, hand[w][d] # NoRow => ~Works(w, d)', Works(w, d) => CopyOf(w, d).source
    PROVE  CountInv(d)'
<1> USE DEF CountInv
<1>1. /\ HeldOnce(d)'
      /\ \A v \in Drains : Holds(v, d)' =>
           Holds(v, d) /\ CopyOf(v, d)'.attempts = CopyOf(v, d).attempts
  BY KeepsHolders
<1>2. Used(d)' = Used(d)
  BY DEF Marked, Used
<1>3. \A v \in Drains : Holds(v, d)' => v = w /\ row'[d].source
  <2>1. ASSUME NEW v \in Drains, Holds(v, d)' PROVE v = w
    BY <2>1, <1>1 DEF HeldOnce
  <2>2. Holds(w, d)' => row'[d].source
    BY DEF Holds, Keeps
  <2>3. QED BY <2>1, <2>2
<1>4. HeldUnderWay(d)'
  BY <1>3 DEF HeldUnderWay, Released
<1>5. AskedStays(d)'
  BY DEF AskedStays, HeldUnderWay, Released
<1>6. SourceStays(d)'
  <2>1. \A v \in Drains : hand'[v][d] # NoRow => v = w
    BY <1>3 DEF Holds
  <2>2. row[d].source => row'[d].source
    BY DEF SourceStays, Holds, CopyOf
  <2>3. \A i \in Importers : Brings(i, d)' => row'[d].source
    BY <2>2 DEF SourceStays, Keeps
  <2>4. QED BY <2>1, <2>3 DEF SourceStays
<1>7. RowCounts(d)'
  BY <1>2 DEF RowCounts, CopiesCount, Marked
<1>8. CopiesCount(d)'
  <2>1. /\ Used(d) <= CopyOf(w, d).attempts /\ CopyOf(w, d).attempts >= 1
    BY DEF CopiesCount
  <2>2. \A v \in Drains : Holds(v, d)' => CopyOf(v, d)'.attempts = CopyOf(w, d).attempts
    BY <1>1, <1>3
  <2>3. row'[d].attempts >= CopyOf(w, d).attempts
    <3>1. hand[w][d] \in Row /\ work[w].copy \in Row
      BY DEF TypeOK, Local, Actors, Deliveries
    <3>2. CopyOf(w, d).attempts \in Nat
      BY <3>1 DEF CopyOf, Row
    <3>3. QED BY <3>2
  <2>4. QED BY <2>1, <2>2, <2>3, <1>2 DEF CopiesCount, Keeps, Marked
<1>9. QED BY <1>1, <1>4, <1>5, <1>6, <1>7, <1>8

\* A drain puts back what it holds, by the id, and lets it go.
LEMMA DrainPutsBack ==
    ASSUME NEW d \in Leads, TypeOK, BudgetAssumption, CountInv(d), Keeps(d), Marked(d), asked' = asked,
           NEW w \in Drains, Holds(w, d), ~Holds(w, d)', CopyOf(w, d).attempts < MaxAttempts,
           row'[d].status = "pending", row'[d].attempts = row[d].attempts,
           row'[d].source = row[d].source
    PROVE  CountInv(d)'
<1> USE DEF CountInv
<1>1. /\ HeldOnce(d)'
      /\ \A v \in Drains : Holds(v, d)' => Holds(v, d)
  BY KeepsHolders
<1>2. \A v \in Drains : ~Holds(v, d)'
  BY <1>1 DEF HeldOnce
<1>3. Used(d)' = Used(d) /\ HeldUnderWay(d)' /\ d \notin asked'
  BY <1>2 DEF Marked, Used, HeldUnderWay, AskedStays, Released
<1>4. SourceStays(d)'
  BY <1>2 DEF SourceStays, Keeps, Holds
<1>5. RowCounts(d)'
  <2>1. /\ Used(d) <= CopyOf(w, d).attempts
        /\ row[d].attempts >= CopyOf(w, d).attempts \/ row[d].attempts >= MaxAttempts - 1
    BY DEF CopiesCount
  <2>2. /\ MaxAttempts \in Nat /\ Used(d) \in Int /\ row[d].attempts \in Nat
        /\ CopyOf(w, d).attempts \in Nat
    <3>1. claims[d] \in Nat /\ requeued[d] \in Nat
      BY DEF TypeOK
    <3>2. d \in Deliveries /\ w \in Actors
      BY DEF Deliveries, Actors
    <3>3. hand[w][d] \in Row /\ work[w].copy \in Row /\ row[d] \in Row
      BY <3>2 DEF TypeOK, Local
    <3>4. CopyOf(w, d) \in Row
      BY <3>3 DEF CopyOf
    <3>5. QED BY <3>1, <3>3, <3>4, LeadBoundAssumption DEF Used, Row
  <2>3. Used(d) < MaxAttempts /\ Used(d) <= row[d].attempts
    BY <2>1, <2>2
  <2>4. QED BY <2>2, <2>3, <1>3 DEF RowCounts, Marked
<1>6. CopiesCount(d)'
  BY <1>2 DEF CopiesCount, Keeps, Marked
<1>7. QED BY <1>1, <1>3, <1>4, <1>5, <1>6 DEF AskedStays

\* An import saves the copy it brings over whatever the row has become.
LEMMA ImportSaves ==
    ASSUME NEW d \in Leads, TypeOK, BudgetAssumption, CountInv(d), Keeps(d), Marked(d), asked' = asked,
           origin[d] = "import" => \A w \in Drains : ~Holds(w, d),
           NEW i \in Importers, Brings(i, d), row'[d].source,
           row'[d].status \in {"failed", "processed"}, row'[d].attempts = work[i].copy.attempts
    PROVE  CountInv(d)'
<1> USE DEF CountInv
<1>1. /\ HeldOnce(d)'
      /\ \A w \in Drains : Holds(w, d)' =>
           Holds(w, d) /\ CopyOf(w, d)'.attempts = CopyOf(w, d).attempts
  BY KeepsHolders
<1>2. Used(d)' = Used(d) /\ row[d].source
  BY DEF Marked, Used, SourceStays
<1>3. HeldUnderWay(d)' /\ AskedStays(d)'
  BY <1>2 DEF HeldUnderWay, Released, AskedStays
<1>4. SourceStays(d)'
  BY <1>2 DEF SourceStays, Keeps
<1>5. RowCounts(d)'
  BY <1>2 DEF RowCounts, CopiesCount, Marked
<1>6. ASSUME NEW w \in Drains, Holds(w, d)'
      PROVE  row'[d].attempts >= MaxAttempts - 1
  <2>1. work[i].copy.attempts >= 2
    BY <1>1, <1>6 DEF CopiesCount
  <2>2. work[i].copy.attempts \in Nat /\ MaxAttempts \in Nat
    <3>1. work[i].copy \in Row
      BY DEF TypeOK, Local, Actors
    <3>2. QED BY <3>1, LeadBoundAssumption DEF Row
  <2>3. QED BY <2>1, <2>2 DEF BudgetAssumption
<1>7. CopiesCount(d)'
  BY <1>1, <1>2, <1>6 DEF CopiesCount, Keeps, Marked
<1>8. QED BY <1>1, <1>3, <1>4, <1>5, <1>7

\* Who takes a row counts what the row counts.
LEMMA Takes ==
    ASSUME TypeOK, NEW a \in Actors, NEW e \in Deliveries, NEW r \in Row, Take(a, e, r)
    PROVE  /\ work'[a].on = {e} /\ work'[a].copy.attempts = r.attempts
           /\ \A b \in Actors \ {a} : work'[b] = work[b]
<1>1. [r EXCEPT !.source = TRUE].attempts = r.attempts
  BY DEF Row
<1>2. work'[a] = [Idle EXCEPT !.step = "match", !.on = {e}, !.copy = [r EXCEPT !.source = TRUE]]
  BY DEF Take, TypeOK
<1>3. work'[a].on = {e} /\ work'[a].copy.attempts = r.attempts
  BY <1>1, <1>2 DEF Idle
<1>4. \A b \in Actors \ {a} : work'[b] = work[b]
  BY DEF Take, TypeOK
<1>5. QED BY <1>3, <1>4

\* What one actor's move leaves of the holders.
LEMMA KeepsWork ==
    ASSUME NEW d \in Leads, NEW a \in Actors, TypeOK, hand' = hand,
           \A b \in Actors \ {a} : work'[b] = work[b],
           a \in Drains /\ Works(a, d)' =>
               Works(a, d) /\ work'[a].copy.attempts = work[a].copy.attempts,
           a \in Importers /\ Brings(a, d)' =>
               \/ Brings(a, d) /\ work'[a].copy.attempts = work[a].copy.attempts
               \/ row[d].source /\ row'[d].source /\ work'[a].copy.attempts \in Nat \ {0, 1}
    PROVE  Keeps(d)
<1>1. \A w \in Drains : Works(w, d)' =>
          Works(w, d) /\ work'[w].copy.attempts = work[w].copy.attempts
  BY DEF Works, Actors
<1>2. \A i \in Importers : Brings(i, d)' =>
          \/ Brings(i, d) /\ work'[i].copy.attempts = work[i].copy.attempts
          \/ row[d].source /\ row'[d].source /\ work'[i].copy.attempts \in Nat \ {0, 1}
  BY DEF Brings, Works, At, Actors
<1>3. QED BY <1>1, <1>2 DEF Keeps

\* The moves that bring nobody anything.
LEMMA KeepsMoves ==
    ASSUME NEW d \in Leads, NEW a \in Actors, TypeOK, hand' = hand
    PROVE  /\ Leave(a) => Keeps(d)
           /\ \A s : Go(a, s) /\ ~At(a, "look") => Keeps(d)
           /\ \A b : /\ work' = [work EXCEPT ![a].step = "write", ![a].found = b]
                     /\ ~At(a, "look")
                     => Keeps(d)
           /\ \A e \in Deliveries :
                  /\ a \notin Drains
                  /\ work' = [work EXCEPT ![a] = [Idle EXCEPT !.step = "look", !.on = {e}]]
                  => Keeps(d)
           /\ \A e \in Deliveries, r \in Row : Take(a, e, r) /\ e # d => Keeps(d)
<1>1. ASSUME Leave(a) PROVE Keeps(d)
  <2>1. work'[a] = Idle /\ \A b \in Actors \ {a} : work'[b] = work[b]
    BY <1>1, Moves
  <2>2. ~Works(a, d)'
    BY <2>1 DEF Works, Idle
  <2>3. QED BY <2>1, <2>2, KeepsWork DEF Brings
<1>2. ASSUME NEW s, Go(a, s), ~At(a, "look") PROVE Keeps(d)
  <2>1. /\ work'[a].on = work[a].on /\ work'[a].copy = work[a].copy
        /\ \A b \in Actors \ {a} : work'[b] = work[b]
    BY <1>2, Moves
  <2>2. Works(a, d)' => Works(a, d)
    BY <2>1 DEF Works
  <2>3. QED BY <2>1, <2>2, <1>2, KeepsWork DEF Brings
<1>3. ASSUME NEW b, work' = [work EXCEPT ![a].step = "write", ![a].found = b], ~At(a, "look")
      PROVE  Keeps(d)
  <2>1. /\ work'[a].on = work[a].on /\ work'[a].copy = work[a].copy
        /\ \A c \in Actors \ {a} : work'[c] = work[c]
    BY <1>3, Moves
  <2>2. Works(a, d)' => Works(a, d)
    BY <2>1 DEF Works
  <2>3. QED BY <2>1, <2>2, <1>3, KeepsWork DEF Brings
<1>4. ASSUME NEW e \in Deliveries, a \notin Drains,
             work' = [work EXCEPT ![a] = [Idle EXCEPT !.step = "look", !.on = {e}]]
      PROVE  Keeps(d)
  <2>1. At(a, "look")'
    BY <1>4, Moves
  <2>2. QED BY <2>1, <1>4, Moves, KeepsWork DEF Brings
<1>5. ASSUME NEW e \in Deliveries, NEW r \in Row, Take(a, e, r), e # d PROVE Keeps(d)
  <2>1. work'[a].on = {e}
    BY <1>5, Moves
  <2>2. ~Works(a, d)'
    BY <2>1, <1>5 DEF Works
  <2>3. QED BY <2>2, <1>5, Moves, KeepsWork DEF Brings
<1>6. QED BY <1>1, <1>2, <1>3, <1>4, <1>5

\* A drain goes to put back only what has budget left.
LEMMA PatientStep == TypeOK /\ Patient /\ [Next]_vars => Patient'
<1> SUFFICES ASSUME TypeOK, Patient, [Next]_vars PROVE Patient'
  OBVIOUS
<1> USE DEF vars, ledgerVars, actorVars, historyVars, retryVars, boundVars
<1> DEFINE Fine(a) == a \in Drains /\ At(a, "repend") => work[a].copy.attempts < MaxAttempts
<1>a. \A a \in Actors : Fine(a)
  BY DEF Patient
<1>b. CASE UNCHANGED work
  BY <1>b DEF Patient, At
<1>c. ASSUME NEW a \in Actors, Fine(a)', \A b \in Actors \ {a} : work'[b] = work[b]
      PROVE  Patient'
  BY <1>c DEF Patient, At, Actors
<1>d. ASSUME NEW a \in Actors, Leave(a) PROVE Patient'
  <2>1. work'[a] = Idle /\ \A b \in Actors \ {a} : work'[b] = work[b]
    BY <1>d, Moves
  <2>2. ~At(a, "repend")'
    BY <2>1 DEF At, Idle
  <2>3. QED BY <2>1, <2>2, <1>c
<1>e. ASSUME NEW a \in Actors, NEW s, Go(a, s),
             s = "repend" => a \notin Drains \/ work[a].copy.attempts < MaxAttempts
      PROVE  Patient'
  <2>1. At(a, s)' /\ work'[a].copy = work[a].copy /\ \A b \in Actors \ {a} : work'[b] = work[b]
    BY <1>e, Moves
  <2>2. QED BY <2>1, <1>e, <1>c DEF At
<1>f. ASSUME NEW a \in Actors, NEW d \in Deliveries, NEW r \in Row, Take(a, d, r) PROVE Patient'
  <2>1. At(a, "match")' /\ \A b \in Actors \ {a} : work'[b] = work[b]
    BY <1>f, Moves
  <2>2. QED BY <2>1, <1>c DEF At
<1>g. ASSUME NEW a \in Actors, a \notin Drains, \A b \in Actors \ {a} : work'[b] = work[b]
      PROVE  Patient'
  BY <1>g, <1>c
<1>1. ASSUME NEW w \in Drains, NEW d \in Deliveries, OfBatch(w, d) \/ Repend(w, d) PROVE Patient'
  <2>1. w \in Actors /\ hand[w][d] \in Row
    BY DEF Actors, TypeOK
  <2>2. QED
    BY <2>1, <1>1, <1>b, <1>d, <1>f DEF OfBatch, FetchFails, FetchRefused, Quarantine, Fetched, Repend
<1>2. ASSUME NEW a \in Actors, NEW d \in Deliveries, Core(a, d) PROVE Patient'
  <2>1. CASE Match(a, d)
    <3>1. work' = [work EXCEPT ![a].step = "write", ![a].found = Matches(Who[d])]
      BY <2>1 DEF Match
    <3>2. At(a, "write")' /\ \A b \in Actors \ {a} : work'[b] = work[b]
      BY <3>1, Moves
    <3>3. QED BY <3>2, <1>c DEF At
  <2>2. CASE Write(a, d) \/ WriteFails(a, d)
    BY <2>2, <1>e DEF Write, WriteFails
  <2>3. CASE FailEvent(a, d) \/ Finish(a, d)
    BY <2>3, <1>d, <1>e DEF FailEvent, Finish, AfterFailure
  <2>4. QED BY <1>2, <2>1, <2>2, <2>3 DEF Core
<1>3. ASSUME NEW a \in Actors, a \notin Drains, NEW d \in Deliveries, NEW b \in BOOLEAN,
             InsertOrLook(a, d, Inserted(b)) \/ Rerun(a, d) \/ Leave(a)
      PROVE  Patient'
  <2>1. \/ Leave(a) \/ \E e, r : Take(a, e, r)
        \/ \E e : work' = [work EXCEPT ![a] = [Idle EXCEPT !.step = "look", !.on = {e}]]
    BY <1>3 DEF InsertOrLook, Rerun
  <2>2. \A c \in Actors \ {a} : work'[c] = work[c]
    BY <2>1, Moves
  <2>3. QED BY <2>2, <1>3, <1>g
<1>4. ASSUME NEW c \in Clients, NEW d \in Keys, Request(c, d) \/ Replay(c, d) PROVE Patient'
  <2>1. c \in Actors /\ c \notin Drains /\ d \in Deliveries
    BY LeadAssumption DEF Actors, Deliveries
  <2>2. QED BY <2>1, <1>3, <1>4 DEF Request, Replay
<1>5. ASSUME NEW i \in Importers, NEW d \in Leads, Import(i, d) \/ LookAtPrior(i, d) PROVE Patient'
  <2>1. i \in Actors /\ i \notin Drains /\ d \in Deliveries
    BY LeadAssumption DEF Actors, Deliveries
  <2>2. QED BY <2>1, <1>3, <1>5 DEF Import, LookAtPrior
<1>6. ASSUME NEW a \in Actors, Die(a) PROVE Patient'
  BY <1>6, <1>d DEF Die
<1>7. QED
  BY StepCases, <1>b, <1>1, <1>2, <1>4, <1>5, <1>6 DEF Receive, Ask, Requeue, Claim, StartImport,
     EndImport, Reap, Toggle

\* Each action keeps the count of a lead that no living drain was overtaken on.
LEMMA CountStep ==
    ASSUME QuietInv, Patient, BudgetAssumption, [Next]_vars,
           NEW d \in Leads, d \notin overtaken', CountInv(d)
    PROVE  CountInv(d)'
<1> USE DEF vars, ledgerVars, actorVars, historyVars, retryVars, boundVars
<1>a. TypeOK /\ d \in Deliveries /\ d \notin Keys
  BY LeadAssumption DEF QuietInv, Deliveries
<1>b. /\ row[d] \in Row /\ row[d].attempts \in Nat /\ claims[d] \in Nat /\ requeued[d] \in Nat
      /\ Used(d) \in Int /\ MaxAttempts \in Nat /\ MaxAttempts >= 1
  <2>1. row[d] \in Row /\ claims[d] \in Nat /\ requeued[d] \in Nat
    BY <1>a DEF TypeOK
  <2>2. QED BY <2>1, LeadBoundAssumption DEF Used, Row
<1>c. d \in asked' => d \in asked \/ (Rerunnable(d) /\ ~row[d].source)
  BY <1>a, MarkFoot
<1>d. origin[d] = "import" => \A w \in Drains : ~Holds(w, d)
  BY DEF QuietInv, ImportsApart, Holds
<1>e. row[d].status = "absent" =>
          d \notin asked /\ (\A w \in Drains : ~Holds(w, d)) /\ (\A a \in Actors : ~Works(a, d))
  BY <1>a DEF QuietInv, AbsentUntouched, Holds, Actors
<1>f. UNCHANGED <<work, hand>> => Keeps(d)
  BY DEF Keeps, Brings, Works, At
<1>g. UNCHANGED <<claims, requeued>> /\ origin'[d] = origin[d] => Marked(d)
  BY <1>c DEF Marked
<1>h. ASSUME UNCHANGED <<work, hand, claims, requeued>>, origin'[d] = origin[d], row'[d] = row[d]
      PROVE  CountInv(d)'
  BY <1>h, <1>f, <1>g, RowKept
<1>i. ASSUME NEW e \in Deliveries, e # d,
             PutBack(e) \/ (\E copy, s : Save(e, copy, s)) \/ \E r : row' = [row EXCEPT ![e] = r]
      PROVE  row'[d] = row[d]
  BY <1>i, <1>a, Saves DEF TypeOK
<1>1. ASSUME NEW e \in Leads, Receive(e) PROVE CountInv(d)'
  <2>1. CASE e # d
    <3>1. row'[d] = row[d] /\ origin'[d] = origin[d]
      BY <2>1, <1>1, <1>a DEF Receive, TypeOK
    <3>2. QED BY <3>1, <1>1, <1>h DEF Receive
  <2>2. CASE e = d
    <3>1. row'[d] = [NoRow EXCEPT !.status = "pending"]
      BY <2>2, <1>1, <1>a DEF Receive, TypeOK
    <3>2. row'[d].status = "pending" /\ ~row'[d].source /\ row'[d].attempts = 0
      BY <3>1 DEF NoRow
    <3>3. claims'[d] = 0 /\ requeued'[d] = requeued[d] /\ asked' = asked
      BY <2>2, <1>1 DEF Receive, CountInv, RowCounts
    <3>4. (\A w \in Drains : ~Holds(w, d)') /\ (\A a \in Actors : ~Works(a, d)') /\ d \notin asked'
      BY <2>2, <3>3, <1>1, <1>e DEF Receive, Holds, Works
    <3>5. Used(d)' <= 0
      BY <3>3, <1>b DEF Used
    <3>6. HeldOnce(d)' /\ HeldUnderWay(d)' /\ AskedStays(d)' /\ SourceStays(d)' /\ CopiesCount(d)'
      BY <3>4 DEF HeldOnce, HeldUnderWay, AskedStays, SourceStays, CopiesCount, Holds, Brings, Actors
    <3>7. RowCounts(d)'
      <4>1. Used(d)' \in Int
        BY <3>3, <1>b DEF Used
      <4>2. QED BY <4>1, <3>2, <3>3, <3>5, <1>b DEF RowCounts
    <3>8. QED BY <3>6, <3>7 DEF CountInv
  <2>3. QED BY <2>1, <2>2
<1>2. ASSUME NEW e \in Leads, Ask(e) PROVE CountInv(d)'
  BY <1>2, <1>h DEF Ask
<1>3. ASSUME NEW e \in Leads, Requeue(e) PROVE CountInv(d)'
  <2>1. e \in Deliveries
    BY DEF Deliveries
  <2>2. CASE UNCHANGED <<row, requeued>>
    BY <2>2, <1>3, <1>h DEF Requeue
  <2>3. CASE PutBack(e) /\ requeued' = [requeued EXCEPT ![e] = @ + 1] /\ e # d
    <3>1. row'[d] = row[d] /\ requeued'[d] = requeued[d]
      BY <2>1, <2>3, <1>a, <1>i DEF TypeOK
    <3>2. Keeps(d) /\ Marked(d)
      BY <3>1, <1>3, <1>c, <1>f DEF Requeue, Marked
    <3>3. QED BY <3>1, <3>2, RowKept
  <2>4. CASE PutBack(e) /\ requeued' = [requeued EXCEPT ![e] = @ + 1] /\ e = d
    <3>1. /\ row'[d].status = "pending" /\ row'[d].source = row[d].source
          /\ row'[d].attempts = row[d].attempts
      BY <2>4, <1>a, Saves
    <3>2. /\ Rerunnable(d) /\ ~row[d].source /\ d \notin asked'
          /\ \A w \in Drains : ~Holds(w, d)
          /\ \A i \in Importers : ~Brings(i, d)
      BY <2>4, <1>3 DEF Requeue, CountInv, AskedStays, HeldUnderWay, Released, SourceStays
    <3>3. Used(d)' = Used(d) - 1 /\ claims'[d] = claims[d] /\ origin'[d] = origin[d]
      <4>1. requeued'[d] = requeued[d] + 1 /\ claims' = claims /\ origin' = origin
        BY <2>4, <1>3 DEF Requeue, TypeOK, QuietInv
      <4>2. QED BY <4>1, <1>b DEF Used
    <3>4. (\A w \in Drains : ~Holds(w, d)') /\ (\A i \in Importers : ~Brings(i, d)')
      BY <3>2, <1>3 DEF Requeue, Holds, Brings, Works, At
    <3>5. HeldOnce(d)' /\ HeldUnderWay(d)' /\ AskedStays(d)' /\ SourceStays(d)' /\ CopiesCount(d)'
      BY <3>2, <3>4 DEF HeldOnce, HeldUnderWay, AskedStays, SourceStays, CopiesCount, Holds
    <3>6. RowCounts(d)'
      BY <3>1, <3>2, <3>3, <1>b DEF RowCounts, CountInv, Rerunnable
    <3>7. QED BY <3>5, <3>6 DEF CountInv
  <2>5. QED BY <1>3, <2>2, <2>3, <2>4 DEF Requeue
<1>4. ASSUME NEW w \in Drains, NEW S \in SUBSET Pending, Claim(w, S) PROVE CountInv(d)'
  <2>1. UNCHANGED <<work, origin, requeued, asked>>
    BY <1>4 DEF Claim
  <2>2. /\ \A v \in Drains \ {w} : hand'[v] = hand[v]
        /\ hand[w][d] = NoRow
        /\ hand'[w][d] = IF d \in S THEN Claimed(d) ELSE NoRow
    BY <1>4, <1>a DEF Claim, Held, TypeOK
  <2>3. CASE d \notin S
    <3>1. row'[d] = row[d] /\ claims'[d] = claims[d]
      BY <2>3, <1>4, <1>a DEF Claim
    <3>2. Keeps(d)
      BY <2>1, <2>2, <2>3 DEF Keeps, Brings, Works, At
    <3>3. QED BY <2>1, <3>1, <3>2, RowKept DEF Marked
  <2>4. CASE d \in S
    <3>1. row[d].status = "pending"
      BY <2>4 DEF Pending
    <3>2. row'[d] = Claimed(d) /\ claims'[d] = claims[d] + 1
      BY <2>4, <1>4, <1>a DEF Claim
    <3>3. /\ Claimed(d).status = "processing" /\ Claimed(d).attempts = row[d].attempts + 1
          /\ Claimed(d).source = row[d].source /\ Claimed(d) # NoRow
      BY <1>b DEF Claimed, Row, NoRow
    <3>4. /\ d \notin asked /\ origin[d] # "import"
          /\ \A v \in Drains : hand[v][d] = NoRow /\ ~Works(v, d)
      BY <3>1 DEF CountInv, AskedStays, Rerunnable, HeldUnderWay, Released, Holds, QuietInv, ImportsApart
    <3>5. /\ \A v \in Drains : ~Works(v, d)'
          /\ \A v \in Drains \ {w} : hand'[v][d] = NoRow
          /\ hand'[w][d] = Claimed(d)
      BY <2>1, <2>2, <2>4, <3>4 DEF Works
    <3>6. /\ \A v \in Drains : Holds(v, d)' => v = w
          /\ CopyOf(w, d)' = Claimed(d)
      BY <3>3, <3>5 DEF Holds, CopyOf
    <3>7. Used(d)' = Used(d) + 1 /\ Used(d) < MaxAttempts /\ Used(d) <= row[d].attempts
      BY <2>1, <3>1, <3>2, <1>b DEF Used, CountInv, RowCounts
    <3>8. HeldOnce(d)'
      BY <3>5, <3>6 DEF HeldOnce
    <3>9. HeldUnderWay(d)' /\ AskedStays(d)'
      BY <2>1, <3>2, <3>3, <3>4 DEF HeldUnderWay, Released, Rerunnable, AskedStays
    <3>10. SourceStays(d)'
      <4>1. \A v \in Drains : hand'[v][d] # NoRow => hand'[v][d] = row'[d]
        BY <3>2, <3>5
      <4>2. \A i \in Importers : Brings(i, d)' => row'[d].source
        BY <2>1, <3>2, <3>3 DEF CountInv, SourceStays, Brings, Works, At
      <4>3. QED BY <4>1, <4>2 DEF SourceStays
    <3>11. RowCounts(d)'
      BY <2>1, <3>2, <3>3, <3>4, <3>7, <1>b DEF RowCounts
    <3>12. CopiesCount(d)'
      <4>1. \A v \in Drains : Holds(v, d)' =>
                /\ Used(d)' <= CopyOf(v, d)'.attempts /\ CopyOf(v, d)'.attempts >= 1
                /\ row'[d].attempts >= CopyOf(v, d)'.attempts
        BY <3>2, <3>3, <3>6, <3>7, <1>b
      <4>2. \A i \in Importers : Brings(i, d)' =>
                /\ work'[i].copy.attempts >= 1
                /\ work'[i].copy.attempts >= 2 \/ origin'[d] = "import"
        BY <2>1 DEF CountInv, CopiesCount, Brings, Works, At
      <4>3. QED BY <4>1, <4>2 DEF CopiesCount
    <3>13. QED BY <3>8, <3>9, <3>10, <3>11, <3>12 DEF CountInv
  <2>5. QED BY <2>3, <2>4
<1>5. ASSUME NEW w \in Drains, NEW e \in Deliveries, OfBatch(w, e) PROVE CountInv(d)'
  <2>1. w \in Actors /\ hand[w][e] \in Row
    BY <1>a DEF Actors, TypeOK
  <2>2. /\ hand[w][e] # NoRow /\ hand' = [hand EXCEPT ![w][e] = NoRow]
        /\ UNCHANGED <<asked, origin, claims, requeued>>
    BY <1>5 DEF OfBatch, FetchFails, FetchRefused, Quarantine, Fetched, NextOfBatch, Held
  <2>3. UNCHANGED work \/ (UNCHANGED row /\ Take(w, e, hand[w][e]))
    BY <1>5 DEF OfBatch, FetchFails, FetchRefused, Quarantine, Fetched
  <2>4. \/ UNCHANGED row
        \/ UNCHANGED work /\ PutBack(e) /\ hand[w][e].attempts < MaxAttempts
        \/ UNCHANGED work /\ \E s \in {"failed", "quarantined"} : Save(e, hand[w][e], s)
    BY <1>5 DEF OfBatch, FetchFails, FetchRefused, Quarantine, Fetched, SaveOrLose
  <2>5. /\ \A v \in Drains : v # w \/ d # e => hand'[v][d] = hand[v][d]
        /\ hand'[w][e] = NoRow
        /\ e = d => ~Works(w, d)
    BY <2>2, <1>a DEF TypeOK, CountInv, HeldOnce
  <2>6. Keeps(d)
    <3>1. CASE UNCHANGED work
      BY <2>5, <3>1 DEF Keeps, Brings, Works, At
    <3>2. CASE Take(w, e, hand[w][e])
      <4>1. /\ work'[w].on = {e} /\ work'[w].copy.attempts = hand[w][e].attempts
            /\ \A b \in Actors \ {w} : work'[b] = work[b]
        BY <3>2, <2>1, <1>a, Takes
      <4>2. \A i \in Importers : Brings(i, d)' => Brings(i, d) /\ work'[i] = work[i]
        BY <4>1, LeadAssumption DEF Brings, Works, At, Actors
      <4>3. ASSUME NEW v \in Drains
            PROVE  /\ hand'[v][d] # NoRow => hand'[v][d] = hand[v][d]
                   /\ Works(v, d)' =>
                        \/ Works(v, d) /\ work'[v] = work[v] /\ hand'[v][d] = hand[v][d]
                        \/ /\ hand[v][d] # NoRow /\ hand'[v][d] = NoRow
                           /\ work'[v].copy.attempts = hand[v][d].attempts
        <5>1. CASE v = w
          BY <4>1, <2>2, <2>5, <5>1 DEF Works
        <5>2. CASE v # w
          BY <4>1, <2>5, <5>2 DEF Works, Actors
        <5>3. QED BY <5>1, <5>2
      <4>4. QED BY <4>2, <4>3 DEF Keeps
    <3>3. QED BY <2>3, <3>1, <3>2
  <2>7. Marked(d)
    BY <2>2, <1>g
  <2>8. CASE row'[d] = row[d]
    BY <2>6, <2>7, <2>8, RowKept
  <2>9. CASE e = d /\ UNCHANGED work
    <3>1. /\ Holds(w, d) /\ CopyOf(w, d) = hand[w][d] /\ ~Holds(w, d)'
          /\ hand[w][d] # NoRow /\ hand'[w][d] = NoRow /\ ~Works(w, d) /\ ~Works(w, d)'
      BY <2>2, <2>5, <2>9 DEF Holds, CopyOf, Works
    <3>2. CASE PutBack(e) /\ hand[w][e].attempts < MaxAttempts
      <4>1. /\ row'[d].status = "pending" /\ row'[d].attempts = row[d].attempts
            /\ row'[d].source = row[d].source
        BY <3>2, <2>9, <1>a, Saves
      <4>2. QED BY <4>1, <3>1, <3>2, <2>2, <2>6, <2>7, <2>9, <1>a, DrainPutsBack
    <3>3. ASSUME NEW s \in {"failed", "quarantined"}, Save(e, hand[w][e], s) PROVE CountInv(d)'
      <4>1. /\ row'[d].status = s /\ row'[d].attempts = hand[w][d].attempts
            /\ row'[d].source = hand[w][d].source
        BY <3>3, <2>1, <2>9, <1>a, Saves
      <4>2. row'[d].status \in {"failed", "quarantined", "processed"}
        BY <4>1
      <4>3. QED BY <4>1, <4>2, <3>1, <2>2, <2>6, <2>7, <1>a, DrainSaves
    <3>4. QED BY <2>4, <2>8, <3>2, <3>3
  <2>10. CASE e # d
    BY <2>4, <2>8, <2>10, <1>i
  <2>11. QED BY <2>4, <2>8, <2>9, <2>10
<1>6. ASSUME NEW w \in Drains, NEW e \in Deliveries, Repend(w, e) PROVE CountInv(d)'
  <2>1. w \in Actors /\ Leave(w) /\ hand' = hand /\ UNCHANGED <<asked, origin, claims, requeued>>
    BY <1>6 DEF Repend, Actors
  <2>2. Keeps(d) /\ Marked(d)
    BY <2>1, <1>a, <1>g, KeepsMoves
  <2>3. CASE row'[d] = row[d]
    BY <2>2, <2>3, RowKept
  <2>4. CASE PutBack(e) /\ e # d
    BY <2>3, <2>4, <1>i
  <2>5. CASE PutBack(e) /\ e = d
    <3>1. hand[w][d] = NoRow /\ Works(w, d) /\ work[w].copy.attempts < MaxAttempts
      BY <2>5, <1>6 DEF Repend, Patient, CountInv, HeldOnce
    <3>2. work'[w] = Idle
      BY <2>1, <1>a, Moves
    <3>3. Holds(w, d) /\ CopyOf(w, d).attempts < MaxAttempts /\ ~Holds(w, d)'
      BY <2>1, <3>1, <3>2 DEF Holds, CopyOf, Works, Idle
    <3>4. /\ row'[d].status = "pending" /\ row'[d].attempts = row[d].attempts
          /\ row'[d].source = row[d].source
      BY <2>5, <1>a, Saves
    <3>5. QED BY <2>1, <2>2, <3>3, <3>4, <1>a, DrainPutsBack
  <2>6. QED BY <1>6, <2>3, <2>4, <2>5 DEF Repend
<1>7. ASSUME NEW a \in Actors, NEW e \in Deliveries, Core(a, e), a \in Clients => e \in Keys
      PROVE  CountInv(d)'
  <2>1. Works(a, e) /\ ~At(a, "look") /\ ~At(a, "idle")
    BY <1>7 DEF Core, Match, Write, WriteFails, FailEvent, Finish, At
  <2>2. hand' = hand /\ UNCHANGED <<asked, origin, claims, requeued>>
    BY <1>7 DEF Core, Match, Write, WriteFails, FailEvent, Finish, CoreSame
  <2>3. Keeps(d)
    <3>1. Match(a, e) => Keeps(d)
      BY <2>1, <2>2, <1>a, KeepsMoves DEF Match
    <3>2. (\E s : Go(a, s)) \/ Leave(a) => Keeps(d)
      BY <2>1, <2>2, <1>a, KeepsMoves
    <3>3. QED BY <1>7, <3>1, <3>2 DEF Core, Write, WriteFails, FailEvent, Finish, AfterFailure
  <2>4. Marked(d)
    BY <2>2, <1>g
  <2> DEFINE done == [work[a].copy EXCEPT !.record = TRUE]
  <2>5. /\ work[a].copy \in Row /\ done \in Row /\ work[a].copy.source
        /\ done.source = work[a].copy.source /\ done.attempts = work[a].copy.attempts
    <3>1. work[a].copy \in Row
      BY <1>a DEF TypeOK, Local
    <3>2. done \in Row
      BY <3>1, RowWrites
    <3>3. done.source = work[a].copy.source /\ done.attempts = work[a].copy.attempts
      BY <3>1 DEF Row
    <3>4. work[a].copy.source
      BY <2>1 DEF QuietInv, CopiesSourced, At
    <3>5. QED BY <3>1, <3>2, <3>3, <3>4
  <2> HIDE DEF done
  <2>6. UNCHANGED row \/ Save(e, work[a].copy, "failed") \/ Save(e, done, "processed")
    BY <1>7 DEF Core, Match, Write, WriteFails, FailEvent, Finish, SaveOrLose, CoreSame, done
  <2>7. CASE row'[d] = row[d]
    BY <2>3, <2>4, <2>7, RowKept
  <2>8. CASE e # d
    BY <2>6, <2>7, <2>8, <1>i
  <2>9. CASE e = d /\ ~UNCHANGED row
    <3>1. /\ row'[d].status \in {"failed", "processed"} /\ row'[d].source
          /\ row'[d].attempts = work[a].copy.attempts
      <4>1. Save(e, work[a].copy, "failed") =>
                /\ row'[d].status = "failed" /\ row'[d].source = work[a].copy.source
                /\ row'[d].attempts = work[a].copy.attempts
        BY <2>5, <2>9, <1>a, Saves
      <4>2. Save(e, done, "processed") =>
                /\ row'[d].status = "processed" /\ row'[d].source = done.source
                /\ row'[d].attempts = done.attempts
        BY <2>5, <2>9, <1>a, Saves
      <4>3. QED BY <4>1, <4>2, <2>5, <2>6, <2>9
    <3>2. CASE a \in Drains
      <4>1. hand[a][d] = NoRow /\ Works(a, d) /\ CopyOf(a, d) = work[a].copy /\ Holds(a, d)
        BY <2>1, <2>9, <3>2 DEF CountInv, HeldOnce, CopyOf, Holds
      <4>2. row'[d].status \in {"failed", "quarantined", "processed"}
        BY <3>1
      <4>3. row'[d].source = CopyOf(a, d).source /\ CopyOf(a, d).source
        BY <3>1, <4>1, <2>5, <2>6, <2>9, <1>a, Saves
      <4>4. QED BY <2>2, <2>3, <2>4, <3>1, <3>2, <4>1, <4>2, <4>3, <1>a, DrainSaves
    <3>3. CASE a \in Importers
      <4>1. Brings(a, d)
        BY <2>1, <2>9 DEF Brings
      <4>2. QED BY <2>2, <2>3, <2>4, <3>1, <3>3, <4>1, <1>a, <1>d, ImportSaves
    <3>4. QED BY <1>7, <2>9, <3>2, <3>3, <1>a DEF Actors
  <2>10. QED BY <2>7, <2>8, <2>9
<1>8. ASSUME NEW c \in Clients, NEW e \in Keys, Request(c, e) \/ Replay(c, e) PROVE CountInv(d)'
  <2>1. c \in Actors /\ c \notin Drains /\ c \notin Importers /\ e \in Deliveries /\ e # d
    BY <1>a, LeadAssumption DEF Actors, Deliveries
  <2>2. \A b \in Actors \ {c} : work'[b] = work[b]
    <3>1. \/ Leave(c) \/ \E x, r : Take(c, x, r)
          \/ \E x : work' = [work EXCEPT ![c] = [Idle EXCEPT !.step = "look", !.on = {x}]]
      BY <1>8 DEF Request, Replay, InsertOrLook, Rerun
    <3>2. QED BY <3>1, <2>1, <1>a, Moves
  <2>3. UNCHANGED <<hand, asked, claims, requeued>>
    BY <1>8 DEF Request, Replay, CoreSame
  <2>4. origin'[d] = origin[d]
    BY <2>1, <1>8, <1>a DEF Request, Replay, From, CoreSame, TypeOK
  <2>5. UNCHANGED row \/ \E r : row' = [row EXCEPT ![e] = r]
    BY <1>8 DEF Request, Replay, InsertOrLook
  <2>6. row'[d] = row[d]
    BY <2>1, <2>5, <1>i
  <2>7. Keeps(d)
    BY <2>1, <2>2, <2>3, <1>a, KeepsWork
  <2>8. QED BY <2>3, <2>4, <2>6, <2>7, <1>g, RowKept
<1>9. ASSUME NEW i \in Importers, NEW e \in Leads, Import(i, e) PROVE CountInv(d)'
  <2>1. i \in Actors /\ i \notin Drains /\ e \in Deliveries
    BY LeadAssumption DEF Actors, Deliveries
  <2>2. UNCHANGED <<hand, asked, claims, requeued>> /\ Inserted(TRUE) \in Row
    BY <1>9, RowWrites DEF Import
  <2>3. CASE UNCHANGED row /\ row[e].status # "absent"
             /\ work' = [work EXCEPT ![i] = [Idle EXCEPT !.step = "look", !.on = {e}]]
    <3>1. Keeps(d)
      BY <2>1, <2>2, <2>3, <1>a, KeepsMoves
    <3>2. origin' = origin
      BY <2>3, <1>9 DEF Import, From
    <3>3. QED BY <2>2, <2>3, <3>1, <3>2, <1>g, RowKept
  <2>4. CASE row[e].status = "absent" /\ row' = [row EXCEPT ![e] = Inserted(TRUE)]
             /\ Take(i, e, Inserted(TRUE)) /\ e # d
    <3>1. Keeps(d)
      BY <2>1, <2>2, <2>4, <1>a, KeepsMoves
    <3>2. row'[d] = row[d] /\ origin'[d] = origin[d]
      BY <2>1, <2>4, <1>9, <1>a, <1>i DEF Import, From, TypeOK
    <3>3. QED BY <2>2, <3>1, <3>2, <1>g, RowKept
  <2>5. CASE row[e].status = "absent" /\ row' = [row EXCEPT ![e] = Inserted(TRUE)]
             /\ Take(i, e, Inserted(TRUE)) /\ e = d
    <3>1. row'[d] = Inserted(TRUE) /\ origin'[d] = "import"
      BY <2>5, <1>9, <1>a DEF Import, From, TypeOK
    <3>2. row'[d].status = "processing" /\ row'[d].source /\ row'[d].attempts = 1
      BY <3>1 DEF Inserted, NoRow
    <3>3. Inserted(TRUE).attempts = 1
      BY DEF Inserted, NoRow
    <3>4. work'[i].copy.attempts = 1 /\ \A b \in Actors \ {i} : work'[b] = work[b]
      BY <2>1, <2>2, <2>5, <3>3, <1>a, Takes
    <3>5. /\ \A w \in Drains : ~Holds(w, d)'
          /\ \A j \in Importers : Brings(j, d)' => j = i
      BY <2>1, <2>2, <2>5, <3>4, <1>e DEF Holds, Brings, Works, Actors
    <3>6. claims'[d] = 0 /\ Used(d)' <= 0 /\ Used(d)' \in Int
      BY <2>2, <2>5, <1>b DEF CountInv, RowCounts, Used
    <3>7. HeldOnce(d)' /\ HeldUnderWay(d)' /\ AskedStays(d)'
      BY <2>2, <2>5, <3>5, <1>e DEF HeldOnce, HeldUnderWay, AskedStays, Holds
    <3>8. SourceStays(d)' /\ CopiesCount(d)'
      <4>1. SourceStays(d)'
        BY <3>2, <3>5 DEF SourceStays, Holds
      <4>2. \A j \in Importers : Brings(j, d)' =>
                work'[j].copy.attempts >= 1 /\ origin'[d] = "import"
        BY <3>1, <3>4, <3>5
      <4>3. CopiesCount(d)'
        BY <3>5, <4>2 DEF CopiesCount
      <4>4. QED BY <4>1, <4>3
    <3>9. RowCounts(d)'
      BY <3>2, <3>6, <1>b DEF RowCounts
    <3>10. QED BY <3>7, <3>8, <3>9 DEF CountInv
  <2>6. QED BY <1>9, <2>3, <2>4, <2>5 DEF Import, InsertOrLook
<1>10. ASSUME NEW i \in Importers, NEW e \in Leads, LookAtPrior(i, e) PROVE CountInv(d)'
  <2>1. i \in Actors /\ i \notin Drains /\ e \in Deliveries
    BY LeadAssumption DEF Actors, Deliveries
  <2>2. UNCHANGED <<row, hand, asked, claims, requeued, origin>>
    BY <1>10 DEF LookAtPrior, CoreSame
  <2>3. Leave(i) => Keeps(d)
    BY <2>1, <2>2, <1>a, KeepsMoves
  <2>4. ASSUME Rerun(i, e), row[e].source, Rerunnable(e) PROVE Keeps(d)
    <3> DEFINE again == [row[e] EXCEPT !.status = "processing", !.attempts = @ + 1]
    <3>1. row[e] \in Row /\ again \in Row
      BY <2>1, <1>a, RowWrites DEF TypeOK
    <3>2. again.attempts = row[e].attempts + 1
      BY <3>1 DEF Row
    <3>3. Take(i, e, again)
      BY <2>4 DEF Rerun
    <3> HIDE DEF again
    <3>4. CASE e # d
      BY <2>1, <2>2, <3>1, <3>3, <3>4, <1>a, KeepsMoves
    <3>5. CASE e = d
      <4>1. work'[i].copy.attempts = row[d].attempts + 1
        BY <2>1, <3>1, <3>2, <3>3, <3>5, <1>a, Takes
      <4>2. row[d].attempts >= 1
        BY <2>4, <3>5 DEF CountInv, RowCounts, Rerunnable
      <4>3. work'[i].copy.attempts \in Nat \ {0, 1}
        BY <4>1, <4>2, <1>b
      <4>4. \A b \in Actors \ {i} : work'[b] = work[b]
        BY <2>1, <3>1, <3>3, <1>a, Takes
      <4>5. QED BY <2>1, <2>2, <2>4, <3>5, <4>3, <4>4, <1>a, KeepsWork
    <3>6. QED BY <3>4, <3>5
  <2>5. Keeps(d)
    BY <2>3, <2>4, <1>10 DEF LookAtPrior
  <2>6. QED BY <2>2, <2>5, <1>g, RowKept
<1>11. ASSUME NEW e \in Deliveries, Reap(e) PROVE CountInv(d)'
  <2>1. UNCHANGED <<work, hand, asked, origin, claims, requeued>>
    BY <1>11 DEF Reap
  <2>2. CASE e # d
    <3>1. PutBack(e) \/ \E r : row' = [row EXCEPT ![e] = r]
      BY <1>11 DEF Reap
    <3>2. QED BY <2>1, <2>2, <3>1, <1>h, <1>i
  <2>3. CASE e = d
    <3>1. row[d].status = "processing" /\ d \notin asked
      BY <2>3, <1>11 DEF Reap, Stranded, CountInv, AskedStays, Rerunnable
    <3>2. \A w \in Drains : ~Holds(w, d)
      BY <2>3, <1>11, <1>a DEF Reap, Held, Holds
    <3>3. \A w \in Drains : ~Holds(w, d)'
      BY <2>1, <3>2 DEF Holds, Works
    <3>4. /\ row'[d].source = row[d].source /\ row'[d].attempts = row[d].attempts
          /\ \/ row'[d].status = "failed"
             \/ row'[d].status = "pending" /\ ~row[d].source /\ row[d].attempts < MaxAttempts
      <4>1. CASE Reclaimable(d) /\ PutBack(d)
        BY <4>1, <1>a, Saves DEF Reclaimable
      <4>2. CASE row' = [row EXCEPT ![d].status = "failed"]
        BY <4>2, <1>a, <1>b DEF TypeOK, Row
      <4>3. QED BY <2>3, <1>11, <4>1, <4>2 DEF Reap
    <3>5. Used(d)' = Used(d)
      BY <2>1 DEF Used
    <3>6. HeldOnce(d)' /\ HeldUnderWay(d)' /\ AskedStays(d)'
      BY <2>1, <3>1, <3>3 DEF HeldOnce, HeldUnderWay, AskedStays, Holds
    <3>7. \A i \in Importers : Brings(i, d)' => Brings(i, d) /\ work'[i] = work[i]
      BY <2>1 DEF Brings, Works, At
    <3>8. SourceStays(d)' /\ CopiesCount(d)'
      BY <2>1, <3>3, <3>4, <3>7 DEF CountInv, SourceStays, CopiesCount, Holds
    <3>9. RowCounts(d)'
      BY <2>1, <3>1, <3>4, <3>5, <1>b DEF CountInv, RowCounts
    <3>10. QED BY <3>6, <3>8, <3>9 DEF CountInv
  <2>4. QED BY <2>2, <2>3
<1>12. ASSUME NEW a \in Actors, Die(a) PROVE CountInv(d)'
  <2>1. Leave(a) /\ UNCHANGED <<row, asked, origin, claims, requeued>>
    BY <1>12 DEF Die
  <2>2. work'[a] = Idle /\ \A b \in Actors \ {a} : work'[b] = work[b]
    BY <2>1, <1>a, Moves
  <2>3. \A b \in Actors : Works(b, d)' => Works(b, d) /\ b # a /\ work'[b] = work[b]
    BY <2>2 DEF Works, Idle
  <2>4. \A w \in Drains :
            /\ w # a => hand'[w] = hand[w]
            /\ w = a => hand'[w][d] = NoRow
    BY <1>12, <1>a DEF Die, NoCopies
  <2>5. Keeps(d)
    BY <2>3, <2>4 DEF Keeps, Brings, At, Actors
  <2>6. QED BY <2>1, <2>5, <1>g, RowKept
<1>13. ASSUME \/ \E i \in Importers : StartImport(i) \/ EndImport(i)
              \/ Toggle \/ UNCHANGED vars
       PROVE  CountInv(d)'
  <2>1. UNCHANGED <<row, work, hand, claims, requeued, origin>>
    BY <1>13 DEF StartImport, EndImport, Toggle
  <2>2. QED BY <2>1, <1>h
<1>14. QED
  BY StepCases, <1>1, <1>2, <1>3, <1>4, <1>5, <1>6, <1>7, <1>8, <1>9, <1>10, <1>11, <1>12, <1>13

LEMMA EndsStep == BudgetAssumption /\ EndsInv /\ [Next]_vars => EndsInv'
<1> SUFFICES ASSUME BudgetAssumption, EndsInv, [Next]_vars PROVE EndsInv'
  OBVIOUS
<1>1. QuietInv' /\ Patient'
  BY QuietStep, PatientStep DEF EndsInv, QuietInv
<1>2. overtaken \subseteq overtaken'
  <2> USE DEF vars, ledgerVars, actorVars, historyVars, retryVars, boundVars
  <2>1. ASSUME NEW w \in Drains, NEW d \in Deliveries, OfBatch(w, d) \/ Repend(w, d)
        PROVE  UNCHANGED overtaken
    BY <2>1 DEF OfBatch, FetchFails, FetchRefused, Quarantine, Fetched, NextOfBatch, Repend
  <2>2. ASSUME NEW a \in Actors, NEW d \in Deliveries, Core(a, d) PROVE UNCHANGED overtaken
    BY <2>2 DEF Core, Match, Write, WriteFails, FailEvent, Finish, CoreSame
  <2>3. QED
    BY StepCases, <2>1, <2>2 DEF Receive, Ask, Requeue, Claim, Request, Replay, Import, LookAtPrior,
       StartImport, EndImport, Reap, Toggle, Die, CoreSame
<1>3. ASSUME NEW d \in Leads, d \notin overtaken' PROVE CountInv(d)'
  BY <1>2, <1>3, CountStep DEF EndsInv
<1>4. QED BY <1>1, <1>3 DEF EndsInv

\* With the attempts the code allows, a delivery that no living drain was overtaken on
\* is claimed no more often than its budget and the retries give.
THEOREM PoisonGivesUp == ASSUME BudgetAssumption PROVE Spec => []PoisonEnds
<1>1. ASSUME Init PROVE EndsInv
  <2>1. QuietInv
    BY <1>1, QuietInit
  <2>2. Patient
    BY <1>1 DEF Init, Patient, At, Idle, Actors
  <2>3. ASSUME NEW d \in Leads PROVE CountInv(d)
    <3>1. d \in Deliveries
      BY DEF Deliveries
    <3>2. /\ row[d].status = "absent" /\ d \notin asked /\ claims[d] = 0 /\ Used(d) = 0
          /\ row[d].attempts = 0
      BY <3>1, <1>1 DEF Init, NoCopies, NoRow, Used
    <3>3. (\A w \in Drains : ~Holds(w, d)) /\ (\A a \in Actors : ~Works(a, d))
      BY <3>1, <3>2, <2>1 DEF QuietInv, AbsentUntouched, Holds, Actors
    <3>4. HeldOnce(d) /\ HeldUnderWay(d) /\ AskedStays(d) /\ SourceStays(d) /\ CopiesCount(d)
      BY <3>2, <3>3 DEF HeldOnce, HeldUnderWay, AskedStays, SourceStays, CopiesCount, Holds, Brings, Actors
    <3>5. RowCounts(d)
      BY <3>2, LeadBoundAssumption DEF RowCounts
    <3>6. QED BY <3>4, <3>5 DEF CountInv
  <2>4. QED BY <2>1, <2>2, <2>3 DEF EndsInv
<1>2. EndsInv => PoisonEnds
  <2> SUFFICES ASSUME EndsInv, NEW d \in Leads \ overtaken
               PROVE  claims[d] <= MaxAttempts + requeued[d]
    BY DEF PoisonEnds
  <2>1. claims[d] \in Nat /\ requeued[d] \in Nat /\ MaxAttempts \in Nat
    BY LeadBoundAssumption DEF EndsInv, QuietInv, TypeOK
  <2>2. claims[d] - requeued[d] <= MaxAttempts
    BY DEF EndsInv, CountInv, RowCounts, Used
  <2>3. QED BY <2>1, <2>2
<1>3. BudgetAssumption /\ EndsInv /\ [Next]_vars => EndsInv'
  BY EndsStep
<1>4. QED BY <1>1, <1>2, <1>3, PTL DEF Spec
=============================================================================
