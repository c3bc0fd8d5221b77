--------------------------- MODULE StepWalkProofs ---------------------------
(***************************************************************************)
(* Proofs about StepWalk, for any tree of steps, events and bounds: its       *)
(* types, that no two sides of a fork are ever on record, that a wait says    *)
(* it happened only when an event claimed it, and that none ends early. The    *)
(* invariant relates what the walk remembers to the logs: between them lie     *)
(* every statement, crash and event that may come while the worker walks.      *)
(***************************************************************************)
EXTENDS StepWalk, FiniteSetTheorems, TLAPS

Logged == {s \in Steps : log[s] # "none"}
Walking == at \in {"walk", "effect", "clear"}

\* Where the worker is, as the types of the later steps need it.
PlaceInv ==
    /\ at = "effect" => pos \in Actions
    /\ at = "register" => pos \in Waits
    /\ at \in {"idle", "load"} => chosen = {}

\* The walk knows every step that is on record; only delays and waits park.
MemoryInv ==
    /\ \A s \in Steps : log[s] = "waiting" => s \in Parks
    /\ Walking =>
               /\ done = {s \in Steps : log[s] = "success"}
               /\ Started = Logged

\* The sides it took: one of each fork it has passed, none that a logged step
\* speaks against, and for an action under way every side around it.
SidesInv ==
    /\ \A f \in Forks, b \in BOOLEAN : <<f, b>> \in chosen => f <= pos /\ <<f, ~b>> \notin chosen
    /\ \A f \in Forks, b \in BOOLEAN, t \in Logged : <<f, b>> \in chosen => <<f, ~b>> \notin Within[t]
    /\ at = "effect" => Within[pos] \subseteq chosen

\* Whatever says that a wait's event came, an event claimed the wait.
ClaimInv == happened \cup stamped \cup sat \subseteq matched /\ \A e \in Emissions : claimed[e] \subseteq matched

-----------------------------------------------------------------------------
(* Types.                                                                    *)

LEMMA KindsApart ==
    /\ Steps \subseteq Nat \ {0} /\ NoStep = 0
    /\ Forks \subseteq Steps /\ Parks \subseteq Steps /\ Waits \subseteq Parks /\ Actions \subseteq Steps
    /\ Actions \cap Parks = {}
    /\ DataForks \subseteq Forks
    /\ \A s \in Steps : Within[s] \subseteq Side
<1>1. Steps \subseteq Nat \ {0} /\ NoStep = 0
  BY StepAssumption DEF NoStep
<1>2. /\ Forks \subseteq Steps /\ Parks \subseteq Steps /\ Waits \subseteq Parks /\ Actions \subseteq Steps
      /\ Actions \cap Parks = {} /\ DataForks \subseteq Forks
  BY DEF Forks, Parks, Waits, Actions, DataForks
<1>3. \A s \in Steps : Within[s] \subseteq Side
  <2> SUFFICES ASSUME NEW s \in Steps, NEW x \in Within[s] PROVE x \in Side
    OBVIOUS
  <2>1. x \in Sides /\ x[1] \in Forks
    BY StepAssumption
  <2>2. PICK f \in Steps, b \in BOOLEAN : x = <<f, b>>
    BY <2>1 DEF Sides
  <2> QED
    BY <2>1, <2>2 DEF Side
<1> QED
  BY <1>1, <1>2, <1>3

LEMMA SideIsOne ==
    ASSUME NEW f \in Forks, knows \in [DataForks -> BOOLEAN]
    PROVE  SideOf(f) \in BOOLEAN
<1>1. TakesA[f] \in BOOLEAN
  BY ForkAssumption
<1>2. Kind[f] = "split" \/ Reads[f] # NoStep \/ f \in DataForks
  BY DEF Forks, DataForks
<1>3. f \in DataForks => knows[f] \in BOOLEAN
  OBVIOUS
<1>4. Evaluate(f) \in BOOLEAN
  <2>1. CASE Kind[f] = "split"
    BY <1>1, <2>1 DEF Evaluate
  <2>2. CASE Kind[f] # "split" /\ Reads[f] # NoStep
    BY <2>2 DEF Evaluate
  <2>3. CASE Kind[f] # "split" /\ Reads[f] = NoStep
    <3>1. Evaluate(f) = knows[f]
      BY <2>3, Zenon DEF Evaluate
    <3> QED
      BY <1>2, <1>3, <2>3, <3>1
  <2> QED
    BY <2>1, <2>2, <2>3
<1> QED
  BY <1>4 DEF SideOf, Pinned, AnyStarted

LEMMA TypeInit == Init => TypeOK /\ PlaceInv
<1>1. 0 \in 0..MaxRetries /\ 0 \in 0..MaxChanges /\ 0 \in 0..MaxManual /\ 0 \in 0..MaxFaults /\ 0 \in 0..MaxCrashes
  BY WalkBoundAssumption
<1> QED
  BY <1>1 DEF Init, TypeOK, PlaceInv, NoStep

\* Leaving the run forgets the walk.
LEMMA ReturnIs ==
    ASSUME Return
    PROVE  /\ at' = "idle" /\ pos' = NoStep /\ chosen' = {} /\ sat' = {} /\ answers' = {}
           /\ done' \subseteq Steps /\ parked' \subseteq Parks /\ knows' \in [DataForks -> BOOLEAN]
  BY DEF Return

\* What an event claims: some waits, which are then matched; or it fails.
LEMMA ClaimIs ==
    ASSUME NEW e \in Emissions, ClaimEventWaits(e)
    PROVE  \E hit \in SUBSET Waits :
              \/ /\ waits' = [s \in Waits |-> IF s \in hit THEN "satisfied" ELSE waits[s]]
                 /\ claimed' = [claimed EXCEPT ![e] = hit] /\ matched' = matched \cup hit
                 /\ UNCHANGED faults
              \/ Fault /\ UNCHANGED <<waits, claimed, matched>>
<1> DEFINE Hit == {s \in Waits : waits[s] = "open" /\ Awaits[s] = TypeOf[e] /\ left[s] > 0}
<1>1. Hit \in SUBSET Waits
  OBVIOUS
<1>2. \/ /\ waits' = [s \in Waits |-> IF s \in Hit THEN "satisfied" ELSE waits[s]]
         /\ claimed' = [claimed EXCEPT ![e] = Hit] /\ matched' = matched \cup Hit
         /\ UNCHANGED faults
      \/ Fault /\ UNCHANGED <<waits, claimed, matched>>
  BY DEF ClaimEventWaits
<1> QED
  BY <1>1, <1>2

LEMMA TypeNext == TypeOK /\ PlaceInv /\ [Next]_vars => TypeOK' /\ PlaceInv'
<1> SUFFICES ASSUME TypeOK, PlaceInv, [Next]_vars PROVE TypeOK' /\ PlaceInv'
  OBVIOUS
<1>0. /\ {MaxRetries, MaxChanges, MaxManual, MaxFaults, MaxCrashes} \subseteq Nat
      /\ faults \in Nat /\ 0 \in 0..MaxRetries
  BY WalkBoundAssumption DEF TypeOK
<1>f. ASSUME Fault PROVE faults' \in 0..MaxFaults
  BY <1>0, <1>f DEF Fault, TypeOK
<1> USE KindsApart DEF TypeOK, PlaceInv
<1>1. ASSUME Take PROVE TypeOK' /\ PlaceInv'
  BY <1>1 DEF Take, logVars, eventVars, boundVars
<1>2. ASSUME Load PROVE TypeOK' /\ PlaceInv'
  BY <1>0, <1>f, <1>2, ReturnIs DEF Load, logVars, eventVars
<1>3. ASSUME CommitSuccess PROVE TypeOK' /\ PlaceInv'
  BY <1>0, <1>f, <1>3, ReturnIs DEF CommitSuccess, eventVars
<1>4. ASSUME CommitError PROVE TypeOK' /\ PlaceInv'
  BY <1>0, <1>f, <1>4, ReturnIs DEF CommitError, logVars, eventVars
<1>5. ASSUME Complete PROVE TypeOK' /\ PlaceInv'
  BY <1>0, <1>f, <1>5, ReturnIs DEF Complete, logVars, eventVars
<1>6. ASSUME Register PROVE TypeOK' /\ PlaceInv'
  BY <1>0, <1>f, <1>6, ReturnIs DEF Register, rowVars, logVars, eventVars
<1>7. ASSUME Clear PROVE TypeOK' /\ PlaceInv'
  BY <1>0, <1>f, <1>7 DEF Clear, rowVars, logVars, eventVars
<1>8. ASSUME NEW s \in Steps, Fork(s) PROVE TypeOK' /\ PlaceInv'
  BY <1>0, <1>8, SideIsOne DEF Fork, rowVars, logVars, eventVars, boundVars, Side
<1>9. ASSUME NEW s \in Steps, Skip(s) PROVE TypeOK' /\ PlaceInv'
  BY <1>0, <1>9 DEF Skip, rowVars, logVars, eventVars, boundVars
<1>10. ASSUME NEW s \in Steps, Execute(s) PROVE TypeOK' /\ PlaceInv'
  BY <1>0, <1>10 DEF Execute, rowVars, logVars, eventVars, boundVars
<1>11. ASSUME NEW s \in Steps, Park(s) PROVE TypeOK' /\ PlaceInv'
  <2>1. Timeout[s] \in Nat /\ s \in Parks
    BY <1>11, ParkAssumption DEF Park
  <2>2. log' \in [Steps -> {"none", "waiting", "success"}] /\ left' \in [Parks -> Nat] /\ faults' \in 0..MaxFaults
    BY <1>f, <1>11, <2>1 DEF Park
  <2>3. status' \in {"pending", "running", "waiting", "completed", "failed"} /\ wake' \in Parks \cup {NoStep}
    BY <1>11, <2>1 DEF Park
  <2>4. \/ /\ at' = "register" /\ pos' = s /\ s \in Waits
           /\ UNCHANGED <<chosen, done, parked, sat, knows, answers>>
        \/ Return
    BY <1>11 DEF Park
  <2> QED
    BY <1>0, <1>11, <2>2, <2>3, <2>4, ReturnIs DEF Park, eventVars
<1>12. ASSUME NEW s \in Steps, Repark(s) PROVE TypeOK' /\ PlaceInv'
  BY <1>0, <1>f, <1>12, ReturnIs DEF Repark, logVars, eventVars
<1>13. ASSUME NEW s \in Steps, FinishWait(s) PROVE TypeOK' /\ PlaceInv'
  BY <1>0, <1>f, <1>13, ReturnIs DEF FinishWait, eventVars
<1>14. ASSUME WakeDue PROVE TypeOK' /\ PlaceInv'
  BY <1>14 DEF WakeDue, logVars, workVars, eventVars, boundVars
<1>15. ASSUME NEW e \in Emissions, ClaimEventWaits(e) PROVE TypeOK' /\ PlaceInv'
  <2>0. PICK hit \in SUBSET Waits :
            \/ /\ waits' = [s \in Waits |-> IF s \in hit THEN "satisfied" ELSE waits[s]]
               /\ claimed' = [claimed EXCEPT ![e] = hit] /\ matched' = matched \cup hit
               /\ UNCHANGED faults
            \/ Fault /\ UNCHANGED <<waits, claimed, matched>>
    BY <1>15, ClaimIs
  <2>1. waits' \in [Waits -> {"none", "open", "satisfied"}]
    BY <2>0
  <2>2. claimed' \in [Emissions -> SUBSET Waits] /\ matched' \subseteq Waits
    BY <2>0
  <2>4. faults' \in 0..MaxFaults
    BY <1>f, <2>0
  <2>3. em' \in [Emissions -> {"new", "claimed", "done"}]
    BY <1>15 DEF ClaimEventWaits
  <2> QED
    BY <1>0, <1>15, <2>1, <2>2, <2>3, <2>4 DEF ClaimEventWaits, rowVars, logVars, workVars
<1>16. ASSUME NEW e \in Emissions, NEW s \in Waits, SatisfyWaitingRun(e, s) PROVE TypeOK' /\ PlaceInv'
  BY <1>0, <1>f, <1>16 DEF SatisfyWaitingRun, workVars, StampedOf
<1>17. ASSUME RetryRun PROVE TypeOK' /\ PlaceInv'
  <2>1. manual' \in 0..MaxManual
    BY <1>0, <1>17 DEF RetryRun
  <2> QED
    BY <1>0, <1>17, <2>1 DEF RetryRun, logVars, workVars, eventVars
<1>18. ASSUME NEW f \in DataForks, Change(f) PROVE TypeOK' /\ PlaceInv'
  BY <1>0, <1>18 DEF Change, rowVars, logVars, workVars, eventVars
<1>19. ASSUME Tick PROVE TypeOK' /\ PlaceInv'
  BY <1>0, <1>19 DEF Tick, rowVars, workVars, eventVars, boundVars
<1>20. ASSUME Crash PROVE TypeOK' /\ PlaceInv'
  BY <1>0, <1>20, ReturnIs DEF Crash, logVars
<1>21. CASE UNCHANGED vars
  BY <1>21 DEF vars, rowVars, logVars, workVars, eventVars, boundVars
<1> QED
  BY <1>1, <1>2, <1>3, <1>4, <1>5, <1>6, <1>7, <1>8, <1>9, <1>10, <1>11, <1>12, <1>13, <1>14, <1>15,
     <1>16, <1>17, <1>18, <1>19, <1>20, <1>21
     DEF Next, WorkerStep, EventStep

-----------------------------------------------------------------------------
(* Only what an event has claimed is said to have happened.                   *)

LEMMA ClaimNext == TypeOK /\ ClaimInv /\ [Next]_vars => ClaimInv'
<1> SUFFICES ASSUME TypeOK, ClaimInv, [Next]_vars PROVE ClaimInv'
  OBVIOUS
<1>0. claimed \in [Emissions -> SUBSET Waits]
  BY DEF TypeOK
<1>1. CASE Load
  BY <1>1 DEF ClaimInv, Load, Return, logVars, eventVars
<1>2. ASSUME NEW s \in Steps, FinishWait(s) PROVE ClaimInv'
  BY <1>2 DEF ClaimInv, FinishWait, Return, eventVars
<1>3. ASSUME NEW e \in Emissions, ClaimEventWaits(e) PROVE ClaimInv'
  <2>1. UNCHANGED <<happened, stamped, sat>> /\ matched \subseteq matched'
    BY <1>3, ClaimIs DEF ClaimEventWaits, logVars, workVars
  <2>2. \A c \in Emissions : claimed'[c] \subseteq matched'
    BY <1>0, <1>3, ClaimIs DEF ClaimInv
  <2> QED
    BY <2>1, <2>2 DEF ClaimInv
<1>4. ASSUME NEW e \in Emissions, NEW s \in Waits, SatisfyWaitingRun(e, s) PROVE ClaimInv'
  <2>1. stamped' \subseteq stamped \cup {s} /\ s \in claimed[e] /\ UNCHANGED <<happened, sat, matched>>
    BY <1>4 DEF SatisfyWaitingRun, StampedOf, workVars
  <2>2. \A c \in Emissions : claimed'[c] \subseteq matched
    BY <1>0, <1>4 DEF ClaimInv, SatisfyWaitingRun
  <2> QED
    BY <2>1, <2>2 DEF ClaimInv
<1>5. CASE Crash
  BY <1>5 DEF ClaimInv, Crash, Return, logVars
<1>6. CASE UNCHANGED <<happened, stamped, matched, claimed>> /\ (sat' = sat \/ sat' = {})
  BY <1>6 DEF ClaimInv
<1> QED
  BY <1>1, <1>2, <1>3, <1>4, <1>5, <1>6
     DEF Next, WorkerStep, EventStep, Take, CommitSuccess, CommitError, Complete, Register, Clear, Fork, Skip, Execute,
         Park, Repark, WakeDue, RetryRun, Change, Tick, vars, logVars, workVars, eventVars, Return

-----------------------------------------------------------------------------
(* One side of a fork.                                                       *)

\* Nothing changes for a step that leaves the logs and the walk alone.
LEMMA OthersKeep ==
    ASSUME MemoryInv, SidesInv, OneSideOnRecord, UNCHANGED <<log, at, pos, chosen, done, parked>>
    PROVE  MemoryInv' /\ SidesInv' /\ OneSideOnRecord'
<1>1. Logged' = Logged /\ Started' = Started /\ Walking' = Walking
  BY DEF Logged, Started, Walking
<1>2. MemoryInv'
  BY <1>1 DEF MemoryInv
<1>3. SidesInv'
  BY <1>1 DEF SidesInv
<1>4. OneSideOnRecord'
  BY DEF OneSideOnRecord
<1> QED
  BY <1>2, <1>3, <1>4

\* A walk that ends remembers nothing and needs nothing.
LEMMA EndKeeps ==
    ASSUME Return, \A s \in Steps : log'[s] = "waiting" => s \in Parks PROVE MemoryInv' /\ SidesInv'
  BY ReturnIs DEF MemoryInv, Walking, SidesInv

\* A step whose sides were all taken may go on record.
LEMMA OnRecord ==
    ASSUME TypeOK, SidesInv, OneSideOnRecord, NEW s \in Steps, Within[s] \subseteq chosen,
           \A t \in Steps \ {s} : log'[t] = log[t]
    PROVE  /\ OneSideOnRecord'
           /\ \A f \in Forks, b \in BOOLEAN, t \in Logged' : <<f, b>> \in chosen => <<f, ~b>> \notin Within[t]
<1>1. Logged' \subseteq Logged \cup {s}
  BY DEF Logged
<1>2. \A f \in Forks, b \in BOOLEAN : <<f, b>> \in chosen => <<f, ~b>> \notin Within[s]
  BY DEF SidesInv
<1>3. \A f \in Forks, b \in BOOLEAN, t \in Logged' : <<f, b>> \in chosen => <<f, ~b>> \notin Within[t]
  BY <1>1, <1>2 DEF SidesInv
<1>4. ASSUME NEW t \in Logged' PROVE ~Apart(s, t) /\ ~Apart(t, s)
  <2>1. \A f \in Forks : <<f, TRUE>> \in Within[s] => <<f, FALSE>> \notin Within[t]
    BY <1>3
  <2>2. \A f \in Forks : <<f, FALSE>> \in Within[s] => <<f, TRUE>> \notin Within[t]
    BY <1>3
  <2> QED
    BY <2>1, <2>2 DEF Apart
<1>5. ASSUME NEW t \in Steps, NEW u \in Steps, log'[t] # "none", log'[u] # "none" PROVE ~Apart(t, u)
  <2>1. t \in Logged' /\ u \in Logged'
    BY <1>5 DEF Logged
  <2>2. CASE t # s /\ u # s
    BY <1>5, <2>2 DEF OneSideOnRecord
  <2> QED
    BY <1>4, <2>1, <2>2
<1> QED
  BY <1>3, <1>5 DEF OneSideOnRecord

TreeInv == MemoryInv /\ SidesInv /\ OneSideOnRecord

LEMMA TreeNext == TypeOK /\ PlaceInv /\ TreeInv /\ [Next]_vars => TreeInv'
<1> SUFFICES ASSUME TypeOK, PlaceInv, TreeInv, [Next]_vars PROVE TreeInv'
  OBVIOUS
<1>0. MemoryInv /\ SidesInv /\ OneSideOnRecord
  BY DEF TreeInv
<1>n. pos \in Nat /\ \A s \in Steps : s \in Nat
  BY KindsApart DEF TypeOK
<1>m. ASSUME NEW s \in Steps, s > pos, pos' = s, chosen' = chosen
      PROVE  \A f \in Forks, b \in BOOLEAN : <<f, b>> \in chosen' => f <= pos' /\ <<f, ~b>> \notin chosen'
  <2> SUFFICES ASSUME NEW f \in Forks, NEW b \in BOOLEAN, <<f, b>> \in chosen
               PROVE  f <= s /\ <<f, ~b>> \notin chosen
    BY <1>m
  <2>1. f <= pos /\ <<f, ~b>> \notin chosen
    BY <1>0 DEF SidesInv
  <2>2. f \in Nat
    BY <1>n, KindsApart
  <2> QED
    BY <1>m, <1>n, <2>1, <2>2
<1>1. ASSUME UNCHANGED <<log, at, pos, chosen, done, parked>> PROVE TreeInv'
  BY <1>0, <1>1, OthersKeep DEF TreeInv
<1>2. ASSUME UNCHANGED log, Return PROVE TreeInv'
  <2>1. OneSideOnRecord'
    BY <1>0, <1>2 DEF OneSideOnRecord
  <2> QED
    BY <1>0, <1>2, <2>1, EndKeeps DEF TreeInv, MemoryInv
<1>3. CASE Take
  <2>1. OneSideOnRecord' /\ chosen = {} /\ chosen' = {} /\ at' = "load"
    BY <1>0, <1>3 DEF Take, logVars, OneSideOnRecord, PlaceInv
  <2> QED
    BY <1>0, <1>3, <2>1 DEF Take, logVars, TreeInv, MemoryInv, Walking, SidesInv
<1>4. CASE Load
  <2>1. CASE Return
    BY <1>2, <1>4, <2>1 DEF Load, logVars
  <2>2. CASE at' = "walk" /\ done' = {s \in Steps : log[s] = "success"} /\ parked' = {s \in Parks : log[s] = "waiting"}
              /\ UNCHANGED chosen
    <3>1. OneSideOnRecord' /\ chosen = {} /\ chosen' = {} /\ log' = log
      BY <1>0, <1>4, <2>2 DEF Load, logVars, OneSideOnRecord, PlaceInv
    <3>2. Started' = Logged'
      <4>1. Started' = {s \in Steps : log[s] = "success"} \cup {s \in Parks : log[s] = "waiting"}
        BY <2>2 DEF Started
      <4>2. \A s \in Steps : log[s] # "none" <=> log[s] = "success" \/ (log[s] = "waiting" /\ s \in Parks)
        BY <1>0 DEF MemoryInv, TypeOK
      <4>3. Parks \subseteq Steps /\ log' = log
        BY <3>1, KindsApart
      <4> QED
        BY <4>1, <4>2, <4>3 DEF Logged
    <3> QED
      BY <1>0, <2>2, <3>1, <3>2 DEF TreeInv, MemoryInv, SidesInv
  <2> QED
    BY <1>4, <2>1, <2>2 DEF Load
<1>5. ASSUME NEW s \in Steps, Fork(s) PROVE TreeInv'
  <2>1. /\ s \in Forks /\ s > pos /\ at = "walk" /\ pos' = s /\ chosen' = chosen \cup {<<s, SideOf(s)>>}
        /\ UNCHANGED <<log, at, done, parked>>
    BY <1>5 DEF Fork, IsNext, Ahead, logVars
  <2>2. Logged' = Logged /\ Started' = Started /\ Started = Logged
    BY <1>0, <2>1 DEF Logged, Started, MemoryInv, Walking
  <2>3. MemoryInv' /\ OneSideOnRecord'
    BY <1>0, <2>1, <2>2 DEF MemoryInv, Walking, OneSideOnRecord
  <2>4. SideOf(s) \in BOOLEAN
    BY <2>1, SideIsOne DEF TypeOK
  <2>5. \A t \in Logged : <<s, ~SideOf(s)>> \notin Within[t]
    <3>1. CASE Pinned(s, TRUE)
      <4>1. SideOf(s) = TRUE
        BY <3>1 DEF SideOf
      <4>2. PICK u \in Logged : <<s, TRUE>> \in Within[u]
        BY <2>2, <3>1 DEF Pinned, AnyStarted
      <4>3. \A t \in Logged : <<s, FALSE>> \notin Within[t]
        BY <1>0, <2>1, <4>2 DEF OneSideOnRecord, Apart, Logged
      <4> QED
        BY <4>1, <4>3
    <3>2. CASE ~Pinned(s, TRUE) /\ Pinned(s, FALSE)
      <4>1. SideOf(s) = FALSE
        BY <3>2 DEF SideOf
      <4> QED
        BY <2>2, <3>2, <4>1 DEF Pinned, AnyStarted
    <3>3. CASE ~Pinned(s, TRUE) /\ ~Pinned(s, FALSE)
      <4>1. \A b \in BOOLEAN, t \in Logged : <<s, b>> \notin Within[t]
        BY <2>2, <3>3 DEF Pinned, AnyStarted
      <4> QED
        BY <2>4, <4>1
    <3> QED
      BY <3>1, <3>2, <3>3
  <2>6. SidesInv'
    <3>1. \A b \in BOOLEAN : <<s, b>> \notin chosen
      <4> SUFFICES ASSUME NEW b \in BOOLEAN, <<s, b>> \in chosen PROVE FALSE
        OBVIOUS
      <4>1. s <= pos
        BY <1>0, <2>1 DEF SidesInv
      <4> QED
        BY <1>n, <2>1, <4>1
    <3>2. ASSUME NEW f \in Forks, NEW b \in BOOLEAN, <<f, b>> \in chosen'
          PROVE  f <= pos' /\ <<f, ~b>> \notin chosen' /\ \A t \in Logged' : <<f, ~b>> \notin Within[t]
      <4>1. CASE f = s
        <5>1. b = SideOf(s)
          BY <2>1, <3>1, <3>2, <4>1
        <5>2. <<s, ~b>> \notin chosen'
          BY <2>1, <2>4, <3>1, <5>1
        <5>3. s <= pos'
          BY <2>1, KindsApart
        <5> QED
          BY <2>2, <2>5, <4>1, <5>1, <5>2, <5>3
      <4>2. CASE f # s
        <5>1. <<f, b>> \in chosen /\ (<<f, ~b>> \in chosen' => <<f, ~b>> \in chosen)
          BY <2>1, <3>2, <4>2
        <5>2. f <= pos /\ f \in Nat /\ pos \in Nat /\ s \in Nat
          <6>1. f <= pos
            BY <1>0, <5>1 DEF SidesInv
          <6> QED
            BY <1>n, <6>1, KindsApart
        <5> QED
          BY <1>0, <2>1, <2>2, <5>1, <5>2 DEF SidesInv
      <4> QED
        BY <4>1, <4>2
    <3> QED
      BY <2>1, <3>2 DEF SidesInv
  <2> QED
    BY <2>3, <2>6 DEF TreeInv
<1>6. ASSUME NEW s \in Steps, Skip(s) PROVE TreeInv'
  <2>1. s > pos /\ at = "walk" /\ pos' = s /\ UNCHANGED <<log, at, done, parked, chosen>>
    BY <1>6 DEF Skip, IsNext, Ahead, logVars
  <2> QED
    BY <1>0, <1>m, <2>1 DEF TreeInv, MemoryInv, Walking, Started, Logged, SidesInv, OneSideOnRecord
<1>7. ASSUME NEW s \in Steps, Execute(s) PROVE TreeInv'
  <2>1. /\ s > pos /\ at = "walk" /\ at' = "effect" /\ pos' = s /\ Within[s] \subseteq chosen
        /\ UNCHANGED <<log, done, parked, chosen>>
    BY <1>7 DEF Execute, IsNext, Ahead, logVars
  <2> QED
    BY <1>0, <1>m, <2>1 DEF TreeInv, MemoryInv, Walking, Started, Logged, SidesInv, OneSideOnRecord
<1>8. CASE CommitSuccess
  <2>1. CASE Return /\ UNCHANGED log
    BY <1>2, <2>1
  <2>2. CASE log' = [log EXCEPT ![pos] = "success"] /\ done' = done \cup {pos} /\ at' = "walk"
             /\ UNCHANGED <<pos, chosen, parked>>
    <3>1. at = "effect" /\ pos \in Steps /\ Within[pos] \subseteq chosen /\ Walking
      BY <1>0, <1>8, KindsApart DEF CommitSuccess, PlaceInv, SidesInv, Walking
    <3>2. log \in [Steps -> {"none", "waiting", "success"}]
      BY DEF TypeOK
    <3>3. /\ OneSideOnRecord'
          /\ \A f \in Forks, b \in BOOLEAN, t \in Logged' : <<f, b>> \in chosen => <<f, ~b>> \notin Within[t]
      BY <1>0, <2>2, <3>1, <3>2, OnRecord
    <3>4. SidesInv'
      BY <1>0, <2>2, <3>3 DEF SidesInv
    <3>5. done' = {s \in Steps : log'[s] = "success"} /\ Started' = Logged'
      BY <1>0, <2>2, <3>1, <3>2 DEF MemoryInv, Started, Logged
    <3> QED
      BY <1>0, <2>2, <3>1, <3>2, <3>3, <3>4, <3>5 DEF TreeInv, MemoryInv
  <2> QED
    BY <1>8, <2>1, <2>2 DEF CommitSuccess
<1>9. ASSUME NEW s \in Steps, Park(s) PROVE TreeInv'
  <2>1. CASE Return /\ UNCHANGED log
    BY <1>2, <2>1
  <2>2. CASE log' = [log EXCEPT ![s] = "waiting"]
             /\ \/ at' = "register" /\ pos' = s /\ UNCHANGED <<chosen, done, parked>>
                \/ Return
    <3>1. s \in Parks /\ s > pos /\ Within[s] \subseteq chosen /\ log \in [Steps -> {"none", "waiting", "success"}]
      BY <1>9 DEF Park, IsNext, Ahead, TypeOK
    <3>2. /\ OneSideOnRecord'
          /\ \A f \in Forks, b \in BOOLEAN, t \in Logged' : <<f, b>> \in chosen => <<f, ~b>> \notin Within[t]
      BY <1>0, <2>2, <3>1, OnRecord
    <3>3. \A t \in Steps : log'[t] = "waiting" => t \in Parks
      BY <1>0, <2>2, <3>1 DEF MemoryInv
    <3>4. CASE Return
      BY <3>2, <3>3, <3>4, EndKeeps DEF TreeInv
    <3>5. CASE at' = "register" /\ pos' = s /\ UNCHANGED <<chosen, done, parked>>
      BY <1>0, <1>m, <3>1, <3>2, <3>3, <3>5 DEF TreeInv, MemoryInv, Walking, SidesInv
    <3> QED
      BY <2>2, <3>4, <3>5
  <2> QED
    BY <1>9, <2>1, <2>2 DEF Park
<1>10. ASSUME NEW s \in Steps, FinishWait(s) PROVE TreeInv'
  <2>1. CASE Return /\ UNCHANGED log
    BY <1>2, <2>1
  <2>2. CASE log' = [log EXCEPT ![s] = "success"] /\ done' = done \cup {s} /\ at' \in {"clear", "walk"} /\ pos' = s
             /\ UNCHANGED <<chosen, parked>>
    <3>1. s > pos /\ Walking /\ s \in parked /\ log \in [Steps -> {"none", "waiting", "success"}]
      BY <1>10 DEF FinishWait, IsNext, Ahead, Walking, TypeOK
    <3>2. s \in Logged /\ Logged' = Logged
      BY <1>0, <2>2, <3>1 DEF MemoryInv, Started, Logged
    <3>3. OneSideOnRecord'
      BY <1>0, <3>2 DEF OneSideOnRecord, Logged
    <3>4. SidesInv'
      BY <1>0, <1>m, <2>2, <3>1, <3>2 DEF SidesInv
    <3>5. done' = {t \in Steps : log'[t] = "success"} /\ Started' = Logged'
      BY <1>0, <2>2, <3>1, <3>2 DEF MemoryInv, Started
    <3> QED
      BY <1>0, <2>2, <3>1, <3>3, <3>4, <3>5 DEF TreeInv, MemoryInv
  <2>3. at' \in {"clear", "walk"} \/ Return
    BY <1>10 DEF FinishWait
  <2> QED
    BY <1>10, <2>1, <2>2, <2>3 DEF FinishWait
<1>11. CASE Clear
  BY <1>0, <1>11 DEF Clear, logVars, TreeInv, MemoryInv, Walking, Started, Logged, SidesInv, OneSideOnRecord
<1>12. CASE CommitError \/ Complete \/ Register \/ Crash \/ \E s \in Steps : Repark(s)
  <2>1. UNCHANGED log /\ Return
    BY <1>12 DEF CommitError, Complete, Register, Crash, Repark, logVars
  <2> QED
    BY <1>2, <2>1
<1>13. CASE \/ WakeDue \/ RetryRun \/ Tick \/ UNCHANGED vars \/ \E f \in DataForks : Change(f)
            \/ \E e \in Emissions : EventStep(e)
  <2>1. UNCHANGED <<log, at, pos, chosen, done, parked>>
    BY <1>13 DEF WakeDue, RetryRun, Tick, Change, EventStep, ClaimEventWaits, SatisfyWaitingRun, vars, logVars, workVars
  <2> QED
    BY <1>1, <2>1
<1> QED
  BY <1>3, <1>4, <1>5, <1>6, <1>7, <1>8, <1>9, <1>10, <1>11, <1>12, <1>13 DEF Next, WorkerStep

-----------------------------------------------------------------------------
(* The theorems.                                                             *)

IInv == TypeOK /\ PlaceInv /\ ClaimInv /\ TreeInv

LEMMA InvAlways == Spec => []IInv
<1>1. Init => IInv
  <2> SUFFICES ASSUME Init PROVE IInv
    OBVIOUS
  <2>1. ClaimInv
    BY DEF Init, ClaimInv
  <2>2. MemoryInv /\ SidesInv /\ OneSideOnRecord
    BY DEF Init, MemoryInv, Walking, SidesInv, Logged, OneSideOnRecord
  <2> QED
    BY <2>1, <2>2, TypeInit DEF IInv, TreeInv
<1>2. IInv /\ [Next]_vars => IInv'
  BY TypeNext, ClaimNext, TreeNext DEF IInv
<1> QED
  BY <1>1, <1>2, PTL DEF Spec

\* Every variable keeps its type, whatever the tree.
THEOREM WalkTypeCorrect == Spec => []TypeOK
<1>1. IInv => TypeOK
  BY DEF IInv
<1> QED
  BY <1>1, InvAlways, PTL

\* However often a run walks its tree again, its logs show one side of each
\* condition and split (hasAnyStepStarted in runConditionStep and runSplitStep).
THEOREM OneSideForGood == Spec => []OneSideOnRecord
<1>1. IInv => OneSideOnRecord
  BY DEF IInv, TreeInv
<1> QED
  BY <1>1, InvAlways, PTL

\* A wait that says its event happened was claimed by one (ClaimEventWaits, SatisfyWaitingRun).
THEOREM HappenedWasClaimed == Spec => []HappenedWasMatched
<1>1. IInv => HappenedWasMatched
  BY DEF IInv, ClaimInv, HappenedWasMatched
<1> QED
  BY <1>1, InvAlways, PTL

\* A delay or a wait that no event satisfied ends at its deadline, however
\* early the run is woken (runDelayStep, runEventWaitStep).
THEOREM NoneEndsEarly == Spec => NoWaitCutShort
<1>1. IInv /\ [Next]_vars =>
         [\A s \in Parks : log[s] = "waiting" /\ log'[s] = "success" => s \in happened' \/ left[s] = 0]_vars
  <2> SUFFICES ASSUME IInv, [Next]_vars, NEW s \in Parks, log[s] = "waiting", log'[s] = "success"
               PROVE  s \in happened' \/ left[s] = 0
    OBVIOUS
  <2>0. s \in Steps /\ s \notin Actions /\ left[s] \in Nat /\ log \in [Steps -> {"none", "waiting", "success"}]
    BY KindsApart DEF IInv, TypeOK
  <2>1. ASSUME NEW t \in Steps, FinishWait(t) PROVE s \in happened' \/ left[s] = 0
    <3>1. s = t /\ ~NotDue(t)
      BY <2>0, <2>1 DEF FinishWait
    <3>2. CASE s \in sat
      BY <2>0, <2>1, <3>1, <3>2 DEF FinishWait
    <3>3. CASE s \notin sat
      BY <2>0, <3>1, <3>3 DEF NotDue
    <3> QED
      BY <3>2, <3>3
  <2>2. ~CommitSuccess
    <3> SUFFICES ASSUME CommitSuccess PROVE FALSE
      OBVIOUS
    <3>1. pos # s /\ (log' = log \/ log' = [log EXCEPT ![pos] = "success"])
      BY <2>0 DEF CommitSuccess, IInv, PlaceInv
    <3> QED
      BY <2>0, <3>1
  <2>3. ASSUME NEW t \in Steps, Park(t) PROVE FALSE
    BY <2>0, <2>3 DEF Park
  <2>4. UNCHANGED log \/ (\E t \in Steps : FinishWait(t) \/ Park(t)) \/ CommitSuccess
    BY DEF Next, WorkerStep, EventStep, Take, Load, CommitError, Complete, Register, Clear, Fork, Skip, Execute, Repark,
           WakeDue, ClaimEventWaits, SatisfyWaitingRun, RetryRun, Change, Tick, Crash, vars, logVars
  <2> QED
    BY <2>0, <2>1, <2>2, <2>3, <2>4
<1> QED
  BY <1>1, InvAlways, PTL DEF Spec, NoWaitCutShort

-----------------------------------------------------------------------------
(***************************************************************************)
(* Every attempt goes on where the one before it stopped, as long as the     *)
(* records stay as they are and a condition reads only a wait that is listed  *)
(* before it. What keeps the attempts together is the verdict on a fork that   *)
(* the database gives: a walk takes that side, and nothing the walk records    *)
(* turns it. So a step that is passed without being finished lies on a side    *)
(* no walk takes.                                                             *)
(***************************************************************************)

AnswersComeFirst == \A f \in Forks : Reads[f] < f

OnRecordIn(f, b) == \E t \in Logged : <<f, b>> \in Within[t]
Says(f) ==
    IF Kind[f] = "split" THEN TakesA[f]
    ELSE IF Reads[f] = NoStep THEN data[f] ELSE Reads[f] \in happened
Verdict(f) == OnRecordIn(f, TRUE) \/ (~OnRecordIn(f, FALSE) /\ Says(f))
Off(s) == \E f \in Forks, b \in BOOLEAN : <<f, b>> \in Within[s] /\ Verdict(f) # b

\* The walk of an attempt sees what the database says.
SeesInv ==
    /\ at \in {"idle", "load"} => pos = NoStep
    /\ Walking => answers = happened /\ (changes = 0 => knows = data)

\* What it has passed it finished, or left on a side it did not take.
Decided(s) ==
    Within[s] \subseteq chosen \/ \E f \in Forks, b \in BOOLEAN : <<f, b>> \in Within[s] /\ <<f, ~b>> \in chosen
PassedInv ==
    Walking => \A s \in Steps : s <= pos =>
        /\ Decided(s)
        /\ Within[s] \subseteq chosen =>
              IF s \in Forks THEN \E b \in BOOLEAN : <<s, b>> \in chosen
              ELSE s \in done \/ (at = "effect" /\ s = pos)

VerdictInv == Walking => \A f \in Forks, b \in BOOLEAN : <<f, b>> \in chosen => Verdict(f) = b

\* No later step is on record while an earlier one is to be done.
FrontInv == \A t \in Logged, s \in Steps \ Forks : s < t /\ log[s] # "success" => Off(s)

\* Forks leave no log.
ForksSilent == \A f \in Forks : log[f] = "none"

PathInv == ForksSilent /\ SeesInv /\ PassedInv /\ (changes = 0 => VerdictInv /\ FrontInv)

\* Some step of a set is the first.
LEMMA FirstOf ==
    ASSUME NEW T \in SUBSET Steps, T # {}
    PROVE  \E x \in T : \A y \in T : x <= y
<1> DEFINE Below(x) == {y \in T : y < x}
           B == {Below(x) : x \in T}
<1>1. Steps \subseteq Nat /\ IsFiniteSet(T)
  BY StepAssumption, FS_Subset
<1>2. IsWellFoundedOn(StrictSubsetOrdering(T), FiniteSubsetsOf(T))
  BY FS_StrictSubsetOrderingWellFounded
<1>3. FiniteSubsetsOf(T) = SUBSET T
  BY <1>1, FS_FiniteSubsetsOfFinite
<1>4. B \subseteq SUBSET T /\ B # {}
  OBVIOUS
<1>5. PICK m \in B : \A n \in B : <<n, m>> \notin StrictSubsetOrdering(T)
  <2> HIDE DEF B
  <2> QED
    BY <1>2, <1>3, <1>4, WFMin
<1>6. PICK x \in T : m = Below(x)
  BY <1>5
<1>7. ASSUME NEW y \in T, y < x PROVE FALSE
  <2>0. x \in Nat /\ y \in Nat /\ \A z \in T : z \in Nat
    BY <1>1
  <2>1. Below(y) \subseteq Below(x) /\ y \in Below(x) /\ y \notin Below(y)
    <3>1. ASSUME NEW z \in Below(y) PROVE z \in Below(x)
      <4>1. z \in T /\ z < y
        OBVIOUS
      <4>2. z < x
        BY <1>7, <2>0, <4>1
      <4> QED
        BY <4>1, <4>2
    <3>2. ~(y < y)
      BY <2>0
    <3> QED
      BY <1>7, <3>1, <3>2
  <2>2. <<Below(y), m>> \in StrictSubsetOrdering(T)
    <3>1. Below(y) # m /\ Below(y) \subseteq m /\ Below(y) \in SUBSET T /\ m \in SUBSET T
      BY <1>6, <2>1
    <3> HIDE DEF Below
    <3> QED
      BY <3>1 DEF StrictSubsetOrdering
  <2> QED
    BY <1>5, <2>2
<1> QED
  BY <1>1, <1>7

LEMMA VerdictIsOne == ASSUME TypeOK, NEW f \in Forks PROVE Verdict(f) \in BOOLEAN
<1>1. Says(f) \in BOOLEAN
  <2>1. TakesA[f] \in BOOLEAN
    BY ForkAssumption
  <2>2. CASE Kind[f] = "split"
    BY <2>1, <2>2 DEF Says
  <2>3. CASE Kind[f] # "split" /\ Reads[f] # NoStep
    BY <2>3 DEF Says
  <2>4. CASE Kind[f] # "split" /\ Reads[f] = NoStep
    <3>1. f \in DataForks /\ data \in [DataForks -> BOOLEAN]
      BY <2>4 DEF TypeOK, Forks, DataForks
    <3>2. data[f] \in BOOLEAN
      BY <3>1
    <3>3. Says(f) = data[f]
      BY <2>4, Zenon DEF Says
    <3> QED
      BY <3>2, <3>3
  <2> QED
    BY <2>2, <2>3, <2>4
<1> QED
  BY <1>1 DEF Verdict, OnRecordIn

\* The side a walk takes is the one the database says.
LEMMA SideIsVerdict ==
    ASSUME TypeOK, MemoryInv, SeesInv, changes = 0, at = "walk", NEW f \in Forks
    PROVE  SideOf(f) = Verdict(f)
<1>1. Started = Logged /\ answers = happened /\ knows = data
  BY DEF MemoryInv, SeesInv, Walking
<1>2. Evaluate(f) = Says(f)
  BY <1>1 DEF Evaluate, Says
<1>3. \A b \in BOOLEAN : Pinned(f, b) = OnRecordIn(f, b)
  BY <1>1 DEF Pinned, AnyStarted, OnRecordIn
<1> QED
  BY <1>2, <1>3 DEF SideOf, Verdict

\* What lies between two steps of a walk is on a side it did not take.
LEMMA Between ==
    ASSUME TypeOK, PassedInv, Walking, NEW t \in Steps, IsNext(t), at = "walk",
           NEW s \in Steps, s > pos, s < t
    PROVE  \E f \in Forks, b \in BOOLEAN : <<f, b>> \in Within[s] /\ <<f, ~b>> \in chosen
<1>0. /\ pos \in Nat /\ Steps \subseteq Nat /\ Forks \subseteq Steps /\ \A r \in Steps : Within[r] \subseteq Side
      /\ pos < t
  BY KindsApart DEF TypeOK, IsNext, Ahead
<1> DEFINE Lost == {r \in Steps : r > pos /\ r < t /\
                       ~\E f \in Forks, b \in BOOLEAN : <<f, b>> \in Within[r] /\ <<f, ~b>> \in chosen}
<1> SUFFICES ASSUME s \in Lost PROVE FALSE
  OBVIOUS
<1>1. PICK r \in Lost : \A u \in Lost : r <= u
  <2>1. Lost \in SUBSET Steps /\ Lost # {}
    OBVIOUS
  <2> HIDE DEF Lost
  <2> QED
    BY <2>1, FirstOf
<1>2. ~(Within[r] \subseteq chosen)
  <2> SUFFICES ASSUME Within[r] \subseteq chosen PROVE FALSE
    OBVIOUS
  <2>1. r \in Ahead
    BY DEF Ahead
  <2>2. t <= r
    BY <2>1 DEF IsNext
  <2> QED
    BY <1>0, <1>1, <2>2
<1>3. PICK f \in Forks, b \in BOOLEAN : <<f, b>> \in Within[r] /\ <<f, b>> \notin chosen
  <2>1. PICK x \in Within[r] : x \notin chosen
    BY <1>2
  <2>2. x \in Side
    BY <1>0, <1>1, <2>1
  <2> QED
    BY <2>1, <2>2 DEF Side
<1>4. f < r /\ Within[f] \subseteq Within[r] /\ f \in Steps
  <2>1. <<f, b>>[1] = f
    OBVIOUS
  <2> QED
    BY <1>0, <1>1, <1>3, <2>1, StepAssumption
<1>5. CASE f <= pos
  <2>1. CASE Within[f] \subseteq chosen
    <3>1. PICK c \in BOOLEAN : <<f, c>> \in chosen
      BY <1>4, <1>5, <2>1 DEF PassedInv
    <3>2. c = ~b
      BY <1>3, <3>1
    <3> QED
      BY <1>1, <1>3, <3>1, <3>2
  <2>2. CASE ~(Within[f] \subseteq chosen)
    <3>1. PICK g \in Forks, c \in BOOLEAN : <<g, c>> \in Within[f] /\ <<g, ~c>> \in chosen
      BY <1>4, <1>5, <2>2 DEF PassedInv, Decided
    <3> QED
      BY <1>1, <1>4, <3>1
  <2> QED
    BY <2>1, <2>2
<1>6. CASE f > pos
  <2>1. f < t
    BY <1>0, <1>1, <1>4
  <2>2. f \notin Lost
    BY <1>0, <1>1, <1>4
  <2>3. PICK g \in Forks, c \in BOOLEAN : <<g, c>> \in Within[f] /\ <<g, ~c>> \in chosen
    BY <1>4, <1>6, <2>1, <2>2
  <2> QED
    BY <1>1, <1>4, <2>3
<1> QED
  BY <1>0, <1>4, <1>5, <1>6

\* A step that goes on record on its side turns no verdict.
LEMMA VerdictStays ==
    ASSUME TypeOK, SidesInv, VerdictInv, Walking, NEW s \in Steps, Within[s] \subseteq chosen, s \in Logged',
           \A t \in Steps \ {s} : log'[t] = log[t], s \in Logged => s \in Logged', UNCHANGED <<happened, data>>,
           NEW f \in Forks
    PROVE  Verdict(f)' = Verdict(f)
<1>1. Logged' = Logged \cup {s}
  BY DEF Logged
<1>2. Says(f)' = Says(f)
  BY DEF Says
<1>3. CASE \A b \in BOOLEAN : <<f, b>> \notin Within[s]
  <2>1. \A b \in BOOLEAN : OnRecordIn(f, b)' <=> OnRecordIn(f, b)
    BY <1>1, <1>3 DEF OnRecordIn
  <2> QED
    BY <1>2, <2>1 DEF Verdict
<1>4. ASSUME NEW b \in BOOLEAN, <<f, b>> \in Within[s] PROVE Verdict(f)' = Verdict(f)
  <2>1. <<f, b>> \in chosen /\ Verdict(f) = b /\ <<f, ~b>> \notin chosen
    BY <1>4 DEF VerdictInv, SidesInv
  <2>2. ~OnRecordIn(f, ~b) /\ <<f, ~b>> \notin Within[s]
    BY <2>1 DEF SidesInv, OnRecordIn
  <2>3. ~OnRecordIn(f, ~b)' /\ OnRecordIn(f, b)'
    BY <1>1, <1>4, <2>2 DEF OnRecordIn
  <2>4. CASE b = TRUE
    BY <2>1, <2>3, <2>4 DEF Verdict
  <2>5. CASE b = FALSE
    BY <2>1, <2>3, <2>5 DEF Verdict
  <2> QED
    BY <2>4, <2>5
<1> QED
  BY <1>3, <1>4

\* A step that leaves the logs and the walk alone.
LEMMA PathKeeps ==
    ASSUME TypeOK, PathInv, changes' = 0 => changes = 0, at' # "effect" => at # "effect",
           UNCHANGED <<log, happened, at, pos, chosen, done, answers, knows>>, changes' = 0 => UNCHANGED data
    PROVE  PathInv'
<1>1. Walking' = Walking /\ Logged' = Logged
  BY DEF Walking, Logged
<1>2. ASSUME UNCHANGED data, NEW f \in Forks PROVE Verdict(f)' = Verdict(f)
  BY <1>1, <1>2 DEF Verdict, OnRecordIn, Says
<1>3. ForksSilent' /\ SeesInv'
  BY <1>1 DEF PathInv, SeesInv, ForksSilent
<1>4. PassedInv'
  BY <1>1 DEF PathInv, PassedInv, Decided
<1>5. ASSUME changes' = 0 PROVE VerdictInv' /\ FrontInv'
  BY <1>1, <1>2, <1>5 DEF PathInv, VerdictInv, FrontInv, Off
<1> QED
  BY <1>3, <1>4, <1>5 DEF PathInv

\* A walk that ends without a word.
LEMMA PathEnds ==
    ASSUME TypeOK, PathInv, Return, UNCHANGED <<log, happened, data, changes>>
    PROVE  PathInv'
<1>1. ~Walking' /\ pos' = NoStep /\ Logged' = Logged
  BY ReturnIs DEF Walking, Logged
<1>2. \A f \in Forks : Verdict(f)' = Verdict(f)
  BY <1>1 DEF Verdict, OnRecordIn, Says
<1>3. changes = 0 => FrontInv'
  BY <1>1, <1>2 DEF PathInv, FrontInv, Off
<1> QED
  BY <1>1, <1>3 DEF PathInv, SeesInv, PassedInv, VerdictInv, ForksSilent

\* The walk goes on to the next step.
LEMMA PassedNext ==
    ASSUME TypeOK, SidesInv, PassedInv, at = "walk", NEW t \in Steps, IsNext(t), pos' = t, done \subseteq done',
           chosen' = chosen \/ (t \in Forks /\ \E b \in BOOLEAN : chosen' = chosen \cup {<<t, b>>}),
           t \in Forks => \E b \in BOOLEAN : <<t, b>> \in chosen',
           t \notin Forks => t \in done' \/ at' = "effect"
    PROVE  PassedInv'
<1>0. Walking /\ pos < t /\ pos \in Nat /\ Steps \subseteq Nat /\ Within[t] \subseteq chosen
      /\ Forks \subseteq Steps
  BY KindsApart DEF Walking, TypeOK, IsNext, Ahead
<1>1. \A s \in Steps : s <= t => (Within[s] \subseteq chosen' => Within[s] \subseteq chosen)
  <2> SUFFICES ASSUME NEW s \in Steps, s <= t, NEW x \in Within[s], x \in chosen' PROVE x \in chosen
    OBVIOUS
  <2>1. x[1] < s
    BY StepAssumption
  <2>2. x[1] \in Forks
    BY StepAssumption
  <2>3. x[1] # t
    BY <1>0, <2>1, <2>2
  <2>4. \A b \in BOOLEAN : <<t, b>>[1] = t
    OBVIOUS
  <2> QED
    BY <2>3, <2>4
<1>2. ASSUME NEW s \in Steps, s <= t
      PROVE  /\ Decided(s)'
             /\ Within[s] \subseteq chosen' =>
                   IF s \in Forks THEN \E b \in BOOLEAN : <<s, b>> \in chosen'
                   ELSE s \in done' \/ (at' = "effect" /\ s = pos')
  <2>0. chosen \subseteq chosen'
    OBVIOUS
  <2>1. CASE s <= pos
    <3>1. Decided(s)'
      BY <1>0, <2>0, <2>1 DEF PassedInv, Decided
    <3>2. ASSUME Within[s] \subseteq chosen'
          PROVE  IF s \in Forks THEN \E b \in BOOLEAN : <<s, b>> \in chosen' ELSE s \in done'
      <4>1. Within[s] \subseteq chosen
        BY <1>1, <1>2, <3>2
      <4> QED
        BY <1>0, <2>0, <2>1, <4>1 DEF PassedInv
    <3> QED
      BY <3>1, <3>2
  <2>2. CASE s > pos /\ s < t
    <3>1. PICK f \in Forks, b \in BOOLEAN : <<f, b>> \in Within[s] /\ <<f, ~b>> \in chosen
      BY <1>0, <2>2, Between
    <3>2. <<f, b>> \notin chosen
      BY <3>1 DEF SidesInv
    <3>3. Decided(s)'
      BY <2>0, <3>1 DEF Decided
    <3> QED
      BY <1>1, <1>2, <3>1, <3>2, <3>3
  <2>3. CASE s = t
    BY <1>0, <2>0, <2>3 DEF Decided
  <2> QED
    BY <1>0, <1>2, <2>1, <2>2, <2>3
<1> QED
  BY <1>2 DEF PassedInv

\* A step on its side goes on record when all before it is finished or off.
LEMMA FrontNext ==
    ASSUME TypeOK, MemoryInv, SidesInv, VerdictInv, FrontInv, Walking, NEW s \in Steps, Within[s] \subseteq chosen,
           s \in Logged', \A t \in Steps \ {s} : log'[t] = log[t], UNCHANGED <<happened, data>>,
           log[s] = "success" => log'[s] = "success",
           \A r \in Steps \ Forks : r < s /\ log[r] # "success" => Off(r)
    PROVE  FrontInv' /\ \A f \in Forks : Verdict(f)' = Verdict(f)
<1>1. \A f \in Forks : Verdict(f)' = Verdict(f)
  BY VerdictStays
<1>2. \A r \in Steps : Off(r) => Off(r)'
  BY <1>1 DEF Off
<1>3. ASSUME NEW t \in Logged', NEW r \in Steps \ Forks, r < t, log'[r] # "success" PROVE Off(r)'
  <2>1. CASE t = s
    <3>1. r # s
      BY <1>3, <2>1, KindsApart
    <3> QED
      BY <1>2, <1>3, <2>1, <3>1
  <2>2. CASE t # s /\ r # s
    <3>1. t \in Logged
      BY <2>2 DEF Logged
    <3> QED
      BY <1>2, <1>3, <2>2, <3>1 DEF FrontInv
  <2>3. CASE t # s /\ r = s
    <3>1. t \in Logged
      BY <2>3 DEF Logged
    <3>2. log[s] # "success" => Off(s)
      BY <1>3, <2>3, <3>1 DEF FrontInv
    <3>3. ~Off(s)
      BY DEF Off, VerdictInv
    <3>4. log[s] = "success" => Off(s)'
      BY <1>3, <2>3
    <3> QED
      BY <2>3, <3>2, <3>3, <3>4
  <2> QED
    BY <2>1, <2>2, <2>3
<1> QED
  BY <1>1, <1>3 DEF FrontInv

LEMMA PathNext ==
    ASSUME AnswersComeFirst, TypeOK, PlaceInv, TreeInv, PathInv, [Next]_vars
    PROVE  PathInv'
<1>0. /\ MemoryInv /\ SidesInv /\ ForksSilent /\ SeesInv /\ PassedInv /\ (changes = 0 => VerdictInv /\ FrontInv)
      /\ pos \in Nat /\ Steps \subseteq Nat /\ Forks \subseteq Steps /\ Parks \subseteq Steps /\ Parks \cap Forks = {}
      /\ Actions \cap Forks = {} /\ changes \in Nat /\ log \in [Steps -> {"none", "waiting", "success"}]
  BY KindsApart, WalkBoundAssumption DEF TreeInv, PathInv, TypeOK, Parks, Forks, Actions
\* What the walk passed at its next step s, seen from the database.
<1>w. ASSUME NEW s \in Steps, IsNext(s), at = "walk", changes = 0, NEW r \in Steps \ Forks, r < s, log[r] # "success"
      PROVE  Off(r)
  <2>1. done = {t \in Steps : log[t] = "success"} /\ Walking
    BY <1>0, <1>w DEF MemoryInv, Walking
  <2>2. \E f \in Forks, b \in BOOLEAN : <<f, b>> \in Within[r] /\ <<f, ~b>> \in chosen
    <3>1. CASE r <= pos
      BY <1>0, <1>w, <2>1, <3>1 DEF PassedInv, Decided
    <3>2. CASE r > pos
      BY <1>0, <1>w, <2>1, <3>2, Between
    <3> QED
      BY <1>0, <3>1, <3>2
  <2> QED
    BY <1>0, <1>w, <2>1, <2>2 DEF VerdictInv, Off
<1>1. CASE Take
  BY <1>0, <1>1 DEF Take, PathInv, ForksSilent, SeesInv, PassedInv, VerdictInv, FrontInv, Walking, Logged, Off, Verdict,
     OnRecordIn, Says, logVars, boundVars
<1>2. CASE Load
  <2>1. CASE Return
    BY <1>2, <2>1, PathEnds DEF Load, logVars
  <2>2. CASE at' = "walk" /\ answers' = happened /\ knows' = data /\ UNCHANGED <<pos, chosen>>
    <3>1. UNCHANGED <<log, happened, data, changes>> /\ pos' = 0 /\ chosen' = {} /\ Logged' = Logged
      BY <1>0, <1>2, <2>2 DEF Load, logVars, PlaceInv, SeesInv, NoStep, Logged
    <3>2. \A f \in Forks : Verdict(f)' = Verdict(f)
      BY <3>1 DEF Verdict, OnRecordIn, Says
    <3>3. changes = 0 => FrontInv'
      BY <1>0, <3>1, <3>2 DEF FrontInv, Off
    <3>4. PassedInv'
      <4>1. ASSUME NEW s \in Steps PROVE ~(s <= 0)
        <5>1. s \in Nat /\ s # 0
          BY StepAssumption
        <5> QED
          BY <5>1
      <4> QED
        BY <3>1, <4>1 DEF PassedInv
    <3> QED
      BY <1>0, <2>2, <3>1, <3>3, <3>4 DEF PathInv, ForksSilent, SeesInv, VerdictInv
  <2> QED
    BY <1>2, <2>1, <2>2 DEF Load
<1>3. ASSUME NEW s \in Steps, Fork(s) PROVE PathInv'
  <2>1. /\ at = "walk" /\ IsNext(s) /\ s \in Forks /\ pos' = s /\ chosen' = chosen \cup {<<s, SideOf(s)>>}
        /\ UNCHANGED <<log, happened, data, at, done, answers, knows, changes>>
    BY <1>3 DEF Fork, logVars, boundVars
  <2>2. SideOf(s) \in BOOLEAN
    BY <2>1, SideIsOne DEF TypeOK
  <2>3. PassedInv'
    BY <1>0, <2>1, <2>2, PassedNext
  <2>4. Logged' = Logged /\ Walking' = Walking /\ Walking
    BY <2>1 DEF Logged, Walking
  <2>5. \A f \in Forks : Verdict(f)' = Verdict(f)
    BY <2>1, <2>4 DEF Verdict, OnRecordIn, Says
  <2>6. changes = 0 => VerdictInv'
    <3> SUFFICES ASSUME changes = 0, NEW f \in Forks, NEW b \in BOOLEAN, <<f, b>> \in chosen' PROVE Verdict(f) = b
      BY <2>5 DEF VerdictInv
    <3>1. CASE <<f, b>> \in chosen
      BY <1>0, <2>4, <3>1 DEF VerdictInv
    <3>2. CASE <<f, b>> \notin chosen
      BY <1>0, <2>1, <3>2, SideIsVerdict
    <3> QED
      BY <3>1, <3>2
  <2>7. changes = 0 => FrontInv'
    BY <1>0, <2>1, <2>4, <2>5 DEF FrontInv, Off
  <2> QED
    BY <1>0, <2>1, <2>3, <2>4, <2>6, <2>7 DEF PathInv, ForksSilent, SeesInv
<1>4. ASSUME NEW s \in Steps, Skip(s) \/ Execute(s) PROVE PathInv'
  <2>1. /\ at = "walk" /\ IsNext(s) /\ pos' = s /\ (s \in done \/ (at' = "effect" /\ s \in Actions))
        /\ at' \in {"walk", "effect"}
        /\ UNCHANGED <<log, happened, data, done, chosen, answers, knows, changes>>
    BY <1>4 DEF Skip, Execute, logVars, boundVars
  <2>2. s \notin Forks
    BY <1>0, <2>1 DEF MemoryInv, Walking, ForksSilent
  <2>3. PassedInv'
    BY <1>0, <2>1, <2>2, PassedNext
  <2>4. Logged' = Logged /\ Walking' /\ Walking
    BY <2>1 DEF Logged, Walking
  <2>5. \A f \in Forks : Verdict(f)' = Verdict(f)
    BY <2>1, <2>4 DEF Verdict, OnRecordIn, Says
  <2>6. changes = 0 => VerdictInv' /\ FrontInv'
    BY <1>0, <2>1, <2>4, <2>5 DEF VerdictInv, FrontInv, Off
  <2> QED
    BY <1>0, <2>1, <2>3, <2>4, <2>6 DEF PathInv, ForksSilent, SeesInv
<1>5. CASE CommitSuccess
  <2>1. CASE Return /\ UNCHANGED log
    BY <1>5, <2>1, PathEnds DEF CommitSuccess
  <2>2. CASE log' = [log EXCEPT ![pos] = "success"] /\ done' = done \cup {pos} /\ at' = "walk"
             /\ UNCHANGED <<pos, chosen, knows, answers>>
    <3>1. /\ at = "effect" /\ Walking /\ Walking' /\ pos \in Actions /\ pos \in Steps /\ Within[pos] \subseteq chosen
          /\ UNCHANGED <<happened, data, changes>>
      BY <1>0, <1>5, <2>2, KindsApart DEF CommitSuccess, PlaceInv, SidesInv, Walking
    <3>2. PassedInv'
      BY <1>0, <2>2, <3>1 DEF PassedInv, Decided
    <3>3. ASSUME changes = 0 PROVE VerdictInv' /\ FrontInv'
      <4>1. ASSUME NEW r \in Steps \ Forks, r < pos, log[r] # "success" PROVE Off(r)
        <5>1. r \notin done
          BY <1>0, <3>1, <4>1 DEF MemoryInv
        <5>2. PICK f \in Forks, b \in BOOLEAN : <<f, b>> \in Within[r] /\ <<f, ~b>> \in chosen
          BY <1>0, <3>1, <4>1, <5>1 DEF PassedInv, Decided
        <5> QED
          BY <1>0, <3>1, <3>3, <5>2 DEF VerdictInv, Off
      <4>2. pos \in Logged' /\ log'[pos] = "success" /\ \A t \in Steps \ {pos} : log'[t] = log[t]
        BY <1>0, <2>2, <3>1 DEF Logged
      <4>3. FrontInv' /\ \A f \in Forks : Verdict(f)' = Verdict(f)
        BY <1>0, <3>1, <3>3, <4>1, <4>2, FrontNext
      <4> QED
        BY <1>0, <2>2, <3>1, <3>3, <4>3 DEF VerdictInv
    <3>4. ForksSilent' /\ SeesInv'
      BY <1>0, <2>2, <3>1 DEF ForksSilent, SeesInv
    <3> QED
      BY <3>1, <3>2, <3>3, <3>4 DEF PathInv
  <2> QED
    BY <1>5, <2>1, <2>2 DEF CommitSuccess
<1>6. ASSUME NEW s \in Steps, Park(s) PROVE PathInv'
  <2>1. CASE Return /\ UNCHANGED log
    BY <1>6, <2>1, PathEnds DEF Park
  <2>2. CASE log' = [log EXCEPT ![s] = "waiting"] /\ ((at' = "register" /\ pos' = s) \/ Return)
    <3>1. /\ at = "walk" /\ IsNext(s) /\ Within[s] \subseteq chosen /\ s \in Parks \ Started /\ Walking /\ ~Walking'
          /\ UNCHANGED <<happened, data, changes>> /\ (at' \in {"idle", "load"} => pos' = NoStep)
      BY <1>6, <2>2, ReturnIs DEF Park, IsNext, Ahead, Walking
    <3>2. /\ s \in Logged' /\ s \notin Logged /\ log[s] # "success" /\ s \notin Forks
          /\ \A t \in Steps \ {s} : log'[t] = log[t]
      BY <1>0, <2>2, <3>1 DEF Logged, MemoryInv
    <3>3. changes = 0 => FrontInv'
      BY <1>0, <1>w, <3>1, <3>2, FrontNext
    <3>4. ForksSilent' /\ SeesInv'
      BY <1>0, <3>1, <3>2 DEF ForksSilent, SeesInv
    <3> QED
      BY <3>1, <3>3, <3>4 DEF PathInv, PassedInv, VerdictInv
  <2> QED
    BY <1>6, <2>1, <2>2 DEF Park
<1>7. ASSUME NEW s \in Steps, FinishWait(s) PROVE PathInv'
  <2>1. CASE Return /\ UNCHANGED <<log, happened>>
    BY <1>7, <2>1, PathEnds DEF FinishWait
  <2>2. CASE /\ log' = [log EXCEPT ![s] = "success"] /\ done' = done \cup {s} /\ at' \in {"clear", "walk"} /\ pos' = s
             /\ happened' = happened \cup ({s} \cap sat) /\ answers' = answers \cup ({s} \cap sat)
             /\ UNCHANGED <<chosen, knows>>
    <3>1. /\ at = "walk" /\ IsNext(s) /\ Within[s] \subseteq chosen /\ s \in parked \ done /\ s \in Parks /\ s > pos
          /\ Walking /\ Walking' /\ UNCHANGED <<data, changes>>
      BY <1>7, <2>2 DEF FinishWait, IsNext, Ahead, Walking, TypeOK
    <3>2. s \in Logged /\ log[s] # "success" /\ Logged' = Logged /\ s \notin Forks
      BY <1>0, <2>2, <3>1 DEF MemoryInv, Started, Logged
    <3>3. PassedInv'
      BY <1>0, <2>2, <3>1, <3>2, PassedNext
    <3>4. ASSUME NEW f \in Forks, f < s \/ f <= pos PROVE Verdict(f)' = Verdict(f)
      <4>1. Reads[f] # s
        <5>1. Reads[f] < f /\ Reads[f] \in Waits \cup {NoStep}
          BY ForkAssumption DEF AnswersComeFirst
        <5>2. f \in Nat /\ s \in Nat
          BY <1>0
        <5>3. Reads[f] = s => s < f
          BY <5>1
        <5> QED
          BY <1>0, <3>1, <3>4, <5>2, <5>3
      <4>2. Says(f)' = Says(f)
        BY <2>2, <3>1, <4>1 DEF Says
      <4> QED
        BY <3>2, <4>2 DEF Verdict, OnRecordIn
    <3>5. ASSUME changes = 0 PROVE VerdictInv' /\ FrontInv'
      <4>1. VerdictInv'
        BY <1>0, <2>2, <3>1, <3>4, <3>5 DEF VerdictInv, SidesInv
      <4>2. \A t \in Logged : ~(s < t)
        <5>1. ~Off(s)
          BY <1>0, <3>1, <3>5 DEF VerdictInv, Off
        <5> QED
          BY <1>0, <3>2, <3>5, <5>1 DEF FrontInv
      <4>3. ASSUME NEW t \in Logged, NEW r \in Steps \ Forks, r < t, log'[r] # "success" PROVE Off(r)'
        <5>1. r # s /\ log[r] # "success"
          BY <1>0, <2>2, <4>3
        <5>2. PICK f \in Forks, b \in BOOLEAN : <<f, b>> \in Within[r] /\ Verdict(f) # b
          BY <1>0, <3>5, <4>3, <5>1 DEF FrontInv, Off
        <5>3. f < r
          <6>1. <<f, b>>[1] = f
            OBVIOUS
          <6> QED
            BY <5>2, <6>1, StepAssumption
        <5>4. f < s
          <6>1. f \in Nat /\ r \in Nat /\ t \in Nat /\ s \in Nat
            BY <1>0 DEF Logged
          <6> QED
            BY <4>2, <4>3, <5>3, <6>1
        <5>5. Verdict(f)' = Verdict(f)
          BY <3>4, <5>4
        <5> QED
          BY <5>2, <5>5 DEF Off
      <4> QED
        BY <3>2, <4>1, <4>3 DEF FrontInv
    <3>6. ForksSilent' /\ SeesInv'
      BY <1>0, <2>2, <3>1, <3>2 DEF ForksSilent, SeesInv
    <3> QED
      BY <3>1, <3>3, <3>5, <3>6 DEF PathInv
  <2>3. at' \in {"clear", "walk"} \/ Return
    BY <1>7 DEF FinishWait
  <2> QED
    BY <1>7, <2>1, <2>2, <2>3 DEF FinishWait
<1>8. CASE Clear
  <2>1. /\ UNCHANGED <<log, happened, data, pos, chosen, done, answers, knows, changes>> /\ Walking /\ Walking'
        /\ at = "clear" /\ at' = "walk" /\ Logged' = Logged
    BY <1>8 DEF Clear, logVars, Walking, Logged
  <2>2. \A f \in Forks : Verdict(f)' = Verdict(f)
    BY <2>1 DEF Verdict, OnRecordIn, Says
  <2>3. PassedInv'
    BY <1>0, <2>1 DEF PassedInv, Decided
  <2>4. changes = 0 => VerdictInv' /\ FrontInv'
    BY <1>0, <2>1, <2>2 DEF VerdictInv, FrontInv, Off
  <2> QED
    BY <1>0, <2>1, <2>3, <2>4 DEF PathInv, ForksSilent, SeesInv
<1>9. CASE CommitError \/ Complete \/ Register \/ Crash \/ \E s \in Steps : Repark(s)
  <2>1. UNCHANGED <<log, happened, data, changes>> /\ Return
    BY <1>9 DEF CommitError, Complete, Register, Crash, Repark, logVars
  <2> QED
    BY <2>1, PathEnds
<1>10. CASE \/ WakeDue \/ RetryRun \/ Tick \/ UNCHANGED vars \/ \E e \in Emissions : EventStep(e)
  <2>1. UNCHANGED <<log, happened, at, pos, chosen, done, answers, knows, data, changes>>
    BY <1>10 DEF WakeDue, RetryRun, Tick, EventStep, ClaimEventWaits, SatisfyWaitingRun, vars, logVars, workVars, boundVars
  <2> QED
    BY <2>1, PathKeeps
<1>11. ASSUME NEW f \in DataForks, Change(f) PROVE PathInv'
  <2>1. changes' = changes + 1 /\ UNCHANGED <<log, happened, at, pos, chosen, done, answers, knows>>
    BY <1>11 DEF Change, logVars, workVars
  <2> QED
    BY <1>0, <2>1, PathKeeps
<1> QED
  BY <1>1, <1>2, <1>3, <1>4, <1>5, <1>6, <1>7, <1>8, <1>9, <1>10, <1>11 DEF Next, WorkerStep

\* An action takes effect behind nothing while the records stay as they are: a retry,
\* a wait, an event or a crash never makes an attempt go back before what is on record
\* (executeStepsWithState, runConditionStep, runSplitStep). The hypothesis: a condition
\* asks only for the outcome of a wait before it, as the builder offers no other
\* (waitStepsBefore) and models.go promises it to "a following If/Else".
THEOREM AttemptsResume == ASSUME AnswersComeFirst PROVE Spec => ResumesWhereItStopped
<1>1. Init => PathInv
  BY DEF Init, PathInv, ForksSilent, SeesInv, PassedInv, VerdictInv, FrontInv, Walking, Logged, Forks
<1>2. IInv /\ PathInv /\ [Next]_vars => PathInv'
  BY PathNext DEF IInv
<1>3. IInv /\ PathInv /\ [Next]_vars =>
         [changes = 0 => \A s \in effects' \ effects : \A t \in Steps : log[t] # "none" => t < s]_vars
  <2> SUFFICES ASSUME IInv, PathInv, [Next]_vars, changes = 0, NEW s \in effects' \ effects,
                      NEW t \in Steps, log[t] # "none"
               PROVE  t < s
    OBVIOUS
  <2>1. s \in Steps /\ Execute(s)
    <3>1. effects' = effects \/ \E r \in Steps : Execute(r)
      BY DEF Next, WorkerStep, EventStep, Take, Load, CommitSuccess, CommitError, Complete, Register, Clear, Fork, Skip,
             Park, Repark, FinishWait, WakeDue, ClaimEventWaits, SatisfyWaitingRun, RetryRun, Change, Tick, Crash, vars
    <3> QED
      BY <3>1 DEF Execute
  <2>2. /\ at = "walk" /\ Walking /\ s \in Actions \ done /\ Within[s] \subseteq chosen /\ s \notin Forks
        /\ log \in [Steps -> {"none", "waiting", "success"}]
    BY <2>1 DEF Execute, IsNext, Ahead, Walking, Actions, Forks, IInv, TypeOK
  <2>3. log[s] = "none" /\ t \in Logged
    BY <2>1, <2>2, KindsApart DEF IInv, TreeInv, MemoryInv, Logged
  <2>4. ~Off(s)
    BY <2>2 DEF PathInv, VerdictInv, Off
  <2>5. ~(s < t)
    BY <2>1, <2>2, <2>3, <2>4 DEF PathInv, FrontInv
  <2> QED
    BY <2>1, <2>3, <2>5, KindsApart
<1> QED
  BY <1>1, <1>2, <1>3, InvAlways, PTL DEF Spec, ResumesWhereItStopped
=============================================================================
