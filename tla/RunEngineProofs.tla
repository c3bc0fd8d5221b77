-------------------------- MODULE RunEngineProofs --------------------------
(***************************************************************************)
(* Proofs about RunEngine, for every set of instances, workers and runs,    *)
(* every plan, capacity, retry budget and delay.                            *)
(***************************************************************************)
EXTENDS RunEngine, SequenceTheorems, TLAPS

-----------------------------------------------------------------------------
(* What the helpers return.                                                 *)

\* A database time stays one when a tick passes (Down1).
LEMMA Down1Type ==
    ASSUME NEW t \in Time
    PROVE  Down1(t) \in Time
<1>1. CASE t = None
  BY <1>1 DEF Down1
<1>2. CASE t \in Nat /\ t # None
  BY <1>2, SMT DEF Down1, Time
<1> QED
  BY <1>1, <1>2 DEF Time

\* A row stays a row when a tick passes (DownRow).
LEMMA DownRowType ==
    ASSUME NEW x \in Row
    PROVE  DownRow(x) \in Row
<1>1. x.next \in Time /\ x.wake \in Time
  BY DEF Row
<1>2. Down1(x.next) \in Time /\ Down1(x.wake) \in Time
  BY <1>1, Down1Type
<1> QED
  BY <1>2 DEF DownRow, Row

\* The updates the code makes to a row copy leave a row.
LEMMA RowUpdates ==
    ASSUME NEW x \in Row
    PROVE  /\ \A s \in Statuses : [x EXCEPT !.status = s] \in Row
           /\ [x EXCEPT !.retry = 0, !.next = None] \in Row
           /\ [x EXCEPT !.retry = 0, !.next = None, !.wake = None] \in Row
           /\ [x EXCEPT !.status = "pending", !.retry = 0, !.next = None] \in Row
           /\ [x EXCEPT !.status = "pending", !.next = Skew, !.wake = None] \in Row
           /\ \A t \in Time :
                [x EXCEPT !.status = "waiting", !.wake = t, !.next = None] \in Row
           /\ \A n \in 0..MaxRetries : \A t \in Time :
                [x EXCEPT !.status = "pending", !.retry = n, !.next = t] \in Row
<1>1. 0 \in 0..MaxRetries /\ None \in Time /\ Skew \in Time
  BY RetryAssumption, SkewAssumption DEF Time
<1>2. "pending" \in Statuses /\ "waiting" \in Statuses
  BY DEF Statuses
<1> QED
  BY <1>1, <1>2 DEF Row

\* A fresh row and empty deadlines have their types (CreateRun, newStepsExecState).
LEMMA FreshTypes ==
    /\ \A s \in Statuses : NewRow(s) \in Row
    /\ NoDeadlines \in [Steps -> Time]
  BY RetryAssumption DEF NewRow, Row, NoDeadlines, Time

\* A non-blocking push leaves a queue of runs (Offered).
LEMMA OfferedType ==
    ASSUME NEW i \in Instances, NEW r \in Runs, jobs \in [Instances -> Seq(Runs)]
    PROVE  Offered(i, r) \in Seq(Runs)
<1>1. jobs[i] \in Seq(Runs)
  OBVIOUS
<1>2. Append(jobs[i], r) \in Seq(Runs)
  BY <1>1, AppendProperties
<1> QED
  BY <1>1, <1>2 DEF Offered

-----------------------------------------------------------------------------
(* Type correctness.  A worker that is inside processRun has a run.         *)

CurOK == \A w \in Workers : Active(w) => cur[w] \in Runs

TypeInv == TypeOK /\ CurOK

\* The types hold at first.
LEMMA TypeInit == Init => TypeInv
<1> SUFFICES ASSUME Init PROVE TypeInv
  OBVIOUS
<1> USE FreshTypes DEF Init
<1>1. row \in [Runs -> Row] /\ mem \in [Workers -> Row]
  BY DEF Statuses
<1>2. parked \in [Runs -> [Steps -> Time]] /\ seenPark \in [Workers -> [Steps -> Time]]
  OBVIOUS
<1>3. jobs \in [Instances -> Seq(Runs)]
  BY EmptySeq
<1>4. execs \in [Runs -> [Steps -> Nat]]
  OBVIOUS
<1>5. CurOK
  BY DEF CurOK, Active
<1> QED
  BY <1>1, <1>2, <1>3, <1>4, <1>5 DEF TypeInv, TypeOK

\* Head1 pops a queue of runs, and leaves one.
LEMMA PopType ==
    ASSUME NEW w \in Workers, NEW r \in Runs, jobs \in [Instances -> Seq(Runs)], Head1(w, r)
    PROVE  jobs' \in [Instances -> Seq(Runs)]
<1>1. w[1] \in Instances
  BY DEF Workers
<1>2. jobs[w[1]] \in Seq(Runs) /\ jobs[w[1]] # << >>
  BY <1>1 DEF Head1
<1>3. Tail(jobs[w[1]]) \in Seq(Runs)
  BY <1>2, HeadTailProperties
<1> QED
  BY <1>1, <1>3 DEF Head1

\* Finish gives the worker's variables back their idle values.
LEMMA FinishType ==
    ASSUME TypeInv, NEW w \in Workers, Finish(w)
    PROVE  /\ pc' \in [Workers -> {"idle", "locked", "walk", "ok", "retryable", "fatal", "save"}]
           /\ cur' \in [Workers -> Runs \cup {None}]
           /\ mem' \in [Workers -> Row]
           /\ seen' \in [Workers -> SUBSET Steps]
           /\ seenPark' \in [Workers -> [Steps -> Time]]
           /\ CurOK'
<1>1. NewRow("absent") \in Row /\ NoDeadlines \in [Steps -> Time]
  BY FreshTypes DEF Statuses
<1>2. CurOK'
  BY DEF Finish, CurOK, Active, TypeInv, TypeOK
<1> QED
  BY <1>1, <1>2 DEF Finish, TypeInv, TypeOK

\* Save with a row leaves rows.
LEMMA SaveType ==
    ASSUME TypeInv, NEW r \in Runs \cup {None}, NEW x \in Row, Save(r, x)
    PROVE  row' \in [Runs -> Row]
  BY DEF Save, TypeInv, TypeOK

\* A step of a worker keeps the types.
LEMMA WorkerType ==
    ASSUME TypeInv, NEW w \in Workers, WorkerStep(w) \/ WorkerFault(w)
    PROVE  TypeInv'
<1> USE DEF TypeInv, dbVars, procVars, workVars, boundVars
<1>1. ASSUME NEW r \in Runs, Take(w, r) PROVE TypeInv'
  <2>1. jobs' \in [Instances -> Seq(Runs)]
    BY <1>1, PopType DEF Take, TypeOK
  <2>2. [row[r] EXCEPT !.status = "running"] \in Row
    BY RowUpdates DEF TypeOK, Statuses
  <2>3. row' \in [Runs -> Row] /\ mem' \in [Workers -> Row]
    BY <1>1, <2>2, SaveType DEF Take, TypeOK
  <2>4. CurOK'
    BY <1>1 DEF Take, TypeOK, CurOK, Active
  <2> QED
    BY <1>1, <2>1, <2>3, <2>4 DEF Take, TypeOK
<1>2. ASSUME NEW r \in Runs, Drop(w, r) PROVE TypeInv'
  <2>1. jobs' \in [Instances -> Seq(Runs)]
    BY <1>2, PopType DEF Drop, TypeOK
  <2> QED
    BY <1>2, <2>1 DEF Drop, TypeOK, CurOK, Active
<1>3. ASSUME Load(w) PROVE TypeInv'
  <2>1. cur[w] \in Runs
    BY <1>3 DEF Load, CurOK, Active
  <2>2. CurOK'
    BY <1>3 DEF Load, TypeOK, CurOK, Active
  <2> QED
    BY <1>3, <2>1, <2>2 DEF Load, TypeOK
<1>4. ASSUME NEW k \in Steps, Execute(w, k) PROVE TypeInv'
  <2>1. cur[w] \in Runs
    BY <1>4 DEF Execute, Reached, CurOK, Active
  <2>2. execs' \in [Runs -> [Steps -> Nat]]
    BY <1>4, <2>1 DEF Execute, TypeOK
  <2>3. CurOK'
    BY <1>4, <2>1 DEF Execute, TypeOK, CurOK, Active
  <2> QED
    BY <1>4, <2>2, <2>3 DEF Execute, TypeOK
<1>5. ASSUME NEW k \in Steps, CommitSuccess(w, k) PROVE TypeInv'
  <2>1. [mem[w] EXCEPT !.retry = 0, !.next = None] \in Row
    BY RowUpdates DEF TypeOK
  <2>2. mem' \in [Workers -> Row] /\ mem'[w] \in Row
    BY <1>5, <2>1 DEF CommitSuccess, TypeOK
  <2>3. row' \in [Runs -> Row]
    BY <1>5, <2>2 DEF CommitSuccess, Save, TypeOK
  <2>4. CurOK'
    BY <1>5 DEF CommitSuccess, TypeOK, CurOK, Active
  <2> QED
    BY <1>5, <2>2, <2>3, <2>4 DEF CommitSuccess, TypeOK
<1>6. ASSUME NEW k \in Steps, DueDelay(w, k) PROVE TypeInv'
  <2>1. CurOK'
    BY <1>6 DEF DueDelay, Reached, TypeOK, CurOK, Active
  <2>2. done' \in [Runs -> SUBSET Steps]
    <3>1. CASE done' = [done EXCEPT ![cur[w]] = @ \cup {k}]
      BY <3>1 DEF TypeOK
    <3>2. CASE done' = done
      BY <3>2 DEF TypeOK
    <3> QED
      BY <1>6, <3>1, <3>2 DEF DueDelay
  <2>4. seen' \in [Workers -> SUBSET Steps]
    BY <1>6 DEF DueDelay, TypeOK
  <2>3. faults' \in Nat
    BY <1>6 DEF DueDelay, Fault, TypeOK
  <2> QED
    BY <1>6, <2>1, <2>2, <2>3, <2>4 DEF DueDelay, TypeOK
<1>7. ASSUME NEW k \in Steps, Park(w, k) PROVE TypeInv'
  <2>1. [mem[w] EXCEPT !.status = "waiting", !.wake = DelayTicks, !.next = None] \in Row
    BY RowUpdates, DelayAssumption DEF TypeOK, Time
  <2>2. row' \in [Runs -> Row]
    BY <1>7, <2>1 DEF Park, Save, TypeOK
  <2>3. parked' \in [Runs -> [Steps -> Time]]
    BY <1>7, DelayAssumption DEF Park, TypeOK, Time
  <2> QED
    BY <1>7, <2>2, <2>3, FinishType DEF Park, TypeOK
<1>8. ASSUME NEW k \in Steps, Repark(w, k) PROVE TypeInv'
  <2>1. [mem[w] EXCEPT !.status = "waiting", !.wake = seenPark[w][k], !.next = None] \in Row
    <3>1. seenPark[w] \in [Steps -> Time] /\ mem[w] \in Row
      BY DEF TypeOK
    <3>2. seenPark[w][k] \in Time
      BY <3>1
    <3> QED
      BY <3>1, <3>2, RowUpdates
  <2>2. row' \in [Runs -> Row]
    BY <1>8, <2>1 DEF Repark, Save, TypeOK
  <2> QED
    BY <1>8, <2>2, FinishType DEF Repark, TypeOK
<1>9. ASSUME NEW k \in Steps, FinishDelay(w, k) PROVE TypeInv'
  <2>1. [mem[w] EXCEPT !.retry = 0, !.next = None, !.wake = None] \in Row
    BY RowUpdates DEF TypeOK
  <2>2. mem' \in [Workers -> Row] /\ mem'[w] \in Row
    BY <1>9, <2>1 DEF FinishDelay, TypeOK
  <2>3. row' \in [Runs -> Row]
    BY <1>9, <2>2 DEF FinishDelay, Save, TypeOK
  <2>4. parked' \in [Runs -> [Steps -> Time]]
    BY <1>9 DEF FinishDelay, TypeOK, Time
  <2> QED
    BY <1>9, <2>2, <2>3, <2>4 DEF FinishDelay, TypeOK, CurOK, Active
<1>10. ASSUME CommitRetry(w) PROVE TypeInv'
  <2>1. mem[w] \in Row /\ mem[w].retry + 1 \in 1..MaxRetries
    BY <1>10, RetryAssumption DEF CommitRetry, TypeOK, Row
  <2>2. Backoff[mem[w].retry + 1] \in Time
    BY <2>1, RetryAssumption DEF Time
  <2>3. [mem[w] EXCEPT !.status = "pending", !.retry = @ + 1,
                       !.next = Backoff[mem[w].retry + 1]] \in Row
    <3>1. mem[w].retry + 1 \in 0..MaxRetries
      BY <2>1, RetryAssumption
    <3> QED
      BY <2>1, <2>2, <3>1, RowUpdates
  <2>4. row' \in [Runs -> Row]
    BY <1>10, <2>3 DEF CommitRetry, Save, TypeOK
  <2> QED
    BY <1>10, <2>4, FinishType DEF CommitRetry, TypeOK
<1>11. ASSUME CommitFailure(w) PROVE TypeInv'
  <2>1. [mem[w] EXCEPT !.status = "failed"] \in Row
    BY RowUpdates DEF TypeOK, Statuses
  <2>2. row' \in [Runs -> Row]
    BY <1>11, <2>1 DEF CommitFailure, Save, TypeOK
  <2> QED
    BY <1>11, <2>2, FinishType DEF CommitFailure, TypeOK
<1>12. ASSUME SaveDue(w) PROVE TypeInv'
  <2>1. row' \in [Runs -> Row]
    BY <1>12 DEF SaveDue, Save, TypeOK
  <2>2. CurOK'
    BY <1>12 DEF SaveDue, TypeOK, CurOK, Active
  <2> QED
    BY <1>12, <2>1, <2>2 DEF SaveDue, Fault, TypeOK
<1>13. ASSUME Complete(w) PROVE TypeInv'
  <2>1. [mem[w] EXCEPT !.status = "completed"] \in Row
    BY RowUpdates DEF TypeOK, Statuses
  <2>2. row' \in [Runs -> Row]
    BY <1>13, <2>1 DEF Complete, Save, TypeOK
  <2> QED
    BY <1>13, <2>2, FinishType DEF Complete, TypeOK
<1>14. ASSUME NEW r \in Runs, LockFails(w, r) PROVE TypeInv'
  <2>1. jobs' \in [Instances -> Seq(Runs)]
    BY <1>14, PopType DEF LockFails, TypeOK
  <2> QED
    BY <1>14, <2>1 DEF LockFails, Fault, TypeOK, CurOK, Active
<1>15. ASSUME LoadFails(w) PROVE TypeInv'
  <2>1. [mem[w] EXCEPT !.status = "failed"] \in Row
    BY RowUpdates DEF TypeOK, Statuses
  <2>2. row' \in [Runs -> Row]
    BY <1>15, <2>1 DEF LoadFails, Save, TypeOK
  <2> QED
    BY <1>15, <2>2, FinishType DEF LoadFails, Fault, TypeOK
<1>16. ASSUME Lost(w) PROVE TypeInv'
  BY <1>16, FinishType DEF Lost, Fault, TypeOK
<1> QED
  BY <1>1, <1>2, <1>3, <1>4, <1>5, <1>6, <1>7, <1>8, <1>9, <1>10, <1>11, <1>12,
     <1>13, <1>14, <1>15, <1>16 DEF WorkerStep, WorkerFault

\* A step of a process keeps the types.
LEMMA ProcessType ==
    ASSUME TypeInv, NEW i \in Instances,
           \/ \E r \in Runs : Create(i, r) \/ RetryRun(i, r)
           \/ SchedulerStep(i)
           \/ StartupStep(i)
           \/ Crash(i)
    PROVE  TypeInv'
<1> USE DEF TypeInv, dbVars, procVars, workVars, boundVars
<1>1. ASSUME NEW r \in Runs, Create(i, r) PROVE TypeInv'
  <2>1. jobs' \in [Instances -> Seq(Runs)]
    BY <1>1, OfferedType DEF Create, Offer, TypeOK
  <2>2. row' \in [Runs -> Row]
    BY <1>1, FreshTypes DEF Create, Save, TypeOK, Statuses
  <2> QED
    BY <1>1, <2>1, <2>2, GraceAssumption DEF Create, TypeOK, CurOK, Active
<1>2. ASSUME NEW r \in Runs, RetryRun(i, r) PROVE TypeInv'
  <2>1. jobs' \in [Instances -> Seq(Runs)]
    BY <1>2, OfferedType DEF RetryRun, Offer, TypeOK
  <2>2. [row[r] EXCEPT !.status = "pending", !.retry = 0, !.next = None] \in Row
    BY RowUpdates DEF TypeOK
  <2>3. row' \in [Runs -> Row]
    BY <1>2, <2>2 DEF RetryRun, Save, TypeOK
  <2>4. manual' \in [Runs -> Nat]
    <3>1. manual[r] + 1 \in Nat
      BY DEF TypeOK
    <3> QED
      BY <1>2, <3>1 DEF RetryRun, TypeOK
  <2>5. CurOK'
    BY <1>2 DEF RetryRun, CurOK, Active
  <2> QED
    BY <1>2, <2>1, <2>3, <2>4, <2>5 DEF RetryRun, TypeOK
<1>3. ASSUME Wake(i) PROVE TypeInv'
  <2>1. \A r \in Runs : [row[r] EXCEPT !.status = "pending", !.next = Skew, !.wake = None] \in Row
    BY RowUpdates DEF TypeOK
  <2>2. row' \in [Runs -> Row]
    BY <1>3, <2>1 DEF Wake, TypeOK
  <2>3. DueToWake \in SUBSET Runs
    BY DEF DueToWake
  <2> QED
    BY <1>3, <2>2, <2>3 DEF Wake, TypeOK, CurOK, Active
<1>4. ASSUME SweepRetries(i) PROVE TypeInv'
  <2>1. Sweepable \in SUBSET Runs
    BY DEF Sweepable
  <2> QED
    BY <1>4, <2>1 DEF SweepRetries, TypeOK, CurOK, Active
<1>5. ASSUME SweepPush(i) PROVE TypeInv'
  <2>1. jobs' \in [Instances -> Seq(Runs)]
    <3>1. ASSUME NEW r \in batch[i], Offer(i, r)
          PROVE  jobs' \in [Instances -> Seq(Runs)]
      <4>1. r \in Runs
        BY DEF TypeOK
      <4>2. Offered(i, r) \in Seq(Runs)
        BY <4>1, OfferedType DEF TypeOK
      <4> QED
        BY <3>1, <4>2 DEF Offer, TypeOK
    <3> QED
      BY <1>5, <3>1 DEF SweepPush, TypeOK
  <2>2. batch' \in [Instances -> SUBSET Runs]
    <3>1. ASSUME NEW r \in batch[i], batch' = [batch EXCEPT ![i] = @ \ {r}]
          PROVE  batch' \in [Instances -> SUBSET Runs]
      BY <3>1 DEF TypeOK
    <3>2. CASE batch' = batch
      BY <3>2 DEF TypeOK
    <3> QED
      BY <1>5, <3>1, <3>2 DEF SweepPush
  <2>3. sweep' \in [Instances -> {"idle", "woken", "push"}]
    BY <1>5 DEF SweepPush, TypeOK
  <2>4. CurOK'
    BY <1>5 DEF SweepPush, CurOK, Active
  <2> QED
    BY <1>5, <2>1, <2>2, <2>3, <2>4 DEF SweepPush, TypeOK
<1>6. ASSUME Start(i) PROVE TypeInv'
  <2>1. todo' \in [Instances -> [Runs -> Row \cup {None}]]
    BY <1>6 DEF Start, TypeOK
  <2> QED
    BY <1>6, <2>1 DEF Start, TypeOK, CurOK, Active
<1>7. ASSUME NEW r \in Runs, ResetOne(i, r) PROVE TypeInv'
  <2>1. todo[i][r] \in Row
    BY <1>7 DEF ResetOne, TypeOK
  <2>2. [todo[i][r] EXCEPT !.status = "pending"] \in Row
    BY <2>1 DEF Row, Statuses
  <2>3. row' \in [Runs -> Row]
    BY <1>7, <2>2 DEF ResetOne, Save, TypeOK
  <2>4. todo' \in [Instances -> [Runs -> Row \cup {None}]]
    BY <1>7 DEF ResetOne, TypeOK
  <2> QED
    BY <1>7, <2>3, <2>4 DEF ResetOne, Fault, TypeOK, CurOK, Active
<1>8. ASSUME LoadPending(i) PROVE TypeInv'
  BY <1>8 DEF LoadPending, TypeOK, CurOK, Active
<1>9. ASSUME RequeuePush(i) PROVE TypeInv'
  <2>1. PICK r \in batch[i] : /\ jobs' = [jobs EXCEPT ![i] = Append(@, r)]
                              /\ batch' = [batch EXCEPT ![i] = @ \ {r}]
    BY <1>9 DEF RequeuePush
  <2>2. jobs[i] \in Seq(Runs) /\ r \in Runs
    BY DEF TypeOK
  <2>3. Append(jobs[i], r) \in Seq(Runs)
    BY <2>2, AppendProperties
  <2> QED
    BY <1>9, <2>1, <2>3 DEF RequeuePush, TypeOK, CurOK, Active
<1>10. ASSUME StartWorkers(i) PROVE TypeInv'
  BY <1>10 DEF StartWorkers, TypeOK, CurOK, Active
<1>11. ASSUME Crash(i) PROVE TypeInv'
  <2>1. NewRow("absent") \in Row /\ NoDeadlines \in [Steps -> Time]
    BY FreshTypes DEF Statuses
  <2>2. jobs' \in [Instances -> Seq(Runs)]
    BY <1>11, EmptySeq DEF Crash, TypeOK
  <2>3. mem' \in [Workers -> Row] /\ seenPark' \in [Workers -> [Steps -> Time]]
    BY <1>11, <2>1 DEF Crash, TypeOK
  <2>4. CurOK'
    BY <1>11 DEF Crash, TypeOK, CurOK, Active
  <2> QED
    BY <1>11, <2>2, <2>3, <2>4 DEF Crash, TypeOK
<1> QED
  BY <1>1, <1>2, <1>3, <1>4, <1>5, <1>6, <1>7, <1>8, <1>9, <1>10, <1>11
  DEF SchedulerStep, StartupStep

\* A tick of the clock keeps the types.
LEMMA TickType ==
    ASSUME TypeInv, Tick
    PROVE  TypeInv'
<1> USE DEF TypeInv, Tick, boundVars
<1>1. row' \in [Runs -> Row] /\ mem' \in [Workers -> Row]
  BY DownRowType DEF TypeOK
<1>2. parked' \in [Runs -> [Steps -> Time]] /\ seenPark' \in [Workers -> [Steps -> Time]]
  BY Down1Type DEF TypeOK
<1>3. todo' \in [Instances -> [Runs -> Row \cup {None}]]
  <2>1. \A i \in Instances, r \in Runs :
          (IF todo[i][r] = None THEN None ELSE DownRow(todo[i][r])) \in Row \cup {None}
    BY DownRowType DEF TypeOK
  <2> QED
    BY <2>1 DEF TypeOK
<1>4. age' \in [Runs -> Nat]
  <2>1. \A r \in Runs : Down1(age[r]) \in Nat
    BY NoneAssumption, SMT DEF TypeOK, Down1
  <2> QED
    BY <2>1 DEF TypeOK
<1> QED
  BY <1>1, <1>2, <1>3, <1>4 DEF TypeOK, CurOK, Active

\* Every step keeps the types.
LEMMA TypeStep == TypeInv /\ [Next]_vars => TypeInv'
<1> SUFFICES ASSUME TypeInv, [Next]_vars PROVE TypeInv'
  OBVIOUS
<1>1. CASE UNCHANGED vars
  BY <1>1 DEF vars, dbVars, procVars, workVars, boundVars, TypeInv, TypeOK, CurOK, Active
<1>2. CASE Next
  BY <1>2, WorkerType, ProcessType, TickType DEF Next
<1> QED
  BY <1>1, <1>2

\* Every variable keeps its type in every behavior, for every value of the
\* constants (RunEngine's TypeOK).
THEOREM TypeCorrect == Spec => []TypeOK
<1>1. Spec => []TypeInv
  BY TypeInit, TypeStep, PTL DEF Spec
<1>2. TypeInv => TypeOK
  BY DEF TypeInv
<1> QED
  BY <1>1, <1>2, PTL

-----------------------------------------------------------------------------
(* Order and completion hold whatever the number of workers and processes:  *)
(* a worker only skips what is on record, because it read the record after  *)
(* its lock and nothing ever leaves the record.                             *)

\* What a worker takes for completed is on record, due delays apart.
SeenSound ==
    \A w \in Workers :
        /\ pc[w] \in {"idle", "locked"} => seen[w] = {}
        /\ Active(w) => seen[w] \cap Durable \subseteq done[cur[w]]

\* A worker about to commit a success has executed that very action.
ExecutedSound ==
    \A w \in Workers : \A k \in Steps :
        pc[w] = "ok" /\ Executed(w, k) => Plan[k] = "action" /\ execs[cur[w]][k] > 0

\* The row copy a worker writes back says running until the worker decides.
MemRunning == \A w \in Workers : Active(w) => mem[w].status = "running"

\* A success log of an action means that the action happened.
DoneHappened ==
    \A r \in Runs : \A k \in Steps :
        k \in done[r] /\ Plan[k] = "action" => execs[r][k] > 0

\* What a completed run owes.
AllDone(r) ==
    /\ Durable \subseteq done[r]
    /\ \A k \in Steps : Plan[k] = "action" => execs[r][k] > 0

OrderInv ==
    /\ SeenSound
    /\ ExecutedSound
    /\ MemRunning
    /\ DoneHappened
    /\ InOrder
    /\ CompletedMeansAllDone

\* A step that touches neither the record nor a worker, and completes no run
\* that owes anything, keeps the invariant.
LEMMA FrameOrder ==
    ASSUME OrderInv,
           UNCHANGED <<done, execs, pc, cur, seen>>,
           \A w \in Workers : mem'[w].status = mem[w].status,
           \A r \in Runs : row'[r].status = "completed" => row[r].status = "completed"
    PROVE  OrderInv'
<1>1. SeenSound'
  BY DEF OrderInv, SeenSound, Active
<1>2. ExecutedSound'
  BY DEF OrderInv, ExecutedSound, Executed
<1>3. MemRunning'
  BY DEF OrderInv, MemRunning, Active
<1>4. DoneHappened'
  BY DEF OrderInv, DoneHappened
<1>5. InOrder'
  BY DEF OrderInv, InOrder
<1>6. CompletedMeansAllDone'
  BY DEF OrderInv, CompletedMeansAllDone
<1> QED
  BY <1>1, <1>2, <1>3, <1>4, <1>5, <1>6 DEF OrderInv

\* Nor does a worker that returns and leaves the record alone.
LEMMA FinishOrder ==
    ASSUME TypeInv, OrderInv, NEW w \in Workers, Finish(w),
           UNCHANGED <<done, execs>>,
           \A r \in Runs : row'[r].status = "completed" =>
                             row[r].status = "completed" \/ AllDone(r)
    PROVE  OrderInv'
<1> USE DEF Finish
<1>1. SeenSound'
  BY DEF OrderInv, SeenSound, Active, TypeInv, TypeOK
<1>2. ExecutedSound'
  BY DEF OrderInv, ExecutedSound, Executed, TypeInv, TypeOK
<1>3. MemRunning'
  BY DEF OrderInv, MemRunning, Active, TypeInv, TypeOK
<1>4. DoneHappened'
  BY DEF OrderInv, DoneHappened
<1>5. InOrder'
  BY DEF OrderInv, InOrder
<1>6. CompletedMeansAllDone'
  BY DEF OrderInv, CompletedMeansAllDone, AllDone
<1> QED
  BY <1>1, <1>2, <1>3, <1>4, <1>5, <1>6 DEF OrderInv

\* Saving a row whose status is not completed completes no run.
LEMMA SaveNotCompleted ==
    ASSUME TypeInv, NEW r \in Runs, NEW x \in Row, x.status # "completed", Save(r, x)
    PROVE  \A q \in Runs : row'[q].status = "completed" => row[q].status = "completed"
  BY DEF Save, TypeInv, TypeOK

\* The first step a worker has not seen is unique.
LEMMA FirstUnseen ==
    ASSUME NEW w \in Workers, NEW k \in Steps, NEW l \in Steps, Executed(w, k), Executed(w, l)
    PROVE  k = l
<1>1. k \in Nat /\ l \in Nat /\ k > 0 /\ l > 0
  BY PlanAssumption DEF Steps
<1>2. CASE k < l
  BY <1>1, <1>2 DEF Executed
<1>3. CASE l < k
  BY <1>1, <1>3 DEF Executed
<1> QED
  BY <1>1, <1>2, <1>3

\* A worker that puts the step it stands on on record, or passes a due delay
\* whose log was lost.
LEMMA RecordOrder ==
    ASSUME TypeInv, OrderInv, NEW w \in Workers, NEW k \in Steps,
           Active(w), pc[w] # "locked",
           \/ done' = [done EXCEPT ![cur[w]] = @ \cup {k}]
           \/ done' = done /\ Plan[k] = "due",
           Plan[k] = "action" => execs[cur[w]][k] > 0,
           seen' = [seen EXCEPT ![w] = @ \cup {k}],
           pc'[w] \in {"walk", "save"},
           \A v \in Workers \ {w} : pc'[v] = pc[v],
           \A v \in Workers : mem'[v].status = mem[v].status,
           UNCHANGED <<execs, cur>>,
           \A q \in Runs : row'[q].status = "completed" => row[q].status = "completed"
    PROVE  OrderInv'
<1>1. cur[w] \in Runs
  BY DEF TypeInv, CurOK
<1>d. DOMAIN done = Runs
  BY DEF TypeInv, TypeOK
<1>2. \A r \in Runs : done[r] \subseteq done'[r]
  <2>1. CASE done' = done
    BY <2>1
  <2>2. CASE done' = [done EXCEPT ![cur[w]] = @ \cup {k}]
    BY <1>1, <1>d, <2>2
  <2> QED
    BY <2>1, <2>2
<1>3. k \in Durable => k \in done'[cur[w]]
  BY <1>1, <1>d DEF Durable
<1>4. SeenSound'
  <2> SUFFICES ASSUME NEW v \in Workers
               PROVE  /\ pc'[v] \in {"idle", "locked"} => seen'[v] = {}
                      /\ Active(v)' => seen'[v] \cap Durable \subseteq done'[cur'[v]]
    BY DEF SeenSound
  <2>1. CASE v = w
    <3>1. seen'[w] = seen[w] \cup {k}
      BY DEF TypeInv, TypeOK
    <3>2. seen[w] \cap Durable \subseteq done[cur[w]]
      BY DEF OrderInv, SeenSound
    <3> QED
      BY <2>1, <3>1, <3>2, <1>1, <1>2, <1>3
  <2>2. CASE v # w
    <3>1. seen'[v] = seen[v] /\ pc'[v] = pc[v]
      BY <2>2 DEF TypeInv, TypeOK
    <3>2. Active(v) => cur[v] \in Runs
      BY DEF TypeInv, CurOK
    <3> QED
      BY <3>1, <3>2, <1>2 DEF OrderInv, SeenSound, Active
  <2> QED
    BY <2>1, <2>2
<1>5. ExecutedSound'
  <2> SUFFICES ASSUME NEW v \in Workers, NEW l \in Steps, pc'[v] = "ok", Executed(v, l)'
               PROVE  Plan[l] = "action" /\ execs'[cur'[v]][l] > 0
    BY DEF ExecutedSound
  <2>1. v # w /\ pc[v] = "ok" /\ seen'[v] = seen[v]
    BY DEF TypeInv, TypeOK
  <2>2. Executed(v, l)
    BY <2>1 DEF Executed
  <2> QED
    BY <2>1, <2>2 DEF OrderInv, ExecutedSound
<1>6. MemRunning'
  BY DEF OrderInv, MemRunning, Active
<1>7. DoneHappened'
  <2> SUFFICES ASSUME NEW r \in Runs, NEW l \in Steps, l \in done'[r], Plan[l] = "action"
               PROVE  execs[r][l] > 0
    BY DEF DoneHappened
  <2>1. CASE l \in done[r]
    BY <2>1 DEF OrderInv, DoneHappened
  <2>2. CASE l \notin done[r]
    <3>1. l = k /\ r = cur[w]
      BY <2>2, <1>1 DEF TypeInv, TypeOK
    <3> QED
      BY <3>1
  <2> QED
    BY <2>1, <2>2
<1>8. InOrder'
  BY <1>2 DEF OrderInv, InOrder
<1>9. CompletedMeansAllDone'
  BY <1>2 DEF OrderInv, CompletedMeansAllDone
<1> QED
  BY <1>4, <1>5, <1>6, <1>7, <1>8, <1>9 DEF OrderInv

\* A step of a worker keeps the order of the steps (OrderInv).
LEMMA WorkerOrder ==
    ASSUME TypeInv, OrderInv, NEW w \in Workers, WorkerStep(w) \/ WorkerFault(w)
    PROVE  OrderInv'
<1> USE DEF dbVars, procVars, workVars, boundVars
<1>0. mem[w] \in Row
  BY DEF TypeInv, TypeOK
<1>1. ASSUME NEW r \in Runs, Take(w, r) PROVE OrderInv'
  <2>1. \A q \in Runs : row'[q].status = "completed" => row[q].status = "completed"
    <3>1. [row[r] EXCEPT !.status = "running"] \in Row
      BY RowUpdates DEF TypeInv, TypeOK, Statuses
    <3>2. [row[r] EXCEPT !.status = "running"].status = "running"
      BY DEF TypeInv, TypeOK, Row
    <3> QED
      BY <1>1, <3>1, <3>2, SaveNotCompleted DEF Take
  <2>t. /\ pc'[w] = "locked" /\ seen[w] = {} /\ mem'[w] = [row[r] EXCEPT !.status = "running"]
        /\ UNCHANGED <<done, seen, execs>>
        /\ \A v \in Workers \ {w} : pc'[v] = pc[v] /\ cur'[v] = cur[v] /\ mem'[v] = mem[v]
    <3>1. pc[w] = "idle"
      BY <1>1 DEF Take, Head1
    <3>2. DOMAIN pc = Workers /\ DOMAIN cur = Workers /\ DOMAIN mem = Workers
      BY DEF TypeInv, TypeOK
    <3> QED
      BY <1>1, <3>1, <3>2 DEF Take, OrderInv, SeenSound
  <2>2. SeenSound'
    BY <2>t DEF OrderInv, SeenSound, Active
  <2>3. ExecutedSound'
    BY <2>t DEF OrderInv, ExecutedSound, Executed
  <2>4. MemRunning'
    <3>1. mem'[w].status = "running"
      BY <2>t DEF TypeInv, TypeOK, Row
    <3> QED
      BY <2>t, <3>1 DEF OrderInv, MemRunning, Active
  <2>5. DoneHappened' /\ InOrder' /\ CompletedMeansAllDone'
    BY <1>1, <2>1 DEF Take, OrderInv, DoneHappened, InOrder, CompletedMeansAllDone
  <2> QED
    BY <2>2, <2>3, <2>4, <2>5 DEF OrderInv
<1>2. ASSUME NEW r \in Runs, Drop(w, r) PROVE OrderInv'
  BY <1>2, FrameOrder DEF Drop
<1>3. ASSUME Load(w) PROVE OrderInv'
  <2>1. SeenSound'
    BY <1>3 DEF Load, OrderInv, SeenSound, Active, TypeInv, TypeOK
  <2>2. ExecutedSound'
    BY <1>3 DEF Load, OrderInv, ExecutedSound, Executed, TypeInv, TypeOK
  <2>3. MemRunning'
    BY <1>3 DEF Load, OrderInv, MemRunning, Active, TypeInv, TypeOK
  <2>4. DoneHappened' /\ InOrder' /\ CompletedMeansAllDone'
    BY <1>3 DEF Load, OrderInv, DoneHappened, InOrder, CompletedMeansAllDone
  <2> QED
    BY <2>1, <2>2, <2>3, <2>4 DEF OrderInv
<1>4. ASSUME NEW k \in Steps, Execute(w, k) PROVE OrderInv'
  <2>1. cur[w] \in Runs
    BY <1>4 DEF Execute, Reached, TypeInv, CurOK, Active
  <2>2. \A r \in Runs : \A l \in Steps :
           /\ execs[r][l] \in Nat
           /\ execs'[r][l] = IF r = cur[w] /\ l = k THEN execs[r][l] + 1 ELSE execs[r][l]
    BY <1>4, <2>1 DEF Execute, TypeInv, TypeOK
  <2>3. \A r \in Runs : \A l \in Steps : execs[r][l] > 0 => execs'[r][l] > 0
    BY <2>2
  <2>4. execs'[cur[w]][k] > 0
    BY <2>1, <2>2
  <2>5. Executed(w, k) /\ seen[w] \cap Durable \subseteq done[cur[w]]
    BY <1>4 DEF Execute, Reached, Executed, OrderInv, SeenSound, Active
  <2>6. SeenSound'
    BY <1>4 DEF Execute, Reached, OrderInv, SeenSound, Active, TypeInv, TypeOK
  <2>7. ExecutedSound'
    <3> SUFFICES ASSUME NEW v \in Workers, NEW l \in Steps, pc'[v] = "ok", Executed(v, l)'
                 PROVE  Plan[l] = "action" /\ execs'[cur'[v]][l] > 0
      BY DEF ExecutedSound
    <3>1. cur' = cur /\ Executed(v, l)
      BY <1>4 DEF Execute, Executed
    <3>2. CASE v = w
      <4>1. l = k
        BY <3>1, <3>2, <2>5, FirstUnseen
      <4> QED
        BY <4>1, <3>1, <3>2, <2>4, <1>4 DEF Execute
    <3>3. CASE v # w
      <4>1. pc[v] = "ok"
        BY <1>4, <3>3 DEF Execute, TypeInv, TypeOK
      <4>2. cur[v] \in Runs
        BY <4>1 DEF TypeInv, CurOK, Active
      <4>3. Plan[l] = "action" /\ execs[cur[v]][l] > 0
        BY <4>1, <3>1 DEF OrderInv, ExecutedSound
      <4> QED
        BY <4>2, <4>3, <3>1, <2>3
    <3> QED
      BY <3>2, <3>3
  <2>8. MemRunning'
    BY <1>4 DEF Execute, Reached, OrderInv, MemRunning, Active, TypeInv, TypeOK
  <2>9. DoneHappened'
    BY <1>4, <2>3 DEF Execute, OrderInv, DoneHappened
  <2>10. InOrder'
    <3> SUFFICES ASSUME NEW r \in Runs, NEW l \in Steps, execs'[r][l] > 0,
                        NEW j \in Durable, j < l
                 PROVE  j \in done[r]
      BY <1>4 DEF Execute, InOrder
    <3>1. CASE r = cur[w] /\ l = k
      <4>1. j \in 1..(k - 1)
        BY <3>1, PlanAssumption DEF Durable, Steps
      <4> QED
        BY <4>1, <3>1, <2>5 DEF Executed
    <3>2. CASE ~(r = cur[w] /\ l = k)
      BY <3>2, <2>2 DEF OrderInv, InOrder
    <3> QED
      BY <3>1, <3>2
  <2>11. CompletedMeansAllDone'
    BY <1>4, <2>3 DEF Execute, OrderInv, CompletedMeansAllDone
  <2> QED
    BY <2>6, <2>7, <2>8, <2>9, <2>10, <2>11 DEF OrderInv
<1>5. ASSUME NEW k \in Steps, CommitSuccess(w, k) PROVE OrderInv'
  <2>1. Active(w) /\ pc[w] # "locked" /\ cur[w] \in Runs
    BY <1>5 DEF CommitSuccess, Active, TypeInv, CurOK
  <2>2. Plan[k] = "action" /\ execs[cur[w]][k] > 0
    BY <1>5 DEF CommitSuccess, OrderInv, ExecutedSound
  <2>3. mem'[w] \in Row /\ mem'[w].status = mem[w].status
    <3>1. mem'[w] = [mem[w] EXCEPT !.retry = 0, !.next = None]
      BY <1>5 DEF CommitSuccess, TypeInv, TypeOK
    <3>2. mem'[w] \in Row
      BY <1>0, <3>1, RowUpdates
    <3> QED
      BY <1>0, <3>1, <3>2 DEF Row
  <2>4. \A v \in Workers : mem'[v].status = mem[v].status
    BY <1>5, <2>3 DEF CommitSuccess, TypeInv, TypeOK
  <2>5. mem'[w].status # "completed"
    BY <2>1, <2>3 DEF OrderInv, MemRunning
  <2>6. \A q \in Runs : row'[q].status = "completed" => row[q].status = "completed"
    BY <1>5, <2>1, <2>3, <2>5 DEF CommitSuccess, Save, TypeInv, TypeOK
  <2>7. pc'[w] = "walk" /\ \A v \in Workers \ {w} : pc'[v] = pc[v]
    BY <1>5 DEF CommitSuccess, TypeInv, TypeOK
  <2> QED
    BY <1>5, <2>1, <2>2, <2>4, <2>6, <2>7, RecordOrder DEF CommitSuccess
<1>6. ASSUME NEW k \in Steps, DueDelay(w, k) PROVE OrderInv'
  <2>1. Active(w) /\ pc[w] # "locked"
    BY <1>6 DEF DueDelay, Reached, Active
  <2>2. pc'[w] = "save" /\ \A v \in Workers \ {w} : pc'[v] = pc[v]
    BY <1>6 DEF DueDelay, TypeInv, TypeOK
  <2>3. \/ done' = [done EXCEPT ![cur[w]] = @ \cup {k}]
        \/ done' = done /\ Plan[k] = "due"
    BY <1>6 DEF DueDelay
  <2>4. Plan[k] # "action"
    BY <1>6 DEF DueDelay
  <2> QED
    BY <1>6, <2>1, <2>2, <2>3, <2>4, RecordOrder DEF DueDelay
<1>7. ASSUME NEW k \in Steps, FinishDelay(w, k) PROVE OrderInv'
  <2>1. Active(w) /\ pc[w] # "locked" /\ cur[w] \in Runs
    BY <1>7 DEF FinishDelay, Reached, Active, TypeInv, CurOK
  <2>2. Plan[k] # "action"
    BY <1>7 DEF FinishDelay
  <2>3. mem'[w] \in Row /\ mem'[w].status = mem[w].status
    <3>1. mem'[w] = [mem[w] EXCEPT !.retry = 0, !.next = None, !.wake = None]
      BY <1>7 DEF FinishDelay, TypeInv, TypeOK
    <3>2. mem'[w] \in Row
      BY <3>1, <1>0, RowUpdates
    <3> QED
      BY <3>1, <3>2, <1>0 DEF Row
  <2>4. \A v \in Workers : mem'[v].status = mem[v].status
    BY <1>7, <2>3 DEF FinishDelay, TypeInv, TypeOK
  <2>5. mem'[w].status # "completed"
    BY <2>1, <2>3 DEF OrderInv, MemRunning
  <2>6. \A q \in Runs : row'[q].status = "completed" => row[q].status = "completed"
    BY <1>7, <2>1, <2>3, <2>5 DEF FinishDelay, Save, TypeInv, TypeOK
  <2>7. pc'[w] = "walk" /\ \A v \in Workers \ {w} : pc'[v] = pc[v]
    BY <1>7 DEF FinishDelay, Reached, TypeInv, TypeOK
  <2> QED
    BY <1>7, <2>1, <2>2, <2>4, <2>6, <2>7, RecordOrder DEF FinishDelay
<1>8. ASSUME NEW k \in Steps, Park(w, k) \/ Repark(w, k) PROVE OrderInv'
  <2>1. \A q \in Runs : row'[q].status = "completed" => row[q].status = "completed"
    <3>1. \A t \in Time :
            LET x == [mem[w] EXCEPT !.status = "waiting", !.wake = t, !.next = None]
            IN  x \in Row /\ x.status = "waiting"
      BY <1>0, RowUpdates DEF Row
    <3>2. DelayTicks \in Time /\ seenPark[w][k] \in Time
      <4>1. seenPark[w] \in [Steps -> Time]
        BY DEF TypeInv, TypeOK
      <4> QED
        BY <4>1, DelayAssumption DEF Time
    <3>3. PICK x \in Row : x.status = "waiting" /\ Save(cur[w], x)
      BY <1>8, <3>1, <3>2 DEF Park, Repark
    <3>4. cur[w] \in Runs
      BY <1>8 DEF Park, Repark, Reached, TypeInv, CurOK, Active
    <3> QED
      BY <3>3, <3>4, SaveNotCompleted
  <2> QED
    BY <1>8, <2>1, FinishOrder DEF Park, Repark
<1>9. ASSUME CommitRetry(w) \/ CommitFailure(w) \/ LoadFails(w) PROVE OrderInv'
  <2>1. \A q \in Runs : row'[q].status = "completed" => row[q].status = "completed"
    <3>1. [mem[w] EXCEPT !.status = "failed"].status = "failed"
      BY <1>0 DEF Row
    <3>2. [mem[w] EXCEPT !.status = "pending", !.retry = @ + 1,
                         !.next = Backoff[mem[w].retry + 1]].status = "pending"
      BY <1>0 DEF Row
    <3> QED
      BY <1>9, <3>1, <3>2 DEF CommitRetry, CommitFailure, LoadFails, Save, TypeInv, TypeOK
  <2> QED
    BY <1>9, <2>1, FinishOrder DEF CommitRetry, CommitFailure, LoadFails
<1>10. ASSUME SaveDue(w) PROVE OrderInv'
  <2>1. Active(w) /\ mem[w].status = "running" /\ cur[w] \in Runs
    BY <1>10 DEF SaveDue, Active, OrderInv, MemRunning, TypeInv, CurOK
  <2>2. \A q \in Runs : row'[q].status = "completed" => row[q].status = "completed"
    BY <1>10, <2>1 DEF SaveDue, Save, TypeInv, TypeOK
  <2>3. SeenSound'
    BY <1>10 DEF SaveDue, OrderInv, SeenSound, Active, TypeInv, TypeOK
  <2>4. ExecutedSound'
    BY <1>10 DEF SaveDue, OrderInv, ExecutedSound, Executed, TypeInv, TypeOK
  <2>5. MemRunning'
    BY <1>10 DEF SaveDue, OrderInv, MemRunning, Active, TypeInv, TypeOK
  <2>6. DoneHappened' /\ InOrder' /\ CompletedMeansAllDone'
    BY <1>10, <2>2 DEF SaveDue, OrderInv, DoneHappened, InOrder, CompletedMeansAllDone
  <2> QED
    BY <2>3, <2>4, <2>5, <2>6 DEF OrderInv
<1>11. ASSUME Complete(w) PROVE OrderInv'
  <2>1. cur[w] \in Runs /\ Active(w)
    BY <1>11 DEF Complete, Active, TypeInv, CurOK
  <2>2. Durable \subseteq done[cur[w]]
    BY <1>11, <2>1 DEF Complete, OrderInv, SeenSound, Durable
  <2>3. \A k \in Steps : Plan[k] = "action" => execs[cur[w]][k] > 0
    BY <2>1, <2>2 DEF OrderInv, DoneHappened, Durable
  <2>4. AllDone(cur[w])
    BY <2>2, <2>3 DEF AllDone
  <2>5. \A q \in Runs : row'[q].status = "completed" => row[q].status = "completed" \/ AllDone(q)
    BY <1>11, <2>4 DEF Complete, Save, TypeInv, TypeOK
  <2> QED
    BY <1>11, <2>5, FinishOrder DEF Complete
<1>12. ASSUME NEW r \in Runs, LockFails(w, r) PROVE OrderInv'
  BY <1>12, FrameOrder DEF LockFails
<1>13. ASSUME Lost(w) PROVE OrderInv'
  BY <1>13, FinishOrder DEF Lost
<1> QED
  BY <1>1, <1>2, <1>3, <1>4, <1>5, <1>6, <1>7, <1>8, <1>9, <1>10, <1>11, <1>12, <1>13
  DEF WorkerStep, WorkerFault

\* So does a step of a process.
LEMMA ProcessOrder ==
    ASSUME TypeInv, OrderInv, NEW i \in Instances,
           \/ \E r \in Runs : Create(i, r) \/ RetryRun(i, r)
           \/ SchedulerStep(i)
           \/ StartupStep(i)
           \/ Crash(i)
    PROVE  OrderInv'
<1> USE DEF dbVars, procVars, workVars, boundVars
<1>1. ASSUME NEW r \in Runs, Create(i, r) PROVE OrderInv'
  <2>1. NewRow("pending") \in Row /\ NewRow("pending").status # "completed"
    BY FreshTypes DEF Statuses, NewRow
  <2>2. \A q \in Runs : row'[q].status = "completed" => row[q].status = "completed"
    BY <1>1, <2>1, SaveNotCompleted DEF Create
  <2> QED
    BY <1>1, <2>2, FrameOrder DEF Create
<1>2. ASSUME NEW r \in Runs, RetryRun(i, r) PROVE OrderInv'
  <2>1. row[r] \in Row
    BY DEF TypeInv, TypeOK
  <2>2. LET x == [row[r] EXCEPT !.status = "pending", !.retry = 0, !.next = None]
        IN  x \in Row /\ x.status # "completed"
    BY <2>1, RowUpdates DEF Row
  <2>3. \A q \in Runs : row'[q].status = "completed" => row[q].status = "completed"
    <3>1. PICK x \in Row : x.status # "completed" /\ Save(r, x)
      BY <1>2, <2>2 DEF RetryRun
    <3> QED
      BY <3>1, SaveNotCompleted
  <2> QED
    BY <1>2, <2>3, FrameOrder DEF RetryRun
<1>3. ASSUME Wake(i) PROVE OrderInv'
  <2>1. \A q \in Runs : row'[q].status = "completed" => row[q].status = "completed"
    <3>1. \A q \in Runs : [row[q] EXCEPT !.status = "pending", !.next = Skew, !.wake = None].status
                             = "pending"
      BY DEF TypeInv, TypeOK, Row
    <3> QED
      BY <1>3, <3>1 DEF Wake
  <2> QED
    BY <1>3, <2>1, FrameOrder DEF Wake
<1>4. ASSUME NEW r \in Runs, ResetOne(i, r) PROVE OrderInv'
  <2>1. todo[i][r] \in Row
    BY <1>4 DEF ResetOne, TypeInv, TypeOK
  <2>2. LET x == [todo[i][r] EXCEPT !.status = "pending"]
        IN  x \in Row /\ x.status # "completed"
    <3>1. [todo[i][r] EXCEPT !.status = "pending"] \in Row
      BY <2>1, RowUpdates DEF Statuses
    <3>2. [todo[i][r] EXCEPT !.status = "pending"].status = "pending"
      BY <2>1 DEF Row
    <3> QED
      BY <3>1, <3>2
  <2>3. \A q \in Runs : row'[q].status = "completed" => row[q].status = "completed"
    <3>1. CASE row' = row
      BY <3>1
    <3>2. CASE Save(r, [todo[i][r] EXCEPT !.status = "pending"])
      <4>1. PICK x \in Row : x.status # "completed" /\ Save(r, x)
        BY <2>2, <3>2
      <4> QED
        BY <4>1, SaveNotCompleted
    <3> QED
      BY <1>4, <3>1, <3>2 DEF ResetOne
  <2> QED
    BY <1>4, <2>3, FrameOrder DEF ResetOne
<1>5. ASSUME \/ SweepRetries(i) \/ SweepPush(i) \/ Start(i) \/ LoadPending(i)
             \/ RequeuePush(i) \/ StartWorkers(i)
      PROVE  OrderInv'
  BY <1>5, FrameOrder
  DEF SweepRetries, SweepPush, Start, LoadPending, RequeuePush, StartWorkers
<1>6. ASSUME Crash(i) PROVE OrderInv'
  <2>1. SeenSound'
    BY <1>6 DEF Crash, OrderInv, SeenSound, Active
  <2>2. ExecutedSound'
    BY <1>6 DEF Crash, OrderInv, ExecutedSound, Executed
  <2>3. MemRunning'
    BY <1>6 DEF Crash, OrderInv, MemRunning, Active
  <2>4. DoneHappened' /\ InOrder' /\ CompletedMeansAllDone'
    BY <1>6 DEF Crash, OrderInv, DoneHappened, InOrder, CompletedMeansAllDone
  <2> QED
    BY <2>1, <2>2, <2>3, <2>4 DEF OrderInv
<1> QED
  BY <1>1, <1>2, <1>3, <1>4, <1>5, <1>6 DEF SchedulerStep, StartupStep

\* A tick leaves every status as it was.
LEMMA TickStatus ==
    ASSUME TypeInv, Tick
    PROVE  /\ \A r \in Runs : row'[r].status = row[r].status
           /\ \A w \in Workers : mem'[w].status = mem[w].status
<1>1. \A x \in Row : DownRow(x).status = x.status
  BY DEF DownRow, Row
<1> QED
  BY <1>1 DEF Tick, TypeInv, TypeOK

\* The order holds at first.
LEMMA OrderInit == Init => OrderInv
<1> SUFFICES ASSUME Init PROVE OrderInv
  OBVIOUS
<1>1. SeenSound /\ MemRunning /\ ExecutedSound
  BY DEF Init, SeenSound, MemRunning, ExecutedSound, Active
<1>2. DoneHappened /\ InOrder /\ CompletedMeansAllDone
  BY DEF Init, DoneHappened, InOrder, CompletedMeansAllDone, NewRow
<1> QED
  BY <1>1, <1>2 DEF OrderInv

\* Every step keeps the order.
LEMMA OrderStep == TypeInv /\ OrderInv /\ [Next]_vars => OrderInv'
<1> SUFFICES ASSUME TypeInv, OrderInv, [Next]_vars PROVE OrderInv'
  OBVIOUS
<1>1. CASE UNCHANGED vars
  BY <1>1, FrameOrder DEF vars, dbVars, procVars, workVars, boundVars
<1>2. CASE Tick
  <2>1. UNCHANGED <<done, execs, pc, cur, seen>>
    BY <1>2 DEF Tick
  <2> QED
    BY <1>2, <2>1, TickStatus, FrameOrder
<1>3. CASE Next /\ ~Tick
  BY <1>3, WorkerOrder, ProcessOrder DEF Next
<1> QED
  BY <1>1, <1>2, <1>3

\* The order always holds.
LEMMA OrderAlways == Spec => [](TypeInv /\ OrderInv)
<1>1. Init => TypeInv /\ OrderInv
  BY TypeInit, OrderInit
<1>2. TypeInv /\ OrderInv /\ [Next]_vars => (TypeInv /\ OrderInv)'
  BY TypeStep, OrderStep
<1> QED
  BY <1>1, <1>2, PTL DEF Spec

\* Whatever the pool, the queue and the crashes do, a step takes effect only
\* after every action and delay before it is on record (executeStepsWithState).
THEOREM StepsHappenInOrder == Spec => []InOrder
<1>1. OrderInv => InOrder
  BY DEF OrderInv
<1> QED
  BY <1>1, OrderAlways, PTL

\* Whatever the pool, the queue and the crashes do, a run is reported completed
\* only with every action done and on record (processRun).
THEOREM CompletionIsEarned == Spec => []CompletedMeansAllDone
<1>1. OrderInv => CompletedMeansAllDone
  BY DEF OrderInv
<1> QED
  BY <1>1, OrderAlways, PTL

-----------------------------------------------------------------------------
(* One worker in all: then nobody writes a row behind the worker's back,    *)
(* and what it takes for completed is exactly what is on record.            *)

SoleWorker == \E w \in Workers : Workers = {w}

SoleInv ==
    /\ \A w \in Workers : pc[w] \notin {"idle", "locked"} => done[cur[w]] \subseteq seen[w]
    /\ \A w \in Workers : Active(w) => row[cur[w]].status = "running" /\ phase[w[1]] = "up"
    /\ \A i \in Instances : \A r \in Runs :
         todo[i][r] # None => phase[i] = "reset" /\ row[r].status = "running"

\* With one worker there is one process, and it is the worker's.
LEMMA SoleProcess ==
    ASSUME SoleWorker, NEW w \in Workers
    PROVE  /\ \A v \in Workers : v = w
           /\ \A i \in Instances : i = w[1]
<1>1. \A v \in Workers : v = w
  BY DEF SoleWorker
<1>2. ASSUME NEW i \in Instances PROVE i = w[1]
  <2>1. w[2] \in Slots
    BY DEF Workers
  <2>2. <<i, w[2]>> \in Workers
    BY <2>1 DEF Workers
  <2>3. <<i, w[2]>> = w
    BY <2>2, <1>1
  <2> QED
    BY <2>3
<1> QED
  BY <1>1, <1>2

\* A worker that is active finds no row left to reset.
LEMMA NothingToReset ==
    ASSUME SoleWorker, SoleInv, NEW w \in Workers, phase[w[1]] = "up"
    PROVE  \A i \in Instances : \A r \in Runs : todo[i][r] = None
<1>1. \A i \in Instances : phase[i] = "up"
  BY SoleProcess
<1> QED
  BY <1>1 DEF SoleInv

\* The only worker returns: nothing is left to say of it.
LEMMA FinishSole ==
    ASSUME SoleWorker, TypeInv, SoleInv, NEW w \in Workers, Active(w), Finish(w),
           UNCHANGED todo
    PROVE  SoleInv'
<1>1. \A v \in Workers : pc'[v] = "idle"
  BY SoleProcess DEF Finish, TypeInv, TypeOK
<1>2. \A i \in Instances : \A r \in Runs : todo'[i][r] = None
  BY NothingToReset DEF SoleInv
<1> QED
  BY <1>1, <1>2 DEF SoleInv, Active

\* The only worker goes on with its run, having saved it as running.
LEMMA RunningSole ==
    ASSUME SoleWorker, TypeInv, SoleInv, NEW w \in Workers, Active(w),
           UNCHANGED <<cur, phase, todo>>,
           row'[cur[w]].status = "running",
           pc'[w] \notin {"idle", "locked"} => done'[cur[w]] \subseteq seen'[w]
    PROVE  SoleInv'
<1>1. \A v \in Workers : v = w
  BY SoleProcess
<1>2. \A i \in Instances : \A r \in Runs : todo'[i][r] = None
  BY NothingToReset DEF SoleInv
<1> QED
  BY <1>1, <1>2 DEF SoleInv, Active

\* A step of a sole worker keeps its copy of the run current (SoleInv).
LEMMA WorkerSole ==
    ASSUME SoleWorker, TypeInv, OrderInv, SoleInv,
           NEW w \in Workers, WorkerStep(w) \/ WorkerFault(w)
    PROVE  SoleInv'
<1> USE DEF dbVars, procVars, workVars, boundVars
<1>0. Active(w) => mem[w].status = "running" /\ cur[w] \in Runs /\ mem[w] \in Row
  BY DEF OrderInv, MemRunning, TypeInv, CurOK, TypeOK
<1>1. ASSUME NEW r \in Runs, Take(w, r) PROVE SoleInv'
  <2>1. \A v \in Workers : v = w
    BY SoleProcess
  <2>2. phase[w[1]] = "up" /\ phase' = phase /\ todo' = todo
    BY <1>1 DEF Take, Head1
  <2>3. \A i \in Instances : \A q \in Runs : todo'[i][q] = None
    BY <2>2, NothingToReset
  <2>4. pc'[w] = "locked" /\ cur'[w] = r
    BY <1>1 DEF Take, TypeInv, TypeOK
  <2>5. row'[r].status = "running"
    BY <1>1 DEF Take, Save, TypeInv, TypeOK, Row
  <2> QED
    BY <2>1, <2>2, <2>3, <2>4, <2>5 DEF SoleInv
<1>2. ASSUME NEW r \in Runs, Drop(w, r) \/ LockFails(w, r) PROVE SoleInv'
  BY <1>2 DEF Drop, LockFails, SoleInv, Active
<1>3. ASSUME Load(w) PROVE SoleInv'
  <2>1. Active(w) /\ done'[cur[w]] \subseteq seen'[w]
    BY <1>3 DEF Load, Active, TypeInv, TypeOK
  <2> QED
    BY <1>3, <2>1, RunningSole DEF Load, SoleInv
<1>4. ASSUME NEW k \in Steps, Execute(w, k) PROVE SoleInv'
  <2>1. Active(w) /\ done'[cur[w]] \subseteq seen'[w]
    BY <1>4 DEF Execute, Reached, Active, SoleInv
  <2> QED
    BY <1>4, <2>1, RunningSole DEF Execute, SoleInv
<1>5. ASSUME NEW k \in Steps, CommitSuccess(w, k) PROVE SoleInv'
  <2>1. Active(w) /\ done[cur[w]] \subseteq seen[w]
    BY <1>5 DEF CommitSuccess, Active, SoleInv
  <2>2. done'[cur[w]] \subseteq seen'[w]
    BY <1>0, <1>5, <2>1 DEF CommitSuccess, TypeInv, TypeOK
  <2>3. mem'[w].status = "running"
    BY <1>0, <1>5, <2>1 DEF CommitSuccess, TypeInv, TypeOK, Row
  <2>4. row'[cur[w]].status = "running"
    BY <1>0, <1>5, <2>1, <2>3 DEF CommitSuccess, Save, TypeInv, TypeOK
  <2> QED
    BY <1>5, <2>1, <2>2, <2>4, RunningSole DEF CommitSuccess
<1>6. ASSUME NEW k \in Steps, DueDelay(w, k) PROVE SoleInv'
  <2>1. Active(w) /\ done[cur[w]] \subseteq seen[w]
    BY <1>6 DEF DueDelay, Reached, Active, SoleInv
  <2>2. done'[cur[w]] \subseteq seen'[w]
    BY <1>0, <1>6, <2>1 DEF DueDelay, TypeInv, TypeOK
  <2> QED
    BY <1>6, <2>1, <2>2, RunningSole DEF DueDelay, SoleInv
<1>7. ASSUME NEW k \in Steps, FinishDelay(w, k) PROVE SoleInv'
  <2>1. Active(w) /\ done[cur[w]] \subseteq seen[w]
    BY <1>7 DEF FinishDelay, Reached, Active, SoleInv
  <2>2. done'[cur[w]] \subseteq seen'[w]
    BY <1>0, <1>7, <2>1 DEF FinishDelay, TypeInv, TypeOK
  <2>3. mem'[w].status = "running"
    BY <1>0, <1>7, <2>1 DEF FinishDelay, TypeInv, TypeOK, Row
  <2>4. row'[cur[w]].status = "running"
    BY <1>0, <1>7, <2>1, <2>3 DEF FinishDelay, Save, TypeInv, TypeOK
  <2> QED
    BY <1>7, <2>1, <2>2, <2>4, RunningSole DEF FinishDelay
<1>8. ASSUME SaveDue(w) PROVE SoleInv'
  <2>1. Active(w) /\ done'[cur[w]] \subseteq seen'[w]
    BY <1>8 DEF SaveDue, Active, SoleInv
  <2>2. row'[cur[w]].status = "running"
    BY <1>0, <1>8, <2>1 DEF SaveDue, Save, SoleInv, TypeInv, TypeOK
  <2> QED
    BY <1>8, <2>1, <2>2, RunningSole DEF SaveDue
<1>9. ASSUME \/ \E k \in Steps : Park(w, k) \/ Repark(w, k)
             \/ CommitRetry(w) \/ CommitFailure(w) \/ Complete(w)
             \/ LoadFails(w) \/ Lost(w)
      PROVE  SoleInv'
  <2>1. Active(w) /\ Finish(w) /\ UNCHANGED todo
    BY <1>9 DEF Park, Repark, CommitRetry, CommitFailure, Complete, LoadFails, Lost,
                Reached, Active
  <2> QED
    BY <2>1, FinishSole
<1> QED
  BY <1>1, <1>2, <1>3, <1>4, <1>5, <1>6, <1>7, <1>8, <1>9 DEF WorkerStep, WorkerFault

\* So does a step of a process.
LEMMA ProcessSole ==
    ASSUME SoleWorker, TypeInv, SoleInv, NEW i \in Instances,
           \/ \E r \in Runs : Create(i, r) \/ RetryRun(i, r)
           \/ SchedulerStep(i)
           \/ StartupStep(i)
           \/ Crash(i)
    PROVE  SoleInv'
<1> USE DEF dbVars, procVars, workVars, boundVars
<1>0. PICK w \in Workers : Workers = {w}
  BY DEF SoleWorker
<1>1. \A j \in Instances : j = w[1]
  BY <1>0, SoleProcess
<1>2. phase[i] # "up" => ~Active(w)
  BY <1>1 DEF SoleInv
<1>3. phase[i] = "up" => \A j \in Instances : \A q \in Runs : todo[j][q] = None
  BY <1>1, NothingToReset
<1>4. Active(w) => cur[w] \in Runs
  BY DEF TypeInv, CurOK
<1>5. ASSUME NEW r \in Runs, Create(i, r) \/ RetryRun(i, r) PROVE SoleInv'
  <2>1. phase[i] = "up" /\ row[r].status \in {"absent", "failed"}
    BY <1>5 DEF Create, RetryRun
  <2>2. \A q \in Runs : q # r => row'[q] = row[q]
    BY <1>5 DEF Create, RetryRun, Save, TypeInv, TypeOK
  <2>3. UNCHANGED <<done, phase, todo, pc, cur, seen>>
    BY <1>5 DEF Create, RetryRun
  <2> QED
    BY <1>3, <1>4, <2>1, <2>2, <2>3, <1>0 DEF SoleInv, Active
<1>6. ASSUME Wake(i) PROVE SoleInv'
  <2>1. phase[i] = "up"
    BY <1>6 DEF Wake
  <2>2. \A q \in Runs : row[q].status = "running" => row'[q] = row[q]
    BY <1>6 DEF Wake, DueToWake
  <2>3. UNCHANGED <<done, phase, todo, pc, cur, seen>>
    BY <1>6 DEF Wake
  <2> QED
    BY <1>3, <1>4, <2>1, <2>2, <2>3, <1>0 DEF SoleInv, Active
<1>7. ASSUME SweepRetries(i) \/ SweepPush(i) PROVE SoleInv'
  BY <1>7 DEF SweepRetries, SweepPush, SoleInv, Active
<1>8. ASSUME Start(i) PROVE SoleInv'
  <2>1. ~Active(w)
    BY <1>8, <1>2 DEF Start
  <2>2. \A r \in Runs : todo'[i][r] # None => row'[r].status = "running"
    BY <1>8 DEF Start, TypeInv, TypeOK
  <2>3. phase'[i] = "reset"
    BY <1>8 DEF Start, TypeInv, TypeOK
  <2>4. \A j \in Instances : j = i
    BY <1>1
  <2> QED
    BY <1>8, <2>1, <2>2, <2>3, <2>4, <1>0 DEF Start, SoleInv, Active
<1>9. ASSUME NEW r \in Runs, ResetOne(i, r) PROVE SoleInv'
  <2>1. ~Active(w)
    BY <1>9, <1>2 DEF ResetOne
  <2>2. \A q \in Runs : todo'[i][q] # None => todo[i][q] # None /\ q # r
    BY <1>9 DEF ResetOne, TypeInv, TypeOK
  <2>3. \A q \in Runs : q # r => row'[q] = row[q]
    BY <1>9 DEF ResetOne, Save, TypeInv, TypeOK
  <2>4. \A j \in Instances : j = i
    BY <1>1
  <2> QED
    BY <1>9, <2>1, <2>2, <2>3, <2>4, <1>0 DEF ResetOne, SoleInv, Active
<1>10. ASSUME LoadPending(i) \/ RequeuePush(i) \/ StartWorkers(i) PROVE SoleInv'
  <2>1. ~Active(w)
    BY <1>10, <1>2 DEF LoadPending, RequeuePush, StartWorkers
  <2>2. \A r \in Runs : todo[i][r] = None
    BY <1>10 DEF LoadPending, RequeuePush, StartWorkers, SoleInv
  <2>3. \A j \in Instances : j = i
    BY <1>1
  <2> QED
    BY <1>10, <2>1, <2>2, <2>3, <1>0
    DEF LoadPending, RequeuePush, StartWorkers, SoleInv, Active
<1>11. ASSUME Crash(i) PROVE SoleInv'
  <2>1. pc'[w] = "idle"
    BY <1>11, <1>1, <1>0 DEF Crash
  <2>2. \A r \in Runs : todo'[i][r] = None
    BY <1>11 DEF Crash, TypeInv, TypeOK
  <2>3. \A j \in Instances : j = i
    BY <1>1
  <2> QED
    BY <2>1, <2>2, <2>3, <1>0 DEF SoleInv, Active
<1> QED
  BY <1>5, <1>6, <1>7, <1>8, <1>9, <1>10, <1>11 DEF SchedulerStep, StartupStep

\* Nothing is held at first.
LEMMA SoleInit == Init => SoleInv
  BY DEF Init, SoleInv, Active

\* Every step keeps the copies current.
LEMMA SoleStep ==
    ASSUME SoleWorker
    PROVE  TypeInv /\ OrderInv /\ SoleInv /\ [Next]_vars => SoleInv'
<1> SUFFICES ASSUME TypeInv, OrderInv, SoleInv, [Next]_vars PROVE SoleInv'
  OBVIOUS
<1>1. CASE UNCHANGED vars
  BY <1>1 DEF vars, dbVars, procVars, workVars, boundVars, SoleInv, Active
<1>2. CASE Tick
  <2>1. \A i \in Instances : \A r \in Runs : todo'[i][r] # None => todo[i][r] # None
    BY <1>2 DEF Tick
  <2>2. \A w \in Workers : Active(w) => cur[w] \in Runs
    BY DEF TypeInv, CurOK
  <2>3. UNCHANGED <<done, phase, pc, cur, seen>>
    BY <1>2 DEF Tick
  <2> QED
    BY <1>2, <2>1, <2>2, <2>3, TickStatus DEF SoleInv, Active
<1>3. CASE Next /\ ~Tick
  BY <1>3, WorkerSole, ProcessSole DEF Next
<1> QED
  BY <1>1, <1>2, <1>3

\* A sole worker's copy of its run is always current.
LEMMA SoleAlways ==
    ASSUME SoleWorker
    PROVE  Spec => [](TypeInv /\ OrderInv /\ SoleInv)
<1>1. Init => TypeInv /\ OrderInv /\ SoleInv
  BY TypeInit, OrderInit, SoleInit
<1>2. TypeInv /\ OrderInv /\ SoleInv /\ [Next]_vars => (TypeInv /\ OrderInv /\ SoleInv)'
  BY TypeStep, OrderStep, SoleStep
<1> QED
  BY <1>1, <1>2, PTL DEF Spec

-----------------------------------------------------------------------------
(* What follows with one worker: no step again once on record, no settled   *)
(* run revived, and the promise of DurableRun.                              *)

\* Executing a step repeats no recorded one.
LEMMA ExecuteOnlyUnrecorded ==
    ASSUME TypeInv, SoleInv, NEW w \in Workers, NEW k \in Steps, Execute(w, k),
           NEW r \in Runs, NEW l \in Steps, l \in done[r]
    PROVE  execs'[r][l] = execs[r][l]
<1>1. cur[w] \in Runs /\ done[cur[w]] \subseteq seen[w] /\ k \notin seen[w]
  BY DEF Execute, Reached, SoleInv, TypeInv, CurOK, Active
<1>2. ~(r = cur[w] /\ l = k)
  BY <1>1
<1>3. execs' = [execs EXCEPT ![cur[w]][k] = @ + 1]
  BY DEF Execute
<1> QED
  BY <1>1, <1>2, <1>3 DEF TypeInv, TypeOK

\* With one worker, a step whose success is on record never takes effect
\* again: the log is read after the lock and before the first step.
THEOREM NeverReexecuted ==
    ASSUME SoleWorker
    PROVE  Spec => NoReexecution
<1>1. TypeInv /\ SoleInv /\ [Next]_vars =>
        [\A r \in Runs : \A k \in Steps : k \in done[r] => execs'[r][k] = execs[r][k]]_vars
  <2> SUFFICES ASSUME TypeInv, SoleInv, Next, NEW r \in Runs, NEW k \in Steps, k \in done[r]
               PROVE  execs'[r][k] = execs[r][k]
    OBVIOUS
  <2>1. CASE \E w \in Workers : \E l \in Steps : Execute(w, l)
    BY <2>1, ExecuteOnlyUnrecorded
  <2>2. CASE execs' = execs
    BY <2>2
  <2>3. ASSUME NEW w \in Workers, WorkerStep(w) \/ WorkerFault(w),
               ~\E l \in Steps : Execute(w, l)
        PROVE  execs' = execs
    BY <2>3 DEF WorkerStep, WorkerFault, Take, Drop, LockFails, Load, LoadFails,
                CommitSuccess, CommitRetry, CommitFailure, DueDelay, SaveDue, Park,
                Repark, FinishDelay, Complete, Lost
  <2>4. ASSUME NEW i \in Instances, SchedulerStep(i) \/ StartupStep(i) \/ Crash(i)
        PROVE  execs' = execs
    BY <2>4 DEF SchedulerStep, StartupStep, Wake, SweepRetries, SweepPush, Crash,
                Start, ResetOne, LoadPending, RequeuePush, StartWorkers
  <2>5. ASSUME NEW i \in Instances, NEW q \in Runs, Create(i, q) \/ RetryRun(i, q)
        PROVE  execs' = execs
    BY <2>5 DEF Create, RetryRun
  <2>6. Tick => execs' = execs
    BY DEF Tick
  <2> QED
    BY <2>1, <2>2, <2>3, <2>4, <2>5, <2>6 DEF Next
<1> QED
  BY <1>1, SoleAlways, PTL DEF Spec, NoReexecution

\* How one step moves one run, as DurableRun sees it.
Stutters(r) == RunState(r)' = RunState(r) /\ done'[r] \cap Durable = done[r] \cap Durable
Enters(r) == row[r].status = "absent" /\ RunState(r)' = "live" /\ done'[r] = done[r]
Retries(r) ==
    row[r].status = "failed" /\ RunState(r)' = "live" /\ done'[r] = done[r]
    /\ manual'[r] = manual[r] + 1
Fails(r) == row[r].status = "running" /\ RunState(r)' = "failed" /\ done'[r] = done[r]
Completes(r) ==
    /\ row[r].status = "running" /\ RunState(r)' = "completed" /\ done'[r] = done[r]
    /\ Durable \subseteq done[r]
Advances(r) ==
    /\ row[r].status = "running" /\ RunState(r)' = "live"
    /\ \E k \in Steps : /\ k \notin done[r]
                        /\ \A j \in Durable : j < k => j \in done[r]
                        /\ done'[r] = done[r] \cup {k}

Moves(r) == Enters(r) \/ Retries(r) \/ Fails(r) \/ Completes(r) \/ Advances(r)

\* Every step leaves every run alone but one.
OneMoves == \/ \A q \in Runs : Stutters(q)
            \/ \E r \in Runs : Moves(r) /\ \A q \in Runs \ {r} : Stutters(q)

\* One run moves and nothing is written to the others.
LEMMA MoveOne ==
    ASSUME NEW r \in Runs, Moves(r),
           \A q \in Runs \ {r} : row'[q] = row[q] /\ done'[q] = done[q]
    PROVE  OneMoves
<1>1. \A q \in Runs \ {r} : Stutters(q)
  BY DEF Stutters, RunState
<1> QED
  BY <1>1 DEF OneMoves

\* The row a worker writes when it decides (commitActionAndRun, failRun, and
\* the final save of processRun).
LEMMA DecidedRow ==
    ASSUME TypeInv, NEW w \in Workers
    PROVE  /\ \A k \in Steps : Park(w, k) \/ Repark(w, k) =>
                \E x \in Row : x.status = "waiting" /\ Save(cur[w], x)
           /\ CommitRetry(w) => \E x \in Row : x.status = "pending" /\ Save(cur[w], x)
           /\ CommitFailure(w) \/ LoadFails(w) =>
                \E x \in Row : x.status = "failed" /\ Save(cur[w], x)
           /\ Complete(w) => \E x \in Row : x.status = "completed" /\ Save(cur[w], x)
<1>1. mem[w] \in Row
  BY DEF TypeInv, TypeOK
<1>2. ASSUME NEW s \in Statuses
      PROVE  LET x == [mem[w] EXCEPT !.status = s] IN x \in Row /\ x.status = s
  BY <1>1 DEF Row
<1>3. ASSUME NEW k \in Steps, Park(w, k) \/ Repark(w, k)
      PROVE  \E x \in Row : x.status = "waiting" /\ Save(cur[w], x)
  <2>1. \A t \in Time :
          LET x == [mem[w] EXCEPT !.status = "waiting", !.wake = t, !.next = None]
          IN  x \in Row /\ x.status = "waiting"
    BY <1>1, RowUpdates DEF Row
  <2>2. DelayTicks \in Time /\ seenPark[w][k] \in Time
    <3>1. seenPark[w] \in [Steps -> Time]
      BY DEF TypeInv, TypeOK
    <3> QED
      BY <3>1, DelayAssumption DEF Time
  <2> QED
    BY <1>3, <2>1, <2>2 DEF Park, Repark
<1>4. ASSUME CommitRetry(w)
      PROVE  \E x \in Row : x.status = "pending" /\ Save(cur[w], x)
  <2>1. mem[w].retry + 1 \in 1..MaxRetries /\ mem[w].retry + 1 \in 0..MaxRetries
    BY <1>1, <1>4, RetryAssumption DEF CommitRetry, Row
  <2>2. Backoff[mem[w].retry + 1] \in Time
    BY <2>1, RetryAssumption DEF Time
  <2>3. LET x == [mem[w] EXCEPT !.status = "pending", !.retry = @ + 1,
                                !.next = Backoff[mem[w].retry + 1]]
        IN  x \in Row /\ x.status = "pending"
    BY <1>1, <2>1, <2>2, RowUpdates DEF Row
  <2> QED
    BY <1>4, <2>3 DEF CommitRetry
<1>5. ASSUME CommitFailure(w) \/ LoadFails(w)
      PROVE  \E x \in Row : x.status = "failed" /\ Save(cur[w], x)
  <2>1. "failed" \in Statuses
    BY DEF Statuses
  <2> QED
    BY <1>2, <1>5, <2>1 DEF CommitFailure, LoadFails
<1>6. ASSUME Complete(w)
      PROVE  \E x \in Row : x.status = "completed" /\ Save(cur[w], x)
  <2>1. "completed" \in Statuses
    BY DEF Statuses
  <2> QED
    BY <1>2, <1>6, <2>1 DEF Complete
<1> QED
  BY <1>3, <1>4, <1>5, <1>6

\* A step of a sole worker moves one run as the abstract one may.
LEMMA WorkerMoves ==
    ASSUME SoleWorker, TypeInv, OrderInv, SoleInv,
           NEW w \in Workers, WorkerStep(w) \/ WorkerFault(w)
    PROVE  OneMoves
<1> USE DEF dbVars, procVars, workVars, boundVars
<1>0. Active(w) => /\ mem[w].status = "running" /\ cur[w] \in Runs /\ mem[w] \in Row
                   /\ row[cur[w]].status = "running"
  BY DEF OrderInv, MemRunning, TypeInv, CurOK, TypeOK, SoleInv
<1>1. ASSUME UNCHANGED <<row, done>> PROVE OneMoves
  BY <1>1 DEF OneMoves, Stutters, RunState
<1>2. ASSUME NEW r \in Runs, NEW x \in Row, Save(r, x)
      PROVE  row'[r] = x /\ \A q \in Runs \ {r} : row'[q] = row[q]
  BY <1>2 DEF Save, TypeInv, TypeOK
<1>3. ASSUME NEW r \in Runs, Take(w, r) PROVE OneMoves
  <2>1. row[r] \in Row /\ row[r].status \in {"pending", "running"} /\ UNCHANGED done
    BY <1>3 DEF Take, TypeInv, TypeOK
  <2>2. LET x == [row[r] EXCEPT !.status = "running"] IN x \in Row /\ x.status = "running"
    BY <2>1 DEF Row, Statuses
  <2>3. row'[r].status = "running" /\ \A q \in Runs \ {r} : row'[q] = row[q]
    BY <1>3, <2>2, <1>2 DEF Take
  <2> QED
    BY <2>1, <2>3 DEF OneMoves, Stutters, RunState
<1>4. ASSUME NEW k \in Steps, CommitSuccess(w, k) \/ FinishDelay(w, k) PROVE OneMoves
  <2>1. Active(w) /\ cur[w] \in Runs /\ Executed(w, k)
    BY <1>4, <1>0 DEF CommitSuccess, FinishDelay, Reached, Executed, Active
  <2>2. done'[cur[w]] = done[cur[w]] \cup {k} /\ \A q \in Runs \ {cur[w]} : done'[q] = done[q]
    BY <1>4, <2>1 DEF CommitSuccess, FinishDelay, TypeInv, TypeOK
  <2>3. mem'[w] \in Row /\ mem'[w].status = "running"
    <3>1. mem[w] \in Row /\ mem[w].status = "running"
      BY <1>0, <2>1
    <3>2. LET x == [mem[w] EXCEPT !.retry = 0, !.next = None]
          IN  x \in Row /\ x.status = "running"
      BY <3>1, RowUpdates DEF Row
    <3>3. LET x == [mem[w] EXCEPT !.retry = 0, !.next = None, !.wake = None]
          IN  x \in Row /\ x.status = "running"
      BY <3>1, RowUpdates DEF Row
    <3>4. \/ mem'[w] = [mem[w] EXCEPT !.retry = 0, !.next = None]
          \/ mem'[w] = [mem[w] EXCEPT !.retry = 0, !.next = None, !.wake = None]
      BY <1>4 DEF CommitSuccess, FinishDelay, TypeInv, TypeOK
    <3> QED
      BY <3>2, <3>3, <3>4
  <2>4. row'[cur[w]].status = "running" /\ \A q \in Runs \ {cur[w]} : row'[q] = row[q]
    BY <1>4, <2>1, <2>3, <1>2 DEF CommitSuccess, FinishDelay
  <2>5. done[cur[w]] \subseteq seen[w] /\ seen[w] \cap Durable \subseteq done[cur[w]]
    BY <1>4, <2>1
    DEF CommitSuccess, FinishDelay, Reached, SoleInv, OrderInv, SeenSound
  <2>6. k \notin done[cur[w]] /\ \A j \in Durable : j < k => j \in done[cur[w]]
    <3>1. \A j \in Durable : j < k => j \in 1..(k - 1)
      BY PlanAssumption DEF Durable, Steps
    <3> QED
      BY <3>1, <2>1, <2>5 DEF Executed
  <2>7. PICK r \in Runs : r = cur[w]
    BY <2>1
  <2>8. Advances(r)
    BY <1>0, <2>1, <2>2, <2>4, <2>6, <2>7 DEF Advances, RunState
  <2> QED
    BY <2>2, <2>4, <2>7, <2>8, MoveOne DEF Moves
<1>5. ASSUME NEW k \in Steps, DueDelay(w, k) PROVE OneMoves
  <2>1. Active(w) /\ cur[w] \in Runs /\ k \notin Durable /\ row' = row
    BY <1>5, <1>0 DEF DueDelay, Reached, Active, Durable
  <2>2. \A q \in Runs : done'[q] \cap Durable = done[q] \cap Durable
    <3>1. CASE done' = done
      BY <3>1
    <3>2. CASE done' = [done EXCEPT ![cur[w]] = @ \cup {k}]
      BY <2>1, <3>2 DEF TypeInv, TypeOK
    <3> QED
      BY <1>5, <3>1, <3>2 DEF DueDelay
  <2> QED
    BY <2>1, <2>2 DEF OneMoves, Stutters, RunState
<1>6. ASSUME SaveDue(w) PROVE OneMoves
  <2>1. Active(w) /\ UNCHANGED done
    BY <1>6 DEF SaveDue, Active
  <2>2. \A q \in Runs : row'[q].status = row[q].status
    BY <1>6, <2>1, <1>0 DEF SaveDue, Save, TypeInv, TypeOK
  <2> QED
    BY <2>1, <2>2 DEF OneMoves, Stutters, RunState
<1>7. ASSUME NEW k \in Steps, Park(w, k) \/ Repark(w, k) PROVE OneMoves
  <2>1. Active(w) /\ UNCHANGED done
    BY <1>7 DEF Park, Repark, Reached, Active
  <2>0. PICK x \in Row : x.status = "waiting" /\ Save(cur[w], x)
    BY <1>7, DecidedRow
  <2>2. row'[cur[w]].status = "waiting"
    BY <2>0, <2>1, <1>0, <1>2
  <2>3. \A q \in Runs \ {cur[w]} : row'[q] = row[q]
    BY <2>0, <2>1, <1>0, <1>2
  <2> QED
    BY <2>1, <2>2, <2>3, <1>0 DEF OneMoves, Stutters, RunState
<1>8. ASSUME CommitRetry(w) PROVE OneMoves
  <2>1. Active(w) /\ UNCHANGED done
    BY <1>8 DEF CommitRetry, Active
  <2>0. PICK x \in Row : x.status = "pending" /\ Save(cur[w], x)
    BY <1>8, DecidedRow
  <2>2. row'[cur[w]].status = "pending"
    BY <2>0, <2>1, <1>0, <1>2
  <2>3. \A q \in Runs \ {cur[w]} : row'[q] = row[q]
    BY <2>0, <2>1, <1>0, <1>2
  <2> QED
    BY <2>1, <2>2, <2>3, <1>0 DEF OneMoves, Stutters, RunState
<1>9. ASSUME CommitFailure(w) \/ LoadFails(w) PROVE OneMoves
  <2>1. Active(w) /\ UNCHANGED done
    BY <1>9 DEF CommitFailure, LoadFails, Active
  <2>0. PICK x \in Row : x.status = "failed" /\ Save(cur[w], x)
    BY <1>9, DecidedRow
  <2>2. row'[cur[w]].status = "failed"
    BY <2>0, <2>1, <1>0, <1>2
  <2>3. \A q \in Runs \ {cur[w]} : row'[q] = row[q]
    BY <2>0, <2>1, <1>0, <1>2
  <2>4. PICK r \in Runs : r = cur[w]
    BY <2>1, <1>0
  <2>5. Fails(r)
    BY <2>1, <2>2, <2>4, <1>0 DEF Fails, RunState
  <2> QED
    BY <2>1, <2>3, <2>4, <2>5, MoveOne DEF Moves
<1>10. ASSUME Complete(w) PROVE OneMoves
  <2>1. Active(w) /\ UNCHANGED done
    BY <1>10 DEF Complete, Active
  <2>0. PICK x \in Row : x.status = "completed" /\ Save(cur[w], x)
    BY <1>10, DecidedRow
  <2>2. row'[cur[w]].status = "completed"
    BY <2>0, <2>1, <1>0, <1>2
  <2>3. \A q \in Runs \ {cur[w]} : row'[q] = row[q]
    BY <2>0, <2>1, <1>0, <1>2
  <2>4. Durable \subseteq done[cur[w]]
    BY <1>10, <2>1 DEF Complete, OrderInv, SeenSound, Durable
  <2>5. PICK r \in Runs : r = cur[w]
    BY <2>1, <1>0
  <2>6. Completes(r)
    BY <2>1, <2>2, <2>4, <2>5, <1>0 DEF Completes, RunState
  <2> QED
    BY <2>1, <2>3, <2>5, <2>6, MoveOne DEF Moves
<1>11. ASSUME \/ \E r \in Runs : Drop(w, r) \/ LockFails(w, r)
              \/ Load(w) \/ (\E k \in Steps : Execute(w, k)) \/ Lost(w)
       PROVE  OneMoves
  BY <1>11, <1>1 DEF Drop, LockFails, Load, Execute, Lost
<1> QED
  BY <1>3, <1>4, <1>5, <1>6, <1>7, <1>8, <1>9, <1>10, <1>11 DEF WorkerStep, WorkerFault

\* So does a step of a process.
LEMMA ProcessMoves ==
    ASSUME TypeInv, SoleInv, NEW i \in Instances,
           \/ \E r \in Runs : Create(i, r) \/ RetryRun(i, r)
           \/ SchedulerStep(i)
           \/ StartupStep(i)
           \/ Crash(i)
    PROVE  OneMoves
<1> USE DEF dbVars, procVars, workVars, boundVars
<1>1. ASSUME UNCHANGED <<row, done>> PROVE OneMoves
  BY <1>1 DEF OneMoves, Stutters, RunState
<1>2. ASSUME NEW r \in Runs, Create(i, r) PROVE OneMoves
  <2>1. row'[r] = NewRow("pending") /\ \A q \in Runs \ {r} : row'[q] = row[q]
    BY <1>2 DEF Create, Save, TypeInv, TypeOK
  <2>2. Enters(r)
    BY <1>2, <2>1 DEF Create, Enters, RunState, NewRow
  <2> QED
    BY <1>2, <2>1, <2>2, MoveOne DEF Create, Moves
<1>3. ASSUME NEW r \in Runs, RetryRun(i, r) PROVE OneMoves
  <2>1. /\ row'[r] = [row[r] EXCEPT !.status = "pending", !.retry = 0, !.next = None]
        /\ \A q \in Runs \ {r} : row'[q] = row[q]
    BY <1>3 DEF RetryRun, Save, TypeInv, TypeOK
  <2>2. row[r] \in Row
    BY DEF TypeInv, TypeOK
  <2>3. row'[r].status = "pending"
    BY <2>1, <2>2 DEF Row
  <2>4. manual'[r] = manual[r] + 1
    BY <1>3 DEF RetryRun, TypeInv, TypeOK
  <2>5. Retries(r)
    BY <1>3, <2>3, <2>4 DEF RetryRun, Retries, RunState
  <2> QED
    BY <1>3, <2>1, <2>5, MoveOne DEF RetryRun, Moves
<1>4. ASSUME Wake(i) PROVE OneMoves
  <2>1. \A q \in Runs : row[q] \in Row
    BY DEF TypeInv, TypeOK
  <2>2. \A q \in Runs : [row[q] EXCEPT !.status = "pending", !.next = Skew, !.wake = None].status
                          = "pending"
    BY <2>1 DEF Row
  <2>3. \A q \in Runs : row'[q] = row[q]
                        \/ (row[q].status = "waiting" /\ row'[q].status = "pending")
    BY <1>4, <2>2 DEF Wake, DueToWake
  <2>4. UNCHANGED done
    BY <1>4 DEF Wake
  <2> QED
    BY <2>3, <2>4 DEF OneMoves, Stutters, RunState
<1>5. ASSUME NEW r \in Runs, ResetOne(i, r) PROVE OneMoves
  <2>1. row[r].status = "running" /\ todo[i][r] \in Row /\ UNCHANGED done
    BY <1>5 DEF ResetOne, SoleInv, TypeInv, TypeOK
  <2>2. [todo[i][r] EXCEPT !.status = "pending"].status = "pending"
    BY <2>1 DEF Row
  <2>3. \A q \in Runs : row'[q] = row[q]
                        \/ (q = r /\ row'[q].status = "pending")
    BY <1>5, <2>2 DEF ResetOne, Save, TypeInv, TypeOK
  <2> QED
    BY <2>1, <2>3 DEF OneMoves, Stutters, RunState
<1>6. ASSUME \/ SweepRetries(i) \/ SweepPush(i) \/ Start(i) \/ LoadPending(i)
             \/ RequeuePush(i) \/ StartWorkers(i) \/ Crash(i)
      PROVE  OneMoves
  BY <1>1, <1>6
  DEF SweepRetries, SweepPush, Start, LoadPending, RequeuePush, StartWorkers, Crash
<1> QED
  BY <1>2, <1>3, <1>4, <1>5, <1>6 DEF SchedulerStep, StartupStep

\* So does every step.
LEMMA StepMoves ==
    ASSUME SoleWorker
    PROVE  TypeInv /\ OrderInv /\ SoleInv /\ [Next]_vars => OneMoves
<1> SUFFICES ASSUME TypeInv, OrderInv, SoleInv, [Next]_vars PROVE OneMoves
  OBVIOUS
<1>1. CASE UNCHANGED vars
  BY <1>1 DEF vars, dbVars, OneMoves, Stutters, RunState
<1>2. CASE Tick
  <2>1. UNCHANGED done
    BY <1>2 DEF Tick
  <2> QED
    BY <1>2, <2>1, TickStatus DEF OneMoves, Stutters, RunState
<1>3. CASE Next /\ ~Tick
  BY <1>3, WorkerMoves, ProcessMoves DEF Next
<1> QED
  BY <1>1, <1>2, <1>3

\* With one worker, duplicate queue entries and stale row copies revive no
\* completed run, and a failed run only moves when a user retries it.
THEOREM SettledForGood ==
    ASSUME SoleWorker
    PROVE  Spec => SettledStaysSettled
<1>1. TypeInv /\ OrderInv /\ SoleInv /\ [Next]_vars =>
        [\A r \in Runs :
           /\ row[r].status = "completed" => row'[r].status = "completed"
           /\ row[r].status = "failed" /\ row'[r].status # "failed" =>
                manual'[r] = manual[r] + 1]_vars
  <2> SUFFICES ASSUME TypeInv, OrderInv, SoleInv, [Next]_vars, NEW r \in Runs
               PROVE  /\ row[r].status = "completed" => row'[r].status = "completed"
                      /\ row[r].status = "failed" /\ row'[r].status # "failed" =>
                           manual'[r] = manual[r] + 1
    OBVIOUS
  <2>1. Stutters(r) \/ Moves(r)
    BY StepMoves DEF OneMoves
  <2>2. CASE Stutters(r)
    BY <2>2 DEF Stutters, RunState
  <2>3. CASE Moves(r)
    BY <2>3 DEF Moves, Enters, Retries, Fails, Completes, Advances, RunState
  <2> QED
    BY <2>1, <2>2, <2>3
<1> QED
  BY <1>1, SoleAlways, PTL DEF Spec, SettledStaysSettled

\* The initial states are initial states of the abstract run.
LEMMA AbstractInit == Init => Abstract!Init
  BY DEF Init, NewRow, RunState, Abstract!Init

\* Every step is a step of the abstract run, or none.
LEMMA AbstractStep == OneMoves => [Abstract!Next]_(Abstract!vars)
<1> DEFINE st == [r \in Runs |-> RunState(r)]
<1> DEFINE fin == [r \in Runs |-> done[r] \cap Durable]
<1> SUFFICES ASSUME OneMoves PROVE Abstract!Next \/ UNCHANGED <<st, fin>>
  BY DEF Abstract!vars
<1>1. CASE \A q \in Runs : Stutters(q)
  BY <1>1 DEF Stutters
<1>2. ASSUME NEW r \in Runs, Moves(r), \A q \in Runs \ {r} : Stutters(q)
      PROVE  Abstract!Next \/ UNCHANGED <<st, fin>>
  <2>1. st' = [st EXCEPT ![r] = RunState(r)']
    BY <1>2 DEF Stutters
  <2>2. fin' = [fin EXCEPT ![r] = done'[r] \cap Durable]
    BY <1>2 DEF Stutters
  <2>3. CASE Enters(r)
    <3>1. Abstract!Create(r)
      BY <2>1, <2>2, <2>3 DEF Enters, RunState, Abstract!Create
    <3> QED
      BY <3>1 DEF Abstract!Next
  <2>4. CASE Retries(r)
    <3>1. Abstract!Retry(r)
      BY <2>1, <2>2, <2>4 DEF Retries, RunState, Abstract!Retry
    <3> QED
      BY <3>1 DEF Abstract!Next
  <2>5. CASE Fails(r)
    <3>1. Abstract!Fail(r)
      BY <2>1, <2>2, <2>5 DEF Fails, RunState, Abstract!Fail
    <3> QED
      BY <3>1 DEF Abstract!Next
  <2>6. CASE Completes(r)
    <3>1. Abstract!Complete(r)
      BY <2>1, <2>2, <2>6 DEF Completes, RunState, Abstract!Complete
    <3> QED
      BY <3>1 DEF Abstract!Next
  <2>7. CASE Advances(r)
    <3>1. PICK k \in Steps : /\ k \notin done[r]
                             /\ \A j \in Durable : j < k => j \in done[r]
                             /\ done'[r] = done[r] \cup {k}
      BY <2>7 DEF Advances
    <3>2. row[r].status = "running" /\ RunState(r)' = "live"
      BY <2>7 DEF Advances
    <3>3. st[r] = "live" /\ st' = st
      BY <2>1, <3>2 DEF RunState
    <3>4. CASE k \in Durable
      <4>1. fin' = [fin EXCEPT ![r] = @ \cup {k}]
        BY <2>2, <3>1, <3>4
      <4>2. k \notin fin[r] /\ \A j \in Durable : j < k => j \in fin[r]
        BY <3>1
      <4>3. Abstract!Advance(r, k)
        BY <3>3, <4>1, <4>2 DEF Abstract!Advance
      <4> QED
        BY <3>4, <4>3 DEF Abstract!Next
    <3>5. CASE k \notin Durable
      <4>1. fin' = fin
        BY <2>2, <3>1, <3>5
      <4> QED
        BY <3>3, <4>1
    <3> QED
      BY <3>4, <3>5
  <2> QED
    BY <1>2, <2>3, <2>4, <2>5, <2>6, <2>7 DEF Moves
<1> QED
  BY <1>1, <1>2 DEF OneMoves

\* With one worker, the queue, the row copies, parks, retries, crashes, lost
\* writes and recovery together implement DurableRun.
THEOREM EngineImplementsDurableRun ==
    ASSUME SoleWorker
    PROVE  Spec => ImplementsDurableRun
<1>1. TypeInv /\ OrderInv /\ SoleInv /\ [Next]_vars => [Abstract!Next]_(Abstract!vars)
  BY StepMoves, AbstractStep
<1> QED
  BY <1>1, AbstractInit, SoleAlways, PTL DEF Spec, ImplementsDurableRun, Abstract!Spec

-----------------------------------------------------------------------------
(* A running row is never left behind, with any number of processes: the    *)
(* status running is written only by a worker that goes on with the run, a  *)
(* worker that ends writes another one, and a process that died reads the   *)
(* rows it left running before it takes part again.                         *)

Worked(r) == \E w \in Workers : Active(w) /\ cur[w] = r

\* Some process has yet to look for the running row r, or has it on its list.
Expected(r) ==
    \E i \in Instances : phase[i] = "down" \/ (phase[i] = "reset" /\ todo[i][r] # None)

OrphanInv == \A r \in Runs : row[r].status = "running" => Worked(r) \/ Expected(r) \/ faults > 0

\* A fault stays counted.
LEMMA FaultsStay ==
    ASSUME TypeInv, faults > 0, UNCHANGED faults \/ Fault
    PROVE  faults' > 0
  BY DEF TypeInv, TypeOK, Fault

\* A worker that goes on with its run keeps every other row as it was.
LEMMA GoesOnOrphan ==
    ASSUME TypeInv, OrphanInv, NEW w \in Workers, pc'[w] # "idle",
           Active(w) => cur'[w] = cur[w],
           \A v \in Workers \ {w} : pc'[v] = pc[v] /\ cur'[v] = cur[v],
           \A r \in Runs : r # cur'[w] => row'[r] = row[r],
           UNCHANGED <<phase, todo>>,
           UNCHANGED faults \/ Fault
    PROVE  OrphanInv'
<1> SUFFICES ASSUME NEW r \in Runs, row'[r].status = "running"
             PROVE  Worked(r)' \/ Expected(r)' \/ faults' > 0
  BY DEF OrphanInv
<1>1. CASE r = cur'[w]
  BY <1>1 DEF Worked, Active
<1>2. CASE r # cur'[w]
  <2>1. Worked(r) \/ Expected(r) \/ faults > 0
    BY <1>2 DEF OrphanInv
  <2>2. Worked(r) => Worked(r)'
    BY <1>2 DEF Worked, Active
  <2>3. Expected(r) => Expected(r)'
    BY DEF Expected
  <2> QED
    BY <2>1, <2>2, <2>3, FaultsStay
<1> QED
  BY <1>1, <1>2

\* A worker that ends leaves its own row in another status.
LEMMA EndsOrphan ==
    ASSUME TypeInv, OrphanInv, NEW w \in Workers, Finish(w),
           \A r \in Runs : row'[r].status = "running" => r # cur[w] /\ row[r] = row'[r],
           UNCHANGED <<phase, todo>>,
           UNCHANGED faults \/ Fault
    PROVE  OrphanInv'
<1> SUFFICES ASSUME NEW r \in Runs, row'[r].status = "running"
             PROVE  Worked(r)' \/ Expected(r)' \/ faults' > 0
  BY DEF OrphanInv
<1>1. r # cur[w] /\ (Worked(r) \/ Expected(r) \/ faults > 0)
  BY DEF OrphanInv
<1>2. \A v \in Workers \ {w} : pc'[v] = pc[v] /\ cur'[v] = cur[v]
  BY DEF Finish, TypeInv, TypeOK
<1>3. Worked(r) => Worked(r)'
  BY <1>1, <1>2 DEF Worked, Active
<1>4. Expected(r) => Expected(r)'
  BY DEF Expected
<1> QED
  BY <1>1, <1>3, <1>4, FaultsStay

\* A step that moves no worker and makes no row running.
LEMMA FrameOrphan ==
    ASSUME TypeInv, OrphanInv,
           UNCHANGED <<pc, cur>>,
           \A r \in Runs : row'[r].status = "running" =>
               row[r].status = "running" /\ (Expected(r) => Expected(r)'),
           UNCHANGED faults \/ Fault
    PROVE  OrphanInv'
<1> SUFFICES ASSUME NEW r \in Runs, row'[r].status = "running"
             PROVE  Worked(r)' \/ Expected(r)' \/ faults' > 0
  BY DEF OrphanInv
<1>1. Worked(r) \/ Expected(r) \/ faults > 0
  BY DEF OrphanInv
<1>2. Worked(r) => Worked(r)'
  BY DEF Worked, Active
<1> QED
  BY <1>1, <1>2, FaultsStay

\* A step of a worker leaves no running row behind, unless a write is lost.
LEMMA WorkerOrphan ==
    ASSUME TypeInv, OrphanInv, NEW w \in Workers, WorkerStep(w) \/ WorkerFault(w)
    PROVE  OrphanInv'
<1> USE DEF dbVars, procVars, workVars, boundVars
<1>t. /\ row \in [Runs -> Row] /\ pc \in [Workers -> {"idle", "locked", "walk", "ok",
                                                      "retryable", "fatal", "save"}]
      /\ cur \in [Workers -> Runs \cup {None}] /\ mem \in [Workers -> Row]
      /\ Active(w) => cur[w] \in Runs
  BY DEF TypeInv, TypeOK, CurOK
<1>1. ASSUME NEW r \in Runs, Take(w, r) PROVE OrphanInv'
  <2>1. /\ pc[w] = "idle" /\ pc'[w] = "locked" /\ cur'[w] = r
        /\ UNCHANGED <<phase, todo, faults>>
    BY <1>1, <1>t DEF Take, Head1
  <2>2. \A v \in Workers \ {w} : pc'[v] = pc[v] /\ cur'[v] = cur[v]
    BY <1>1, <1>t DEF Take
  <2>3. \A q \in Runs : q # r => row'[q] = row[q]
    BY <1>1, <1>t DEF Take, Save
  <2> QED
    BY <2>1, <2>2, <2>3, GoesOnOrphan DEF Active
<1>2. ASSUME NEW r \in Runs, Drop(w, r) \/ LockFails(w, r) PROVE OrphanInv'
  BY <1>2, FrameOrphan DEF Drop, LockFails, Expected
<1>3. ASSUME \/ Load(w) \/ SaveDue(w)
             \/ \E k \in Steps : \/ Execute(w, k) \/ CommitSuccess(w, k) \/ DueDelay(w, k)
                                 \/ FinishDelay(w, k)
      PROVE  OrphanInv'
  <2>1. pc'[w] # "idle" /\ UNCHANGED <<cur, phase, todo>> /\ (UNCHANGED faults \/ Fault)
    BY <1>3, <1>t DEF Load, SaveDue, Execute, CommitSuccess, DueDelay, FinishDelay, Reached
  <2>2. \A v \in Workers \ {w} : pc'[v] = pc[v]
    BY <1>3, <1>t DEF Load, SaveDue, Execute, CommitSuccess, DueDelay, FinishDelay
  <2>3. \A q \in Runs : q # cur[w] => row'[q] = row[q]
    BY <1>3, <1>t DEF Load, SaveDue, Execute, CommitSuccess, DueDelay, FinishDelay, Save
  <2> QED
    BY <2>1, <2>2, <2>3, GoesOnOrphan
<1>4. ASSUME \/ \E k \in Steps : Park(w, k) \/ Repark(w, k)
             \/ CommitRetry(w) \/ CommitFailure(w) \/ Complete(w) \/ LoadFails(w)
      PROVE  OrphanInv'
  <2>1. Active(w) /\ Finish(w) /\ UNCHANGED <<phase, todo>> /\ (UNCHANGED faults \/ Fault)
    BY <1>4 DEF Park, Repark, CommitRetry, CommitFailure, Complete, LoadFails, Reached, Active
  <2>2. \E x : x.status # "running" /\ Save(cur[w], x)
    <3>1. CASE \E k \in Steps : Park(w, k) \/ Repark(w, k)
      BY <1>t, <3>1 DEF Park, Repark, Row
    <3>2. CASE CommitRetry(w)
      BY <1>t, <3>2 DEF CommitRetry, Row
    <3>3. CASE CommitFailure(w) \/ Complete(w) \/ LoadFails(w)
      BY <1>t, <3>3 DEF CommitFailure, Complete, LoadFails, Row
    <3> QED
      BY <1>4, <3>1, <3>2, <3>3
  <2>3. \A r \in Runs : row'[r].status = "running" => r # cur[w] /\ row[r] = row'[r]
    BY <1>t, <2>1, <2>2 DEF Save
  <2> QED
    BY <2>1, <2>3, EndsOrphan
<1>5. ASSUME Lost(w) PROVE OrphanInv'
  <2>1. faults' > 0
    BY <1>5 DEF Lost, Fault, TypeInv, TypeOK
  <2> QED
    BY <2>1 DEF OrphanInv
<1> QED
  BY <1>1, <1>2, <1>3, <1>4, <1>5 DEF WorkerStep, WorkerFault

\* Nor does a step of a process: one that starts lists the rows that say
\* running before it resets any.
LEMMA ProcessOrphan ==
    ASSUME TypeInv, OrphanInv, NEW i \in Instances,
           \/ \E r \in Runs : Create(i, r) \/ RetryRun(i, r)
           \/ SchedulerStep(i)
           \/ StartupStep(i)
           \/ Crash(i)
    PROVE  OrphanInv'
<1> USE DEF dbVars, procVars, workVars, boundVars
<1>t. /\ row \in [Runs -> Row] /\ todo \in [Instances -> [Runs -> Row \cup {None}]]
      /\ phase \in [Instances -> {"down", "reset", "requeue", "up"}]
      /\ \A r \in Runs : row[r] # None
  BY NullAssumption DEF TypeInv, TypeOK
<1>1. ASSUME NEW r \in Runs, Create(i, r) \/ RetryRun(i, r) PROVE OrphanInv'
  <2>1. UNCHANGED <<pc, cur, phase, todo, faults>>
    BY <1>1 DEF Create, RetryRun
  <2>2. \E x : x.status = "pending" /\ Save(r, x)
    <3>1. CASE Create(i, r)
      BY <3>1 DEF Create, NewRow
    <3>2. CASE RetryRun(i, r)
      BY <1>t, <3>2 DEF RetryRun, Row
    <3> QED
      BY <1>1, <3>1, <3>2
  <2>3. \A q \in Runs : row'[q].status = "running" => row[q].status = "running"
    BY <1>t, <2>2 DEF Save
  <2> QED
    BY <2>1, <2>3, FrameOrphan DEF Expected
<1>2. ASSUME Wake(i) PROVE OrphanInv'
  <2>1. UNCHANGED <<pc, cur, phase, todo, faults>>
    BY <1>2 DEF Wake
  <2>2. \A q \in Runs : row'[q].status = "running" => row[q].status = "running"
    BY <1>2, <1>t DEF Wake, DueToWake, Row
  <2> QED
    BY <2>1, <2>2, FrameOrphan DEF Expected
<1>3. ASSUME SweepRetries(i) \/ SweepPush(i) \/ RequeuePush(i) PROVE OrphanInv'
  BY <1>3, FrameOrphan DEF SweepRetries, SweepPush, RequeuePush, Expected
<1>4. ASSUME Start(i) PROVE OrphanInv'
  <2>1. phase'[i] = "reset"
    BY <1>4, <1>t DEF Start
  <2>2. \A r \in Runs : row[r].status = "running" => todo'[i][r] # None
    BY <1>4, <1>t DEF Start
  <2>3. UNCHANGED <<row, pc, cur, faults>>
    BY <1>4 DEF Start
  <2> QED
    BY <2>1, <2>2, <2>3, FrameOrphan DEF Expected
<1>5. ASSUME NEW r \in Runs, ResetOne(i, r) PROVE OrphanInv'
  <2>1. CASE Fault
    <3>1. faults' > 0
      BY <2>1 DEF Fault, TypeInv, TypeOK
    <3> QED
      BY <3>1 DEF OrphanInv
  <2>2. CASE Save(r, [todo[i][r] EXCEPT !.status = "pending"]) /\ UNCHANGED faults
    <3>1. todo[i][r] \in Row
      BY <1>5, <1>t DEF ResetOne
    <3>2. \A q \in Runs : row'[q].status = "running" => q # r /\ row[q].status = "running"
      BY <1>t, <2>2, <3>1 DEF Save, Row
    <3>3. \A j \in Instances : \A q \in Runs : q # r => todo'[j][q] = todo[j][q]
      BY <1>5, <1>t DEF ResetOne
    <3>4. UNCHANGED <<pc, cur, phase>>
      BY <1>5 DEF ResetOne
    <3> QED
      BY <2>2, <3>2, <3>3, <3>4, FrameOrphan DEF Expected
  <2> QED
    BY <1>5, <2>1, <2>2 DEF ResetOne
<1>6. ASSUME LoadPending(i) \/ StartWorkers(i) PROVE OrphanInv'
  <2>1. phase[i] = "reset" => \A r \in Runs : todo[i][r] = None
    BY <1>6 DEF LoadPending, StartWorkers
  <2>2. phase[i] # "down" /\ \A j \in Instances \ {i} : phase'[j] = phase[j]
    BY <1>6, <1>t DEF LoadPending, StartWorkers
  <2>3. UNCHANGED <<row, todo, pc, cur, faults>>
    BY <1>6 DEF LoadPending, StartWorkers
  <2> QED
    BY <2>1, <2>2, <2>3, FrameOrphan DEF Expected
<1>7. ASSUME Crash(i) PROVE OrphanInv'
  <2>1. phase'[i] = "down"
    BY <1>7, <1>t DEF Crash
  <2> QED
    BY <2>1 DEF OrphanInv, Expected
<1> QED
  BY <1>1, <1>2, <1>3, <1>4, <1>5, <1>6, <1>7 DEF SchedulerStep, StartupStep

\* A running row always has a worker, or a process that is about to take it.
LEMMA OrphanAlways == Spec => [](TypeInv /\ OrphanInv)
<1>1. Init => OrphanInv
  BY DEF Init, OrphanInv, NewRow
<1>2. TypeInv /\ OrphanInv /\ [Next]_vars => OrphanInv'
  <2> SUFFICES ASSUME TypeInv, OrphanInv, [Next]_vars PROVE OrphanInv'
    OBVIOUS
  <2>1. CASE UNCHANGED vars
    BY <2>1, FrameOrphan DEF vars, dbVars, procVars, workVars, boundVars, Expected
  <2>2. CASE Tick
    <3>1. UNCHANGED <<pc, cur, phase, faults>>
      BY <2>2 DEF Tick, boundVars
    <3>2. \A j \in Instances : \A r \in Runs : todo[j][r] # None => todo'[j][r] # None
      BY <2>2, DownRowType, NullAssumption DEF Tick, TypeInv, TypeOK
    <3> QED
      BY <2>2, <3>1, <3>2, TickStatus, FrameOrphan DEF Expected
  <2>3. CASE Next /\ ~Tick
    BY <2>3, WorkerOrphan, ProcessOrphan DEF Next
  <2> QED
    BY <2>1, <2>2, <2>3
<1> QED
  BY <1>1, <1>2, TypeInit, TypeStep, PTL DEF Spec

\* A row that says running has a worker on it, unless a database write was lost
\* or a process is yet to start, with any number of processes and workers.
THEOREM NothingOrphaned == Spec => []NoOrphan
<1>1. OrphanInv => NoOrphan
  BY DEF OrphanInv, NoOrphan, Worked, Expected
<1> QED
  BY <1>1, OrphanAlways, PTL

-----------------------------------------------------------------------------
(* With one worker, the deadline a run waits for is the one its next step   *)
(* was parked with.                                                         *)

\* Step k is what run r waits for: the row carries the deadline of its log.
WaitsFor(r, k) ==
    /\ Plan[k] = "delay"
    /\ k \notin done[r]
    /\ \A j \in Durable : j < k => j \in done[r]
    /\ parked[r][k] # None
    /\ row[r].wake = parked[r][k]

Waits(r) == row[r].status = "waiting" => \E k \in Steps : WaitsFor(r, k)

\* The deadlines a worker read are those of the logs, where it has yet to go.
ParksCurrent(w) ==
    pc[w] \notin {"idle", "locked"} =>
        \A k \in Steps \ seen[w] : seenPark[w][k] = parked[cur[w]][k]

WaitInv == /\ \A w \in Workers : ParksCurrent(w)
           /\ \A r \in Runs : Waits(r)

\* A run keeps what it waits for while its row and its logs are left alone.
LEMMA WaitsStay ==
    ASSUME NEW r \in Runs, Waits(r),
           row'[r] = row[r] \/ row'[r].status # "waiting",
           done'[r] = done[r], parked'[r] = parked[r]
    PROVE  Waits(r)'
  BY DEF Waits, WaitsFor

\* The only worker goes on with a running row, or ends and leaves that row in
\* a status in which it waits for nothing it should not.
LEMMA WorkerWaits ==
    ASSUME SoleWorker, WaitInv, NEW w \in Workers, NEW c \in Runs,
           \A r \in Runs \ {c} : row'[r] = row[r] /\ done'[r] = done[r] /\ parked'[r] = parked[r],
           Waits(c)',
           ParksCurrent(w)'
    PROVE  WaitInv'
<1>1. \A v \in Workers : ParksCurrent(v)'
  BY SoleProcess
<1>2. ASSUME NEW r \in Runs PROVE Waits(r)'
  BY <1>2, WaitsStay DEF WaitInv
<1> QED
  BY <1>1, <1>2 DEF WaitInv

\* A step of the only worker keeps row and log of what a run waits for equal.
LEMMA WorkerWaiting ==
    ASSUME SoleWorker, TypeInv, OrderInv, SoleInv, WaitInv,
           NEW w \in Workers, WorkerStep(w) \/ WorkerFault(w)
    PROVE  WaitInv'
<1> USE DEF dbVars, procVars, workVars, boundVars
<1>t. /\ row \in [Runs -> Row] /\ pc \in [Workers -> {"idle", "locked", "walk", "ok",
                                                      "retryable", "fatal", "save"}]
      /\ cur \in [Workers -> Runs \cup {None}] /\ mem \in [Workers -> Row]
      /\ done \in [Runs -> SUBSET Steps] /\ parked \in [Runs -> [Steps -> Time]]
      /\ seen \in [Workers -> SUBSET Steps] /\ seenPark \in [Workers -> [Steps -> Time]]
  BY DEF TypeInv, TypeOK
<1>c. Active(w) => /\ cur[w] \in Runs /\ row[cur[w]].status = "running"
                   /\ mem[w].status = "running"
  BY DEF TypeInv, CurOK, SoleInv, OrderInv, MemRunning
<1>1. ASSUME NEW r \in Runs, Take(w, r) PROVE WaitInv'
  <2>1. pc'[w] = "locked" /\ UNCHANGED <<done, parked>>
    BY <1>1, <1>t DEF Take
  <2>2. /\ row'[r].status = "running"
        /\ \A q \in Runs \ {r} : row'[q] = row[q]
    BY <1>1, <1>t DEF Take, Save, Row
  <2> QED
    BY <2>1, <2>2, WorkerWaits DEF Waits, ParksCurrent
<1>2. ASSUME NEW r \in Runs, Drop(w, r) \/ LockFails(w, r) PROVE WaitInv'
  BY <1>2 DEF Drop, LockFails, WaitInv, Waits, WaitsFor, ParksCurrent
<1>3. ASSUME Load(w) PROVE WaitInv'
  <2>1. Active(w) /\ UNCHANGED <<row, done, parked, cur>> /\ seenPark'[w] = parked[cur[w]]
    BY <1>3, <1>t DEF Load, Active
  <2> QED
    BY <1>c, <2>1, WorkerWaits DEF Waits, ParksCurrent
<1>4. ASSUME \/ SaveDue(w)
             \/ \E k \in Steps : Execute(w, k) \/ CommitSuccess(w, k) \/ DueDelay(w, k)
      PROVE  WaitInv'
  <2>1. /\ Active(w) /\ pc[w] # "locked" /\ UNCHANGED <<parked, cur, seenPark>>
        /\ seen[w] \subseteq seen'[w]
    BY <1>4, <1>t DEF SaveDue, Execute, CommitSuccess, DueDelay, Reached, Active
  <2>2. \A q \in Runs \ {cur[w]} : row'[q] = row[q] /\ done'[q] = done[q]
    BY <1>4, <1>t DEF SaveDue, Execute, CommitSuccess, DueDelay, Save
  <2>3. row'[cur[w]].status = "running"
    <3>1. CASE SaveDue(w)
      BY <1>t, <1>c, <2>1, <3>1 DEF SaveDue, Save
    <3>2. CASE \E k \in Steps : Execute(w, k) \/ DueDelay(w, k)
      BY <1>c, <2>1, <3>2 DEF Execute, DueDelay
    <3>3. CASE \E k \in Steps : CommitSuccess(w, k)
      <4>1. mem'[w].status = "running"
        BY <1>t, <1>c, <2>1, <3>3 DEF CommitSuccess, Row
      <4> QED
        BY <1>t, <1>c, <2>1, <3>3, <4>1 DEF CommitSuccess, Save
    <3> QED
      BY <1>4, <3>1, <3>2, <3>3
  <2>4. ParksCurrent(w)'
    BY <2>1, <1>t DEF WaitInv, ParksCurrent, Active
  <2> QED
    BY <1>c, <2>1, <2>2, <2>3, <2>4, WorkerWaits DEF Waits
<1>5. ASSUME NEW k \in Steps, FinishDelay(w, k) PROVE WaitInv'
  <2>1. /\ Active(w) /\ pc[w] # "locked" /\ UNCHANGED <<cur, pc, seenPark>>
        /\ seen'[w] = seen[w] \cup {k}
    BY <1>5, <1>t DEF FinishDelay, Reached, Active
  <2>2. /\ \A q \in Runs \ {cur[w]} : /\ row'[q] = row[q] /\ done'[q] = done[q]
                                      /\ parked'[q] = parked[q]
        /\ \A j \in Steps \ {k} : parked'[cur[w]][j] = parked[cur[w]][j]
    BY <1>5, <1>t, <1>c, <2>1 DEF FinishDelay, Save
  <2>3. mem'[w].status = "running"
    BY <1>5, <1>t, <1>c, <2>1 DEF FinishDelay, Row
  <2>4. row'[cur[w]].status = "running"
    BY <1>5, <1>t, <1>c, <2>1, <2>3 DEF FinishDelay, Save
  <2>5. ParksCurrent(w)'
    BY <2>1, <2>2 DEF WaitInv, ParksCurrent, Active
  <2> QED
    BY <1>c, <2>1, <2>2, <2>4, <2>5, WorkerWaits DEF Waits
<1>6. ASSUME NEW k \in Steps, Park(w, k) \/ Repark(w, k) PROVE WaitInv'
  <2>1. /\ Active(w) /\ pc[w] = "walk" /\ UNCHANGED done /\ Plan[k] = "delay"
        /\ k \notin seen[w] /\ \A j \in 1..(k - 1) : j \in seen[w]
    BY <1>6 DEF Park, Repark, Reached, Active
  <2>c. PICK c \in Runs : c = cur[w]
    BY <1>c, <2>1
  <2>2. k \notin done[c]
    BY <2>c, <2>1 DEF SoleInv
  <2>3. \A j \in Durable : j < k => j \in done[c]
    <3>1. ASSUME NEW j \in Durable, j < k PROVE j \in 1..(k - 1)
      BY <3>1, PlanAssumption, LenProperties DEF Durable, Steps
    <3> QED
      BY <2>c, <2>1, <3>1 DEF OrderInv, SeenSound
  <2>4. \E t \in Time : /\ t # None /\ parked'[c][k] = t
                        /\ Save(c, [mem[w] EXCEPT !.status = "waiting", !.wake = t,
                                                       !.next = None])
    <3>1. CASE Park(w, k)
      BY <1>t, <2>c, <3>1, DelayAssumption, NoneAssumption DEF Park, Time
    <3>2. CASE Repark(w, k)
      <4>1. seenPark[w][k] = parked[c][k]
        BY <2>c, <2>1 DEF WaitInv, ParksCurrent
      <4> QED
        BY <1>t, <2>c, <3>2, <4>1 DEF Repark, Elapsed
    <3> QED
      BY <1>6, <3>1, <3>2
  <2>5. /\ row'[c].wake = parked'[c][k] /\ parked'[c][k] # None
        /\ \A q \in Runs \ {c} : row'[q] = row[q]
    BY <1>t, <2>4 DEF Save, Row
  <2>6. \A q \in Runs \ {c} : parked'[q] = parked[q]
    BY <1>6, <1>t, <2>c DEF Park, Repark
  <2>7. pc'[w] = "idle"
    BY <1>6, <1>t DEF Park, Repark, Finish
  <2>8. Waits(c)'
    BY <2>1, <2>2, <2>3, <2>5 DEF Waits, WaitsFor
  <2> QED
    BY <2>1, <2>5, <2>6, <2>7, <2>8, WorkerWaits DEF ParksCurrent
<1>7. ASSUME \/ CommitRetry(w) \/ CommitFailure(w) \/ Complete(w) \/ LoadFails(w) \/ Lost(w)
      PROVE  WaitInv'
  <2>1. Active(w) /\ UNCHANGED <<done, parked>> /\ pc'[w] = "idle"
    BY <1>7, <1>t DEF CommitRetry, CommitFailure, Complete, LoadFails, Lost, Finish, Active
  <2>2. UNCHANGED row \/ \E x : x.status # "waiting" /\ Save(cur[w], x)
    <3>1. CASE CommitRetry(w)
      <4> DEFINE x == [mem[w] EXCEPT !.status = "pending", !.retry = @ + 1,
                                     !.next = Backoff[mem[w].retry + 1]]
      <4>1. x.status = "pending"
        BY <1>t DEF Row
      <4>2. Save(cur[w], x)
        BY <3>1 DEF CommitRetry
      <4> HIDE DEF x
      <4> QED
        BY <4>1, <4>2
    <3>2. CASE CommitFailure(w) \/ Complete(w) \/ LoadFails(w)
      BY <1>t, <3>2 DEF CommitFailure, Complete, LoadFails, Row
    <3>3. CASE Lost(w)
      BY <3>3 DEF Lost
    <3> QED
      BY <1>7, <3>1, <3>2, <3>3
  <2>3. /\ \A q \in Runs \ {cur[w]} : row'[q] = row[q]
        /\ row'[cur[w]].status # "waiting"
    BY <1>t, <1>c, <2>1, <2>2 DEF Save
  <2> QED
    BY <1>c, <2>1, <2>3, WorkerWaits DEF Waits, ParksCurrent
<1> QED
  BY <1>1, <1>2, <1>3, <1>4, <1>5, <1>6, <1>7 DEF WorkerStep, WorkerFault

\* So does a step of a process: it only ends a wait.
LEMMA ProcessWaiting ==
    ASSUME TypeInv, WaitInv, NEW i \in Instances,
           \/ \E r \in Runs : Create(i, r) \/ RetryRun(i, r)
           \/ SchedulerStep(i)
           \/ StartupStep(i)
           \/ Crash(i)
    PROVE  WaitInv'
<1> USE DEF dbVars, procVars, workVars, boundVars
<1>t. row \in [Runs -> Row] /\ todo \in [Instances -> [Runs -> Row \cup {None}]]
  BY DEF TypeInv, TypeOK
<1>1. UNCHANGED <<done, parked>>
  BY DEF Create, RetryRun, SchedulerStep, Wake, SweepRetries, SweepPush, StartupStep, Start,
         ResetOne, LoadPending, RequeuePush, StartWorkers, Crash
<1>2. \A v \in Workers : pc'[v] = "idle" \/ ParksCurrent(v)'
  <2>1. CASE Crash(i)
    BY <1>1, <2>1 DEF Crash, WaitInv, ParksCurrent
  <2>2. CASE ~Crash(i)
    <3>1. UNCHANGED <<pc, cur, seen, seenPark>>
      BY <2>2 DEF Create, RetryRun, SchedulerStep, Wake, SweepRetries, SweepPush, StartupStep,
         Start, ResetOne, LoadPending, RequeuePush, StartWorkers
    <3> QED
      BY <1>1, <3>1 DEF WaitInv, ParksCurrent
  <2> QED
    BY <2>1, <2>2
<1>3. ASSUME NEW r \in Runs PROVE row'[r] = row[r] \/ row'[r].status # "waiting"
  <2>1. ASSUME NEW q \in Runs, NEW x, x.status = "pending", Save(q, x)
        PROVE  row'[r] = row[r] \/ row'[r].status # "waiting"
    BY <1>t, <2>1 DEF Save
  <2>2. CASE \E q \in Runs : Create(i, q)
    BY <2>1, <2>2 DEF Create, NewRow
  <2>3. CASE \E q \in Runs : RetryRun(i, q)
    <3>1. \A q \in Runs :
            [row[q] EXCEPT !.status = "pending", !.retry = 0, !.next = None].status = "pending"
      BY <1>t DEF Row
    <3> QED
      BY <2>1, <2>3, <3>1 DEF RetryRun
  <2>4. CASE \E q \in Runs : ResetOne(i, q)
    <3>1. \A q \in Runs : todo[i][q] # None =>
            [todo[i][q] EXCEPT !.status = "pending"].status = "pending"
      BY <1>t DEF Row
    <3> QED
      BY <2>1, <2>4, <3>1 DEF ResetOne
  <2>5. CASE Wake(i)
    <3>1. \A q \in Runs :
            [row[q] EXCEPT !.status = "pending", !.next = Skew, !.wake = None].status = "pending"
      BY <1>t DEF Row
    <3> QED
      BY <2>5, <3>1 DEF Wake
  <2>6. CASE \/ SweepRetries(i) \/ SweepPush(i) \/ Start(i) \/ LoadPending(i)
             \/ RequeuePush(i) \/ StartWorkers(i) \/ Crash(i)
    BY <2>6 DEF SweepRetries, SweepPush, Start, LoadPending, RequeuePush, StartWorkers, Crash
  <2> QED
    BY <2>2, <2>3, <2>4, <2>5, <2>6 DEF SchedulerStep, StartupStep
<1>4. \A r \in Runs : Waits(r)'
  BY <1>1, <1>3, WaitsStay DEF WaitInv
<1> QED
  BY <1>2, <1>4 DEF WaitInv, ParksCurrent

\* Time brings the row's deadline and the log's closer together.
LEMMA TickWaiting ==
    ASSUME TypeInv, WaitInv, Tick
    PROVE  WaitInv'
<1>t. /\ row \in [Runs -> Row] /\ parked \in [Runs -> [Steps -> Time]]
      /\ seenPark \in [Workers -> [Steps -> Time]]
  BY DEF TypeInv, TypeOK
<1>1. UNCHANGED <<done, pc, cur, seen>>
  BY DEF Tick
<1>2. \A r \in Runs : \A k \in Steps : parked'[r][k] = Down1(parked[r][k])
  BY DEF Tick
<1>3. \A t \in Time : t # None => Down1(t) # None
  BY NoneAssumption, SMT DEF Time, Down1
<1>4. ASSUME NEW w \in Workers PROVE ParksCurrent(w)'
  <2>1. \A k \in Steps : seenPark'[w][k] = Down1(seenPark[w][k])
    BY DEF Tick
  <2>2. pc[w] # "idle" => cur[w] \in Runs
    BY DEF TypeInv, CurOK, Active
  <2> QED
    BY <1>1, <1>2, <2>1, <2>2 DEF WaitInv, ParksCurrent
<1>5. ASSUME NEW r \in Runs, row'[r].status = "waiting" PROVE \E k \in Steps : WaitsFor(r, k)'
  <2>1. row[r].status = "waiting" /\ row'[r].wake = Down1(row[r].wake)
    <3>1. row[r].status = "waiting"
      BY <1>5, TickStatus
    <3>2. row'[r] = DownRow(row[r])
      BY DEF Tick
    <3>3. row[r] \in Row
      BY <1>t
    <3> QED
      BY <3>1, <3>2, <3>3 DEF DownRow, Row
  <2>2. PICK k \in Steps : WaitsFor(r, k)
    BY <2>1 DEF WaitInv, Waits
  <2>3. parked[r][k] \in Time
    BY <1>t
  <2> QED
    BY <1>1, <1>2, <1>3, <2>1, <2>2, <2>3 DEF WaitsFor
<1> QED
  BY <1>4, <1>5 DEF WaitInv, Waits

\* What a run waits for stays on record as long as it waits.
LEMMA WaitAlways ==
    ASSUME SoleWorker
    PROVE  Spec => [](TypeInv /\ OrderInv /\ WaitInv)
<1>1. Init => WaitInv
  BY DEF Init, WaitInv, Waits, ParksCurrent, NewRow
<1>2. TypeInv /\ OrderInv /\ SoleInv /\ WaitInv /\ [Next]_vars => WaitInv'
  <2> SUFFICES ASSUME TypeInv, OrderInv, SoleInv, WaitInv, [Next]_vars PROVE WaitInv'
    OBVIOUS
  <2>1. CASE UNCHANGED vars
    BY <2>1 DEF vars, dbVars, procVars, workVars, boundVars, WaitInv, Waits, WaitsFor,
       ParksCurrent
  <2>2. CASE Tick
    BY <2>2, TickWaiting
  <2>3. CASE Next /\ ~Tick
    BY <2>3, WorkerWaiting, ProcessWaiting DEF Next
  <2> QED
    BY <2>1, <2>2, <2>3
<1> QED
  BY <1>1, <1>2, SoleAlways, PTL DEF Spec

\* With one worker, a waiting row carries the deadline its next step was parked
\* with, whatever was retried, resumed, lost or reset in between.
THEOREM WaitsAreTimed ==
    ASSUME SoleWorker
    PROVE  Spec => []WaitingMatchesLog
<1>1. WaitInv => WaitingMatchesLog
  BY DEF WaitInv, Waits, WaitsFor, WaitingMatchesLog
<1> QED
  BY <1>1, WaitAlways, PTL

\* With one worker, a delay ends no earlier than it was to, however far the
\* database's clock, by which it is woken, is ahead.
THEOREM DelaysAreHonored ==
    ASSUME SoleWorker
    PROVE  Spec => DelayHonored
<1>1. TypeInv /\ OrderInv /\ WaitInv /\ [Next]_vars =>
        [\A r \in Runs : \A k \in Steps :
            Plan[k] = "delay" /\ k \in done'[r] \ done[r] => parked[r][k] = 0]_vars
  <2> SUFFICES ASSUME TypeInv, OrderInv, WaitInv, Next, NEW r \in Runs, NEW k \in Steps,
                      Plan[k] = "delay", k \in done'[r], k \notin done[r]
               PROVE  parked[r][k] = 0
    OBVIOUS
  <2>t. done \in [Runs -> SUBSET Steps]
    BY DEF TypeInv, TypeOK
  <2>1. ASSUME NEW w \in Workers, NEW l \in Steps, FinishDelay(w, l)
        PROVE  parked[r][k] = 0
    <3>1. l \in Steps \ seen[w] /\ pc[w] = "walk" /\ seenPark[w][l] = 0
      BY <2>1 DEF FinishDelay, Reached
    <3>2. parked[cur[w]][l] = 0
      BY <3>1 DEF WaitInv, ParksCurrent
    <3>3. r = cur[w] /\ k = l
      BY <2>1, <2>t DEF FinishDelay
    <3> QED
      BY <3>2, <3>3
  <2>2. ASSUME NEW w \in Workers, NEW l \in Steps, CommitSuccess(w, l)
        PROVE  FALSE
    <3>1. r = cur[w] /\ k = l
      BY <2>2, <2>t DEF CommitSuccess
    <3>2. Plan[l] = "action"
      BY <2>2 DEF CommitSuccess, OrderInv, ExecutedSound
    <3> QED
      BY <3>1, <3>2
  <2>3. ASSUME NEW w \in Workers, NEW l \in Steps, DueDelay(w, l)
        PROVE  FALSE
    <3>1. Plan[l] = "due" /\ k = l
      BY <2>3, <2>t DEF DueDelay
    <3> QED
      BY <3>1
  <2>4. ASSUME NEW w \in Workers, WorkerStep(w) \/ WorkerFault(w),
               ~\E l \in Steps : FinishDelay(w, l) \/ CommitSuccess(w, l) \/ DueDelay(w, l)
        PROVE  done' = done
    BY <2>4 DEF WorkerStep, WorkerFault, Take, Drop, LockFails, Load, LoadFails, Execute,
       CommitRetry, CommitFailure, SaveDue, Park, Repark, Complete, Lost, dbVars
  <2>5. ASSUME NEW i \in Instances,
               \/ \E q \in Runs : Create(i, q) \/ RetryRun(i, q)
               \/ SchedulerStep(i) \/ StartupStep(i) \/ Crash(i)
        PROVE  done' = done
    BY <2>5 DEF Create, RetryRun, SchedulerStep, Wake, SweepRetries, SweepPush, StartupStep,
       Start, ResetOne, LoadPending, RequeuePush, StartWorkers, Crash, dbVars
  <2>6. Tick => done' = done
    BY DEF Tick
  <2> QED
    BY <2>1, <2>2, <2>3, <2>4, <2>5, <2>6 DEF Next
<1> QED
  BY <1>1, WaitAlways, PTL DEF Spec, DelayHonored

=============================================================================
