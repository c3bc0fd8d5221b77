------------------------- MODULE SequenceFeedProofs -------------------------
(***************************************************************************)
(* Proofs about SequenceFeed, for any contacts, segments, enrollments,      *)
(* server processes and page size.                                          *)
(***************************************************************************)
EXTENDS SequenceFeed, FiniteSetTheorems, WellFoundedInduction, TLAPS

-----------------------------------------------------------------------------
(* Type correctness.                                                        *)

\* A feeder is at an enrollment.
Working == {"resolve", "enroll", "count", "advance", "complete"}

\* What feeders and ticks hold are enrollments that were made, of a segment.
Shape ==
    /\ \A j \in Jobs : job[j].status # "none" =>
            job[j].segment \in Segments /\ steady[j] \subseteq members[job[j].segment]
    /\ \A f \in Feeders : feed[f].step \in Working =>
            feed[f].job \in Jobs /\ job[feed[f].job].status # "none"
    /\ \A f \in Feeders : \A e \in todo[f] : job[e.job].status # "none"

TypeInv == TypeOK /\ Shape

\* The locals a feeder starts a step with are locals (Outside, Load).
LEMMA LocalTypes ==
    /\ \A s \in Steps : Outside(s) \in Local
    /\ \A e \in Entry : [Outside("resolve") EXCEPT
            !.job = e.job, !.cursor = e.cursor, !.lastOK = e.cursor] \in Local
<1>1. \A s \in Steps : Outside(s) \in Local
  BY DEF Outside, Local
<1>2. Outside("resolve") \in Local
  BY <1>1 DEF Steps
<1>3. ASSUME NEW e \in Entry
      PROVE  [Outside("resolve") EXCEPT
                !.job = e.job, !.cursor = e.cursor, !.lastOK = e.cursor] \in Local
  BY <1>2 DEF Local, Entry
<1> QED
  BY <1>1, <1>3

\* What a step does to the locals leaves locals (Resolve, Enroll, AfterPage, Count).
LEMMA LocalUpdates ==
    ASSUME NEW x \in Local
    PROVE  /\ \A r \in SUBSET Contacts : \A s \in Steps :
                [x EXCEPT !.rows = r, !.step = s] \in Local
           /\ \A r \in SUBSET Contacts : \A c \in Contacts : \A n \in Nat :
                [x EXCEPT !.rows = r, !.lastOK = c, !.enrolled = n] \in Local
           /\ AfterPage(x) \in Local
           /\ \A s \in Steps : [x EXCEPT !.step = s, !.enrolled = 0] \in Local
<1>1. "next" \in Steps /\ "count" \in Steps /\ "advance" \in Steps
  BY DEF Steps
<1>2. AfterPage(x) \in Local
  BY <1>1, LocalTypes DEF AfterPage, Local
<1> QED
  BY <1>2 DEF Local

\* A write to an enrollment leaves an enrollment (Cancel, Load, Count, Advance, Complete).
LEMMA JobUpdates ==
    ASSUME NEW x \in Job
    PROVE  /\ \A s \in Statuses : [x EXCEPT !.status = s] \in Job
           /\ \A n \in Nat : [x EXCEPT !.count = n] \in Job
           /\ \A c \in Contacts \cup {NoCursor} : [x EXCEPT !.cursor = c] \in Job
BY DEF Job

\* The initial state has its types.
LEMMA TypeInit == Init => TypeInv
<1> SUFFICES ASSUME Init PROVE TypeInv
  OBVIOUS
<1>1. NoJob \in Job
  BY DEF NoJob, Job, Statuses
<1>2. Outside("down") \in Local
  BY LocalTypes DEF Steps
<1>3. TypeOK
  BY <1>1, <1>2, BoundAssumption DEF Init, TypeOK
<1>4. Shape
  BY DEF Init, Shape, NoJob, Outside, Working
<1> QED
  BY <1>3, <1>4 DEF TypeInv

\* The statements of the feeder write an enrollment or nothing.
LEMMA WhileActiveType ==
    ASSUME TypeOK, NEW j, NEW row \in Job
    PROVE  WhileActive(j, row) \in [Jobs -> Job]
BY DEF WhileActive, TypeOK

\* The page of an enrollment's segment holds contacts.
LEMMA PageType ==
    ASSUME TypeInv, NEW f \in Feeders, feed[f].step \in Working
    PROVE  NextPage(job[feed[f].job].segment, feed[f].cursor) \in SUBSET Contacts
<1>1. job[feed[f].job].segment \in Segments
  BY DEF TypeInv, Shape
<1> QED
  BY <1>1 DEF NextPage, Behind, TypeInv, TypeOK

\* So does a claim.
LEMMA ClaimType ==
    ASSUME TypeOK, NEW f \in Feeders, NEW c \in Contacts,
           ClaimAndRun(c, feed[f].job) \/ UNCHANGED <<claims, run, times, by>>
    PROVE  /\ claims' \subseteq Contacts
           /\ run' \in [Contacts -> {"none", "live", "done"}]
           /\ times' \in [Contacts -> Nat]
           /\ by' \in [Contacts -> Jobs \cup {Nobody}]
<1>1. feed[f].job \in Jobs \cup {Nobody}
  BY DEF TypeOK, Local
<1>2. CASE ClaimAndRun(c, feed[f].job)
  BY <1>1, <1>2 DEF ClaimAndRun, TypeOK
<1>3. CASE UNCHANGED <<claims, run, times, by>>
  BY <1>3 DEF TypeOK
<1> QED
  BY <1>2, <1>3

\* What the API, the contacts, the engine and the pruner do keeps the types.
LEMMA WorldType ==
    ASSUME TypeInv,
           \/ \E j \in Jobs : Cancel(j) \/ \E s \in Segments : Create(j, s)
           \/ Toggle \/ SoftDelete
           \/ \E c \in Contacts : Finish(c) \/ \E s \in Segments : Join(c, s) \/ Leave(c, s)
           \/ \E old \in SUBSET Contacts : Prune(old)
    PROVE  TypeInv'
<1> USE DEF TypeInv
<1>1. ASSUME NEW j \in Jobs, Cancel(j) PROVE TypeInv'
  <2>1. job' \in [Jobs -> Job]
    BY <1>1, JobUpdates DEF Cancel, TypeOK, Statuses
  <2>2. TypeOK'
    BY <1>1, <2>1 DEF Cancel, TypeOK, feederVars, worldVars, faultVars
  <2>3. Shape'
    BY <1>1 DEF Cancel, Shape, TypeOK, Entry, Job, feederVars, worldVars
  <2> QED
    BY <2>2, <2>3
<1>2. ASSUME NEW j \in Jobs, NEW s \in Segments, Create(j, s) PROVE TypeInv'
  <2>1. job' \in [Jobs -> Job] /\ steady' \in [Jobs -> SUBSET Contacts]
    BY <1>2 DEF Create, TypeOK, Job, Statuses
  <2>2. TypeOK'
    BY <1>2, <2>1 DEF Create, TypeOK, feederVars, worldVars, faultVars
  <2>3. job'[j].status # "none" /\ job'[j].segment = s /\ steady'[j] = members'[s]
    BY <1>2 DEF Create, TypeOK, worldVars
  <2>4. \A k \in Jobs : k # j => job'[k] = job[k] /\ steady'[k] = steady[k]
    BY <1>2 DEF Create, TypeOK
  <2>5. Shape'
    BY <1>2, <2>3, <2>4 DEF Create, Shape, TypeOK, Entry, feederVars, worldVars
  <2> QED
    BY <2>2, <2>5
<1>3. CASE Toggle \/ SoftDelete
  <2>1. TypeOK'
    BY <1>3, BoundAssumption DEF Toggle, SoftDelete, TypeOK, tableVars, feederVars, faultVars
  <2>2. Shape'
    BY <1>3 DEF Toggle, SoftDelete, Shape, tableVars, feederVars
  <2> QED
    BY <2>1, <2>2
<1>4. ASSUME NEW c \in Contacts, Finish(c) PROVE TypeInv'
  <2>1. TypeOK'
    BY <1>4 DEF Finish, TypeOK, feederVars, worldVars, faultVars
  <2>2. Shape'
    BY <1>4 DEF Finish, Shape, feederVars, worldVars
  <2> QED
    BY <2>1, <2>2
<1>5. ASSUME NEW c \in Contacts, NEW s \in Segments, Join(c, s) PROVE TypeInv'
  <2>1. TypeOK'
    BY <1>5, BoundAssumption DEF Join, TypeOK, tableVars, feederVars, faultVars
  <2>2. \A t \in Segments : members[t] \subseteq members'[t]
    BY <1>5 DEF Join, TypeOK
  <2>3. Shape'
    BY <1>5, <2>2 DEF Join, Shape, tableVars, feederVars
  <2> QED
    BY <2>1, <2>3
<1>6. ASSUME NEW c \in Contacts, NEW s \in Segments, Leave(c, s) PROVE TypeInv'
  <2>1. TypeOK'
    BY <1>6, BoundAssumption DEF Leave, TypeOK, feederVars, faultVars
  <2>2. \A t \in Segments : members'[t] = IF t = s THEN members[t] \ {c} ELSE members[t]
    BY <1>6 DEF Leave, TypeOK
  <2>3. \A k \in Jobs : steady'[k] = IF job[k].segment = s THEN steady[k] \ {c} ELSE steady[k]
    BY <1>6 DEF Leave
  <2>4. Shape'
    BY <1>6, <2>2, <2>3 DEF Leave, Shape, feederVars
  <2> QED
    BY <2>1, <2>4
<1>7. ASSUME NEW old \in SUBSET Contacts, Prune(old) PROVE TypeInv'
  <2>1. TypeOK'
    BY <1>7 DEF Prune, TypeOK, feederVars, worldVars, faultVars
  <2>2. Shape'
    BY <1>7 DEF Prune, Shape, feederVars, worldVars
  <2> QED
    BY <2>1, <2>2
<1> QED
  BY <1>1, <1>2, <1>3, <1>4, <1>5, <1>6, <1>7

\* A write of the feeder changes an active enrollment, never what it is for.
LEMMA WritesKeep ==
    ASSUME TypeOK, NEW j \in Jobs, NEW row \in Job,
           row.segment = job[j].segment, row.status # "none",
           job' = WhileActive(j, row)
    PROVE  \A k \in Jobs : /\ job'[k].segment = job[k].segment
                           /\ job'[k].status = "none" <=> job[k].status = "none"
BY DEF WhileActive, TypeOK

\* The rows of job that the feeder's steps write.
LEMMA FeederWrites ==
    ASSUME TypeInv, NEW f \in Feeders, FeederStep(f) \/ Crash(f)
    PROVE  /\ job' \in [Jobs -> Job]
           /\ \A k \in Jobs : /\ job'[k].segment = job[k].segment
                              /\ job'[k].status = "none" <=> job[k].status = "none"
<1> USE DEF TypeInv
<1>1. CASE UNCHANGED job
  BY <1>1 DEF TypeOK
<1>2. ASSUME NEW e \in Entry, Load(f, e) PROVE
           /\ job' \in [Jobs -> Job]
           /\ \A k \in Jobs : /\ job'[k].segment = job[k].segment
                              /\ job'[k].status = "none" <=> job[k].status = "none"
  <2> DEFINE row == [job[e.job] EXCEPT !.status = "blocked"]
  <2>1. CASE UNCHANGED job
    BY <2>1, <1>1
  <2>2. CASE job' = WhileActive(e.job, row)
    <3>1. e.job \in Jobs /\ job[e.job] \in Job
      BY DEF Entry, TypeOK
    <3>2. row \in Job /\ row.segment = job[e.job].segment /\ row.status # "none"
      BY <3>1, JobUpdates DEF Statuses, Job
    <3> HIDE DEF row
    <3> QED
      BY <2>2, <3>1, <3>2, WritesKeep, WhileActiveType
  <2> QED
    BY <1>2, <2>1, <2>2 DEF Load
<1>3. CASE Count(f) \/ Advance(f) \/ Complete(f)
  <2> DEFINE j == feed[f].job
             counted == [job[j] EXCEPT !.count = @ + feed[f].enrolled]
             moved == [job[j] EXCEPT !.cursor = feed[f].lastOK]
             ended == [job[j] EXCEPT !.status = "completed"]
  <2>1. \/ UNCHANGED job
        \/ job' = WhileActive(j, counted) \/ job' = WhileActive(j, moved)
        \/ job' = WhileActive(j, ended)
    BY <1>3 DEF Count, Advance, Complete
  <2>2. j \in Jobs /\ job[j] \in Job /\ job[j].status # "none"
    BY <1>3 DEF Count, Advance, Complete, Shape, Working, TypeOK
  <2>3. feed[f].enrolled \in Nat /\ feed[f].lastOK \in Contacts \cup {NoCursor}
    BY DEF TypeOK, Local
  <2>4. counted \in Job /\ counted.segment = job[j].segment /\ counted.status # "none"
    BY <2>2, <2>3 DEF Job
  <2>5. moved \in Job /\ moved.segment = job[j].segment /\ moved.status # "none"
    BY <2>2, <2>3 DEF Job
  <2>6. ended \in Job /\ ended.segment = job[j].segment /\ ended.status # "none"
    BY <2>2 DEF Job, Statuses
  <2> HIDE DEF counted, moved, ended, j
  <2> QED
    BY <1>1, <2>1, <2>2, <2>4, <2>5, <2>6, WritesKeep, WhileActiveType
<1>4. Boot(f) \/ Tick(f) \/ TickEnds(f) \/ Resolve(f) \/ Crash(f) => UNCHANGED job
  BY DEF Boot, Tick, TickEnds, Resolve, Crash, tableVars
<1>5. ASSUME NEW c \in Contacts, Enroll(f, c) \/ EnrollFails(f, c) PROVE UNCHANGED job
  BY <1>5 DEF Enroll, EnrollFails
<1> QED
  BY <1>1, <1>2, <1>3, <1>4, <1>5 DEF FeederStep

\* What a feeder holds after its step, and what it leaves to take.
LEMMA FeederHolds ==
    ASSUME TypeInv, NEW f \in Feeders, FeederStep(f) \/ Crash(f)
    PROVE  /\ \E x \in Local : /\ feed' = [feed EXCEPT ![f] = x]
                               /\ x.step \in Working => x.job \in Jobs /\ job[x.job].status # "none"
           /\ \E t \in SUBSET Entry : /\ todo' = [todo EXCEPT ![f] = t]
                                      /\ \A e \in t : job[e.job].status # "none"
<1> DEFINE GoodLocal(x) == /\ x \in Local
                           /\ x.step \in Working => x.job \in Jobs /\ job[x.job].status # "none"
           GoodTodo(t) == t \in SUBSET Entry /\ \A e \in t : job[e.job].status # "none"
           Good == /\ \E x \in Local : feed' = [feed EXCEPT ![f] = x] /\ GoodLocal(x)
                   /\ \E t \in SUBSET Entry : todo' = [todo EXCEPT ![f] = t] /\ GoodTodo(t)
<1> USE DEF TypeInv
<1>1. /\ feed[f] \in Local /\ todo[f] \in SUBSET Entry
      /\ feed = [feed EXCEPT ![f] = feed[f]]
      /\ todo = [todo EXCEPT ![f] = todo[f]]
      /\ GoodLocal(feed[f]) /\ GoodTodo(todo[f])
  BY DEF TypeOK, Shape
<1>2. \A s \in Steps \ Working : GoodLocal(Outside(s)) /\ Outside(s) \in Local
  BY LocalTypes DEF Outside
<1>3. {"down", "idle", "next"} \subseteq Steps \ Working
  BY DEF Steps, Working
<1>4. GoodTodo({})
  OBVIOUS
<1>5. ASSUME Boot(f) \/ TickEnds(f) \/ Crash(f) PROVE Good
  <2>1. feed' = [feed EXCEPT ![f] = Outside("idle")] \/ feed' = [feed EXCEPT ![f] = Outside("down")]
    BY <1>5 DEF Boot, TickEnds, Crash
  <2>2. todo' = todo \/ todo' = [todo EXCEPT ![f] = {}]
    BY <1>5 DEF Boot, TickEnds, Crash
  <2> HIDE DEF GoodLocal, GoodTodo
  <2> QED
    BY <1>1, <1>2, <1>3, <1>4, <1>5, <2>1, <2>2
<1>6. ASSUME Tick(f) PROVE Good
  <2> DEFINE t == {[job |-> j, cursor |-> job[j].cursor] :
                      j \in {k \in Jobs : job[k].status = "active"}}
  <2>1. GoodTodo(t)
    BY DEF Entry, TypeOK, Job
  <2>2. feed' = [feed EXCEPT ![f] = Outside("next")] /\ todo' = [todo EXCEPT ![f] = t]
    BY <1>6 DEF Tick
  <2>3. t \in SUBSET Entry
    BY <2>1
  <2> HIDE DEF GoodLocal, GoodTodo, t
  <2> QED
    BY <1>2, <1>3, <2>1, <2>2, <2>3
<1>7. ASSUME NEW e \in Entry, Load(f, e) PROVE Good
  <2> DEFINE x == [Outside("resolve") EXCEPT !.job = e.job, !.cursor = e.cursor, !.lastOK = e.cursor]
  <2>1. e \in todo[f]
    BY <1>7 DEF Load
  <2>2. GoodLocal(x)
    BY <2>1, LocalTypes DEF Outside, Shape, Entry
  <2>3. GoodTodo(todo[f] \ {e})
    BY <1>1
  <2>4. /\ todo' = [todo EXCEPT ![f] = todo[f] \ {e}]
        /\ feed' = [feed EXCEPT ![f] = x] \/ feed' = feed
    BY <1>7 DEF Load
  <2>5. x \in Local /\ todo[f] \ {e} \in SUBSET Entry
    BY <2>2, <2>3
  <2> HIDE DEF GoodLocal, GoodTodo, x
  <2> QED
    BY <1>1, <2>2, <2>3, <2>4, <2>5
<1>8. ASSUME Resolve(f) PROVE Good
  <2> DEFINE rows == NextPage(job[feed[f].job].segment, feed[f].cursor)
             s == IF IsEnd(rows) THEN "complete" ELSE "enroll"
             x == [feed[f] EXCEPT !.rows = rows, !.step = s]
  <2>1. feed[f].step \in Working /\ s \in Steps
    BY <1>8 DEF Resolve, Working, Steps
  <2>2. rows \in SUBSET Contacts
    BY <2>1, PageType
  <2>3. feed' = [feed EXCEPT ![f] = x] \/ feed' = [feed EXCEPT ![f] = Outside("next")]
    BY <1>8 DEF Resolve
  <2>4. x \in Local /\ x.job = feed[f].job
    <3>1. x \in Local
      BY <1>1, <2>1, <2>2, LocalUpdates
    <3> QED
      BY <1>1, <3>1 DEF Local
  <2>5. GoodLocal(x)
    BY <2>1, <2>4, <1>1
  <2>6. todo' = todo
    BY <1>8 DEF Resolve
  <2> HIDE DEF GoodLocal, GoodTodo, x
  <2> QED
    BY <1>1, <1>2, <1>3, <2>3, <2>4, <2>5, <2>6
<1>9. ASSUME NEW c \in Contacts, Enroll(f, c) \/ EnrollFails(f, c) PROVE Good
  <2> DEFINE local == [feed[f] EXCEPT !.rows = @ \ {c}, !.lastOK = c, !.enrolled = @ + Gained(c)]
  <2>1. feed[f].step \in Working
    BY <1>9 DEF Enroll, EnrollFails, Working
  <2>2. local \in Local /\ local.job = feed[f].job /\ local.step = feed[f].step
    <3>1. feed[f].enrolled + Gained(c) \in Nat /\ feed[f].rows \ {c} \in SUBSET Contacts
      BY <1>1 DEF Gained, Local
    <3> QED
      BY <1>1, <3>1 DEF Local
  <2>3. \A y \in Local : y.step \in Working /\ GoodLocal(y) =>
            AfterPage(y) \in Local /\ GoodLocal(AfterPage(y))
    <3> TAKE y \in Local
    <3> HAVE y.step \in Working /\ GoodLocal(y)
    <3>1. AfterPage(y) \in Local
      BY LocalUpdates
    <3>2. AfterPage(y) = Outside("next") \/ AfterPage(y).job = y.job
      BY DEF AfterPage, Local
    <3> QED
      BY <3>1, <3>2, <1>2, <1>3
  <2>4. GoodLocal(local)
    BY <1>1, <2>1, <2>2
  <2>5. \/ feed' = [feed EXCEPT ![f] = AfterPage(local)]
        \/ feed' = [feed EXCEPT ![f] = local]
        \/ feed' = [feed EXCEPT ![f] = AfterPage(feed[f])]
    BY <1>9 DEF Enroll, EnrollFails
  <2>6. todo' = todo
    BY <1>9 DEF Enroll, EnrollFails
  <2> HIDE DEF GoodLocal, GoodTodo, local
  <2> QED
    BY <1>1, <2>1, <2>2, <2>3, <2>4, <2>5, <2>6
<1>10. ASSUME Count(f) \/ Advance(f) \/ Complete(f) PROVE Good
  <2> DEFINE x == [feed[f] EXCEPT !.step = "advance", !.enrolled = 0]
  <2>1. feed' = [feed EXCEPT ![f] = x] \/ feed' = [feed EXCEPT ![f] = Outside("next")]
    BY <1>10 DEF Count, Advance, Complete
  <2>2. x \in Local /\ x.job = feed[f].job
    <3>1. "advance" \in Steps
      BY DEF Steps
    <3> QED
      BY <1>1, <3>1 DEF Local
  <2>3. GoodLocal(x)
    BY <1>1, <1>10, <2>2 DEF Count, Advance, Complete, Working
  <2>4. todo' = todo
    BY <1>10 DEF Count, Advance, Complete
  <2> HIDE DEF GoodLocal, GoodTodo, x
  <2> QED
    BY <1>1, <1>2, <1>3, <2>1, <2>2, <2>3, <2>4
<1>11. Good
  BY <1>5, <1>6, <1>7, <1>8, <1>9, <1>10 DEF FeederStep
<1> QED
  BY <1>11

\* What a feeder does keeps the types.
LEMMA FeederType ==
    ASSUME TypeInv, NEW f \in Feeders, FeederStep(f) \/ Crash(f)
    PROVE  TypeInv'
<1>1. PICK x \in Local : /\ feed' = [feed EXCEPT ![f] = x]
                         /\ x.step \in Working => x.job \in Jobs /\ job[x.job].status # "none"
  BY FeederHolds
<1>2. PICK t \in SUBSET Entry : /\ todo' = [todo EXCEPT ![f] = t]
                               /\ \A e \in t : job[e.job].status # "none"
  BY FeederHolds
<1>3. /\ job' \in [Jobs -> Job]
      /\ \A k \in Jobs : /\ job'[k].segment = job[k].segment
                         /\ job'[k].status = "none" <=> job[k].status = "none"
  BY FeederWrites
<1>4. UNCHANGED <<workflow, members, churn, toggles, steady>>
  BY DEF FeederStep, Boot, Tick, TickEnds, Load, Resolve, Enroll, EnrollFails, Count, Advance,
         Complete, Crash, tableVars, worldVars
<1>5. /\ claims' \subseteq Contacts
      /\ run' \in [Contacts -> {"none", "live", "done"}]
      /\ times' \in [Contacts -> Nat]
      /\ by' \in [Contacts -> Jobs \cup {Nobody}]
  <2>1. CASE Boot(f)
    BY <2>1 DEF Boot, TypeInv, TypeOK
  <2>2. ASSUME NEW c \in Contacts, Enroll(f, c) \/ EnrollFails(f, c)
        PROVE  ClaimAndRun(c, feed[f].job) \/ UNCHANGED <<claims, run, times, by>>
    BY <2>2 DEF Enroll, EnrollFails
  <2>3. CASE UNCHANGED <<claims, run, times, by>>
    BY <2>3 DEF TypeInv, TypeOK
  <2>4. Tick(f) \/ TickEnds(f) \/ (\E e \in Entry : Load(f, e)) \/ Resolve(f) \/ Count(f)
           \/ Advance(f) \/ Complete(f) \/ Crash(f) => UNCHANGED <<claims, run, times, by>>
    BY DEF Tick, TickEnds, Load, Resolve, Count, Advance, Complete, Crash, tableVars
  <2> QED
    BY <2>1, <2>2, <2>3, <2>4, ClaimType DEF FeederStep, TypeInv
<1>6. faults' \in 0..MaxFaults /\ crashes' \in 0..MaxCrashes
  <2>1. faults' = faults \/ Fault
    BY DEF FeederStep, Boot, Tick, TickEnds, Load, Resolve, Enroll, EnrollFails, Count, Advance,
           Complete, Crash, NoFault, faultVars
  <2>2. crashes' = crashes \/ Crash(f)
    BY DEF FeederStep, Boot, Tick, TickEnds, Load, Resolve, Enroll, EnrollFails, Count, Advance,
           Complete, Crash, faultVars
  <2> QED
    BY <2>1, <2>2, BoundAssumption DEF Fault, Crash, TypeInv, TypeOK
<1>7. TypeOK'
  BY <1>1, <1>2, <1>3, <1>4, <1>5, <1>6 DEF TypeInv, TypeOK
<1>8. Shape'
  <2>1. \A j \in Jobs : job'[j].status # "none" =>
            job'[j].segment \in Segments /\ steady'[j] \subseteq members'[job'[j].segment]
    BY <1>3, <1>4 DEF TypeInv, Shape
  <2>2. ASSUME NEW g \in Feeders, feed'[g].step \in Working
        PROVE  feed'[g].job \in Jobs /\ job'[feed'[g].job].status # "none"
    BY <2>2, <1>1, <1>3 DEF TypeInv, TypeOK, Shape
  <2>3. ASSUME NEW g \in Feeders, NEW e \in todo'[g]
        PROVE  job'[e.job].status # "none"
    <3>1. e \in Entry /\ e.job \in Jobs
      BY <2>3, <1>7 DEF TypeOK, Entry
    <3> QED
      BY <2>3, <3>1, <1>2, <1>3 DEF TypeInv, TypeOK, Shape
  <2> QED
    BY <2>1, <2>2, <2>3 DEF Shape
<1> QED
  BY <1>7, <1>8 DEF TypeInv

\* Every step keeps the types.
LEMMA TypeStep == TypeInv /\ [Next]_vars => TypeInv'
<1>1. TypeInv /\ Next => TypeInv'
  BY WorldType, FeederType DEF Next
<1>2. TypeInv /\ UNCHANGED vars => TypeInv'
  BY DEF TypeInv, TypeOK, Shape, vars, tableVars, feederVars, worldVars, faultVars
<1> QED
  BY <1>1, <1>2

\* The types always hold.
LEMMA TypeAlways == Spec => []TypeInv
BY TypeInit, TypeStep, PTL DEF Spec

\* Type correctness of the enrollments, claims, runs and feeders of
\* sequence_repository.go and sequence_feeder.go.
THEOREM SequenceTypeCorrect == Spec => []TypeOK
<1>1. TypeInv => TypeOK
  BY DEF TypeInv
<1> QED
  BY <1>1, TypeAlways, PTL

-----------------------------------------------------------------------------
(* At most one enrollment of a contact.                                     *)
(*                                                                          *)
(* A claim is the only lasting evidence of an enrollment, since the pruner  *)
(* deletes runs. The invariant says that whoever was enrolled has a claim   *)
(* or still has the run, and that the claims are complete as soon as a      *)
(* process is up: the pruner and the feeder only run then.                  *)

Enrolled(c) == c \in claims \/ run[c] # "none"
Evidence == \A c \in Contacts : Enrolled(c) => times[c] > 0
Proven == \A c \in Contacts : times[c] > 0 => Enrolled(c)
Backfilled == \A f \in Feeders : feed[f].step # "down" =>
                 \A c \in Contacts : run[c] # "none" => c \in claims
OnceInv == EnrolledOnce /\ Proven /\ Backfilled

\* A claim of a contact that had no evidence is the only new enrollment.
LEMMA ClaimCounts ==
    ASSUME TypeOK, NEW c \in Contacts, NEW j, ClaimAndRun(c, j)
    PROVE  /\ claims' = claims \cup {c}
           /\ \A d \in Contacts : d # c \/ Enrolled(d) => run'[d] = run[d] /\ times'[d] = times[d]
           /\ ~Enrolled(c) => run'[c] = "live" /\ times'[c] = times[c] + 1
BY DEF ClaimAndRun, Inserts, Enrolled, TypeOK

\* Who has evidence was enrolled, whether a backfill failed or not.
LEMMA EvidenceKept ==
    ASSUME TypeInv, Evidence, [Next]_vars
    PROVE  Evidence' /\ \A c \in Contacts : times'[c] >= times[c]
<1> USE DEF TypeInv
<1>1. CASE UNCHANGED <<claims, run, times>>
  BY <1>1 DEF Evidence, Enrolled, TypeOK
<1>2. ASSUME NEW c \in Contacts, NEW j, ClaimAndRun(c, j)
      PROVE  Evidence' /\ \A d \in Contacts : times'[d] >= times[d]
  BY <1>2, ClaimCounts DEF Evidence, Enrolled, TypeOK
<1>3. ASSUME NEW f \in Feeders, Boot(f)
      PROVE  Evidence' /\ \A c \in Contacts : times'[c] >= times[c]
  BY <1>3 DEF Boot, Evidence, Enrolled, TypeOK
<1>4. ASSUME NEW c \in Contacts, Finish(c)
      PROVE  Evidence' /\ \A d \in Contacts : times'[d] >= times[d]
  BY <1>4 DEF Finish, Evidence, Enrolled, TypeOK
<1>5. ASSUME NEW old \in SUBSET Contacts, Prune(old)
      PROVE  Evidence' /\ \A c \in Contacts : times'[c] >= times[c]
  BY <1>5 DEF Prune, Evidence, Enrolled, TypeOK
<1>6. ASSUME NEW f \in Feeders, FeederStep(f) \/ Crash(f)
      PROVE  \/ UNCHANGED <<claims, run, times>> \/ Boot(f)
             \/ \E c \in Contacts : ClaimAndRun(c, feed[f].job)
  BY <1>6 DEF FeederStep, Tick, TickEnds, Load, Resolve, Enroll, EnrollFails, Count, Advance,
              Complete, Crash, tableVars
<1>7. CASE UNCHANGED vars
  BY <1>1, <1>7 DEF vars, tableVars
<1>8. CASE \/ \E j \in Jobs : Cancel(j) \/ \E s \in Segments : Create(j, s)
           \/ Toggle \/ SoftDelete
           \/ \E c \in Contacts : \E s \in Segments : Join(c, s) \/ Leave(c, s)
  BY <1>1, <1>8 DEF Cancel, Create, Toggle, SoftDelete, Join, Leave, tableVars
<1> QED
  BY <1>1, <1>2, <1>3, <1>4, <1>5, <1>6, <1>7, <1>8 DEF Next

\* If the backfill of a boot does not fail, the evidence is never lost.
LEMMA OnceKept ==
    ASSUME BackfillMayFail = FALSE, TypeInv, OnceInv, [Next]_vars
    PROVE  OnceInv'
<1> USE DEF TypeInv, OnceInv
<1>1. ASSUME UNCHANGED <<claims, run, times>>,
             \A f \in Feeders : feed'[f].step # "down" => \E g \in Feeders : feed[g].step # "down"
      PROVE  OnceInv'
  <2>1. EnrolledOnce' /\ Proven'
    BY <1>1 DEF EnrolledOnce, Proven, Enrolled
  <2>2. Backfilled'
    BY <1>1 DEF Backfilled
  <2> QED
    BY <2>1, <2>2
<1>2. ASSUME NEW f \in Feeders, Boot(f) PROVE OnceInv'
  <2>1. claims' = claims \cup {c \in Contacts : run[c] # "none"} /\ UNCHANGED <<run, times>>
    BY <1>2 DEF Boot
  <2> QED
    BY <2>1 DEF EnrolledOnce, Proven, Backfilled, Enrolled
<1>3. ASSUME NEW f \in Feeders, NEW c \in Contacts, NEW j, feed[f].step # "down",
             ClaimAndRun(c, j)
      PROVE  OnceInv'
  <2>1. \A d \in Contacts : run[d] # "none" => d \in claims
    BY <1>3 DEF Backfilled
  <2>2. times[c] \in Nat /\ (~Enrolled(c) => times[c] = 0)
    BY DEF Proven, TypeOK
  <2>3. EnrolledOnce'
    BY <1>3, <2>2, ClaimCounts DEF EnrolledOnce
  <2>4. Proven'
    BY <1>3, <2>2, ClaimCounts DEF Proven, Enrolled
  <2>5. Backfilled'
    BY <1>3, <2>1, ClaimCounts DEF Backfilled, Enrolled
  <2> QED
    BY <2>3, <2>4, <2>5
<1>4. ASSUME NEW c \in Contacts, Finish(c) PROVE OnceInv'
  <2>1. UNCHANGED <<claims, times, feed>> /\ \A d \in Contacts : run'[d] = "none" <=> run[d] = "none"
    BY <1>4 DEF Finish, feederVars, TypeOK
  <2> QED
    BY <2>1 DEF EnrolledOnce, Proven, Backfilled, Enrolled
<1>5. ASSUME NEW old \in SUBSET Contacts, Prune(old) PROVE OnceInv'
  <2>1. UNCHANGED <<claims, times, feed>> /\ \A d \in Contacts : run[d] = "none" => run'[d] = "none"
    BY <1>5 DEF Prune, feederVars, TypeOK
  <2>2. \A d \in Contacts : run[d] # "none" => d \in claims
    BY <1>5 DEF Prune, Backfilled
  <2> QED
    BY <2>1, <2>2 DEF EnrolledOnce, Proven, Backfilled, Enrolled
<1>6. ASSUME NEW f \in Feeders, FeederStep(f) \/ Crash(f), ~Boot(f) PROVE OnceInv'
  <2>1. feed[f].step # "down"
    BY <1>6 DEF FeederStep, Tick, TickEnds, Load, Resolve, Enroll, EnrollFails, Count, Advance,
                Complete, Crash
  <2>2. \/ UNCHANGED <<claims, run, times>>
        \/ \E c \in Contacts : ClaimAndRun(c, feed[f].job)
    BY <1>6 DEF FeederStep, Tick, TickEnds, Load, Resolve, Enroll, EnrollFails, Count, Advance,
                Complete, Crash, tableVars
  <2> QED
    BY <1>1, <1>3, <2>1, <2>2
<1>7. CASE UNCHANGED vars
  BY <1>1, <1>7 DEF vars, tableVars, feederVars
<1>8. CASE \/ \E j \in Jobs : Cancel(j) \/ \E s \in Segments : Create(j, s)
           \/ Toggle \/ SoftDelete
           \/ \E c \in Contacts : \E s \in Segments : Join(c, s) \/ Leave(c, s)
  BY <1>1, <1>8 DEF Cancel, Create, Toggle, SoftDelete, Join, Leave, tableVars, feederVars
<1> QED
  BY <1>2, <1>4, <1>5, <1>6, <1>7, <1>8 DEF Next

\* Initially a contact was enrolled exactly if it has a run (Init).
LEMMA OnceInit == Init => OnceInv /\ Evidence
BY DEF Init, OnceInv, EnrolledOnce, Proven, Backfilled, Evidence, Enrolled, Outside

\* sequence_feeder.go:168: a contact is enrolled at most once, for ever, for any
\* contacts, segments, enrollments and processes and any number of crashes,
\* failed statements and lost answers, if the claim backfill of a boot succeeds.
THEOREM EnrolledAtMostOnce ==
    ASSUME BackfillMayFail = FALSE
    PROVE  Spec => []EnrolledOnce
<1>1. Init => OnceInv
  BY OnceInit
<1>2. TypeInv /\ OnceInv /\ [Next]_vars => OnceInv'
  BY OnceKept
<1>3. OnceInv => EnrolledOnce
  BY DEF OnceInv
<1> QED
  BY <1>1, <1>2, <1>3, TypeAlways, PTL DEF Spec

-----------------------------------------------------------------------------
(* Nobody is passed over.                                                   *)
(*                                                                          *)
(* Every copy of a position, in an enrollment, in a tick's list and in a    *)
(* feeder's hands, has only enrolled contacts behind it; the page a feeder  *)
(* works on leaves no gap behind its first row.                             *)

\* In terms of a set S of contacts and of the history tm, for use before and
\* after a step. Those of S up to the cursor were enrolled:
Passed(S, tm, cursor) == \A c \in S : c <= cursor => tm[c] > 0
Drained(S, tm) == \A c \in S : tm[c] > 0
\* Nobody in front of a row of the page is missing, except its rows.
NoGap(S, tm, rows) == \A c \in S : \A d \in rows : c < d /\ c \notin rows => tm[c] > 0

JobCover(row, S, tm) ==
    Passed(S, tm, row.cursor) /\ (row.status = "completed" => Drained(S, tm))
LocalCover(x, S, tm) ==
    x.step \in Working =>
        /\ Passed(S, tm, x.cursor)
        /\ Passed(S, tm, x.lastOK)
        /\ x.step = "enroll" => NoGap(S, tm, x.rows)
        /\ x.step = "complete" => Drained(S, tm)
CoverInv ==
    /\ \A j \in Jobs : JobCover(job[j], steady[j], times)
    /\ \A f \in Feeders : \A e \in todo[f] : Passed(steady[e.job], times, e.cursor)
    /\ \A f \in Feeders : LocalCover(feed[f], steady[feed[f].job], times)

\* A set of contacts has a first one.
LEMMA FirstContact ==
    ASSUME NEW S \in SUBSET Contacts, S # {}
    PROVE  \E c \in S : \A d \in S : c <= d
<1> DEFINE Below(c) == {d \in S : d < c}
           T == {Below(c) : c \in S}
<1>1. IsFiniteSet(S) /\ S \subseteq Nat
  BY ContactAssumption, FS_Subset
<1>2. IsWellFoundedOn(StrictSubsetOrdering(S), FiniteSubsetsOf(S))
  BY FS_StrictSubsetOrderingWellFounded
<1>3. T # {} /\ T \subseteq FiniteSubsetsOf(S)
  <2>1. ASSUME NEW c \in S PROVE Below(c) \in FiniteSubsetsOf(S)
    <3>1. Below(c) \in SUBSET S
      OBVIOUS
    <3>2. IsFiniteSet(Below(c))
      BY <3>1, <1>1, FS_Subset
    <3> QED
      BY <3>1, <3>2 DEF FiniteSubsetsOf
  <2> QED
    BY <2>1
<1>4. PICK B \in T : \A C \in T : <<C, B>> \notin StrictSubsetOrdering(S)
  <2> HIDE DEF T
  <2> QED
    BY <1>2, <1>3, WFMin
<1>5. PICK c \in S : B = Below(c)
  BY <1>4
<1>6. ASSUME NEW d \in S, d < c PROVE FALSE
  <2>1. Below(d) \in T /\ Below(d) \subseteq B /\ d \in B /\ d \notin Below(d)
    <3>1. Below(d) \in T
      OBVIOUS
    <3>2. c \in Nat /\ d \in Nat /\ \A e \in S : e \in Nat
      BY <1>1
    <3>3. \A e \in S : e < d => e < c
      BY <3>2, <1>6
    <3>4. Below(d) \subseteq B
      BY <3>3, <1>5
    <3>5. d \in B
      BY <1>5, <1>6
    <3>6. ~(d < d)
      BY <3>2
    <3> QED
      BY <3>1, <3>4, <3>5, <3>6
  <2> QED
    BY <1>4, <2>1 DEF StrictSubsetOrdering
<1>7. \A d \in S : c <= d
  BY <1>1, <1>6
<1> QED
  BY <1>7

\* The page behind a cursor (ResolveSegmentPage) starts with the first contact
\* behind it, and lacks nobody in front of one of its rows.
LEMMA PageCovers ==
    ASSUME TypeOK, NEW s \in Segments, NEW cursor \in Contacts \cup {NoCursor}
    PROVE  /\ NextPage(s, cursor) = {} => Behind(s, cursor) = {}
           /\ \A c \in Behind(s, cursor) : \A d \in NextPage(s, cursor) :
                 c < d => c \in NextPage(s, cursor)
<1> DEFINE B == Behind(s, cursor)
           Before(c) == {d \in B : d < c}
<1>1. B \in SUBSET Contacts /\ IsFiniteSet(B) /\ B \subseteq Nat
  <2>1. B \in SUBSET Contacts
    BY DEF Behind, TypeOK
  <2> QED
    BY <2>1, ContactAssumption, FS_Subset
<1>2. NextPage(s, cursor) = {c \in B : Cardinality(Before(c)) < PageSize}
  BY DEF NextPage
<1>3. \A c \in B : Before(c) \in SUBSET B /\ IsFiniteSet(Before(c)) /\ Cardinality(Before(c)) \in Nat
  BY <1>1, FS_Subset, FS_CardinalityType
<1> HIDE DEF B
<1>4. ASSUME B # {} PROVE NextPage(s, cursor) # {}
  <2>1. PICK c \in B : \A d \in B : c <= d
    BY <1>1, <1>4, FirstContact
  <2>2. Before(c) = {}
    <3>1. \A d \in B : c \in Nat /\ d \in Nat /\ c <= d
      BY <2>1, <1>1
    <3>2. \A d \in B : ~(d < c)
      BY <3>1
    <3> QED
      BY <3>2
  <2>3. Cardinality(Before(c)) < PageSize
    BY <2>2, FS_EmptySet, PageAssumption
  <2> QED
    BY <1>2, <2>3
<1>5. ASSUME NEW c \in B, NEW d \in NextPage(s, cursor), c < d
      PROVE  c \in NextPage(s, cursor)
  <2>1. d \in B /\ Cardinality(Before(d)) < PageSize
    BY <1>2
  <2>2. \A e \in B : e < c => e < d
    BY <1>1, <1>5, <2>1
  <2>3. Before(c) \in SUBSET Before(d)
    BY <2>2
  <2>4. Cardinality(Before(c)) <= Cardinality(Before(d))
    BY <2>1, <2>3, <1>3, FS_Subset
  <2>5. Cardinality(Before(c)) < PageSize
    BY <2>1, <2>4, <1>3, PageAssumption
  <2> QED
    BY <1>2, <2>5
<1> QED
  BY <1>4, <1>5 DEF B

\* What was covered stays covered when contacts leave and others are enrolled.
LEMMA CoverGrows ==
    ASSUME NEW S \in SUBSET Contacts, NEW U \in SUBSET S,
           NEW tm \in [Contacts -> Nat], NEW um \in [Contacts -> Nat],
           \A c \in Contacts : um[c] >= tm[c]
    PROVE  /\ \A x : Passed(S, tm, x) => Passed(U, um, x)
           /\ Drained(S, tm) => Drained(U, um)
           /\ \A rows : NoGap(S, tm, rows) => NoGap(U, um, rows)
           /\ \A row : JobCover(row, S, tm) => JobCover(row, U, um)
           /\ \A x : LocalCover(x, S, tm) => LocalCover(x, U, um)
<1>1. \A c \in U : c \in S /\ (tm[c] > 0 => um[c] > 0)
  <2> TAKE c \in U
  <2>1. c \in Contacts /\ tm[c] \in Nat /\ um[c] \in Nat /\ um[c] >= tm[c]
    OBVIOUS
  <2> QED
    BY <2>1
<1>2. \A x : Passed(S, tm, x) => Passed(U, um, x)
  BY <1>1 DEF Passed
<1>3. Drained(S, tm) => Drained(U, um)
  BY <1>1 DEF Drained
<1>4. \A rows : NoGap(S, tm, rows) => NoGap(U, um, rows)
  BY <1>1 DEF NoGap
<1> QED
  BY <1>2, <1>3, <1>4 DEF JobCover, LocalCover

\* Nobody has an id before the first page: a new enrollment has passed nobody.
LEMMA NilPasses ==
    ASSUME NEW S \in SUBSET Contacts, NEW tm
    PROVE  Passed(S, tm, NoCursor)
BY ContactAssumption DEF Passed, NoCursor

\* Steps of the world around the feeders keep the cover.
LEMMA CoverWorld ==
    ASSUME TypeInv, TypeInv', CoverInv, UNCHANGED <<feed, todo>>,
           \A c \in Contacts : times'[c] >= times[c],
           \A j \in Jobs : job[j].status # "none" =>
                /\ steady'[j] \subseteq steady[j]
                /\ job'[j].cursor = job[j].cursor
                /\ job'[j].status = "completed" => job[j].status = "completed",
           \A j \in Jobs : job[j].status = "none" =>
                \/ job'[j].cursor = NoCursor /\ job'[j].status # "completed"
                \/ job'[j] = job[j] /\ steady'[j] \subseteq steady[j]
    PROVE  CoverInv'
<1>1. \A j \in Jobs : steady[j] \in SUBSET Contacts /\ steady'[j] \in SUBSET Contacts
  BY DEF TypeInv, TypeOK
<1>2. times \in [Contacts -> Nat] /\ times' \in [Contacts -> Nat]
  BY DEF TypeInv, TypeOK
<1>3. ASSUME NEW j \in Jobs PROVE JobCover(job'[j], steady'[j], times')
  <2>1. JobCover(job[j], steady[j], times)
    BY DEF CoverInv
  <2>2. CASE steady'[j] \subseteq steady[j]
    <3>1. JobCover(job[j], steady'[j], times')
      BY <1>1, <1>2, <2>1, <2>2, CoverGrows
    <3>2. CASE job'[j] = job[j] \/ job[j].status # "none"
      BY <3>1, <3>2 DEF JobCover
    <3>3. CASE job'[j].cursor = NoCursor /\ job'[j].status # "completed"
      BY <3>3, <1>1, NilPasses DEF JobCover
    <3> QED
      BY <3>2, <3>3
  <2>3. CASE ~(steady'[j] \subseteq steady[j])
    BY <2>3, <1>1, NilPasses DEF JobCover
  <2> QED
    BY <2>2, <2>3
<1>4. ASSUME NEW j \in Jobs, job[j].status # "none"
      PROVE  /\ \A x : Passed(steady[j], times, x) => Passed(steady'[j], times', x)
             /\ \A x : LocalCover(x, steady[j], times) => LocalCover(x, steady'[j], times')
  BY <1>1, <1>2, <1>4, CoverGrows
<1>5. ASSUME NEW f \in Feeders, NEW e \in todo'[f]
      PROVE  Passed(steady'[e.job], times', e.cursor)
  <2>1. e \in todo[f] /\ e.job \in Jobs /\ job[e.job].status # "none"
    BY DEF TypeInv, TypeOK, Shape, Entry
  <2> QED
    BY <2>1, <1>4 DEF CoverInv
<1>6. ASSUME NEW f \in Feeders
      PROVE  LocalCover(feed'[f], steady'[feed'[f].job], times')
  <2>1. CASE feed[f].step \in Working
    <3>1. feed[f].job \in Jobs /\ job[feed[f].job].status # "none"
      BY <2>1 DEF TypeInv, Shape
    <3> QED
      BY <3>1, <1>4 DEF CoverInv
  <2>2. CASE feed[f].step \notin Working
    BY <2>2 DEF LocalCover
  <2> QED
    BY <2>1, <2>2
<1> QED
  BY <1>3, <1>5, <1>6 DEF CoverInv

\* A step of one feeder keeps the cover if what it leaves behind is covered.
LEMMA CoverOneFeeder ==
    ASSUME TypeInv, TypeInv', CoverInv, UNCHANGED steady,
           \A c \in Contacts : times'[c] >= times[c],
           NEW f \in Feeders,
           \A j \in Jobs : JobCover(job'[j], steady[j], times'),
           \A g \in Feeders \ {f} : feed'[g] = feed[g] /\ todo'[g] \subseteq todo[g],
           \A e \in todo'[f] : Passed(steady[e.job], times', e.cursor),
           LocalCover(feed'[f], steady[feed'[f].job], times')
    PROVE  CoverInv'
<1>1. \A j \in Jobs : steady[j] \in SUBSET Contacts
  BY DEF TypeInv, TypeOK
<1>2. times \in [Contacts -> Nat] /\ times' \in [Contacts -> Nat]
  BY DEF TypeInv, TypeOK
<1>3. ASSUME NEW g \in Feeders \ {f}, NEW e \in todo'[g]
      PROVE  Passed(steady[e.job], times', e.cursor)
  <2>1. e \in todo[g] /\ e.job \in Jobs
    BY DEF TypeInv, TypeOK, Entry
  <2> QED
    BY <2>1, <1>1, <1>2, CoverGrows DEF CoverInv
<1>4. ASSUME NEW g \in Feeders \ {f}
      PROVE  LocalCover(feed'[g], steady[feed'[g].job], times')
  <2>1. CASE feed[g].step \in Working
    <3> DEFINE S == steady[feed[g].job]
    <3>1. S \in SUBSET Contacts /\ S \in SUBSET S
      BY <2>1, <1>1 DEF TypeInv, Shape
    <3>2. LocalCover(feed[g], S, times)
      BY DEF CoverInv
    <3>3. LocalCover(feed[g], S, times')
      <4> HIDE DEF S
      <4> QED
        BY <3>1, <3>2, <1>2, CoverGrows
    <3> QED
      BY <3>3
  <2>2. CASE feed[g].step \notin Working
    BY <2>2 DEF LocalCover
  <2> QED
    BY <2>1, <2>2
<1> QED
  BY <1>3, <1>4 DEF CoverInv

\* Between two enrollments a feeder has nothing to cover.
LEMMA OutsideCovers ==
    ASSUME NEW s, s \notin Working, NEW S, NEW tm
    PROVE  LocalCover(Outside(s), S, tm)
BY DEF LocalCover, Outside

\* The page loop is left with the cover it had (AfterPage).
LEMMA AfterCovers ==
    ASSUME NEW x \in Local, NEW S, NEW tm,
           Passed(S, tm, x.cursor), Passed(S, tm, x.lastOK)
    PROVE  LocalCover(AfterPage(x), S, tm)
<1>1. CASE x.lastOK = x.cursor
  BY <1>1, OutsideCovers DEF AfterPage, Working
<1>2. CASE x.lastOK # x.cursor
  <2>1. /\ AfterPage(x).cursor = x.cursor /\ AfterPage(x).lastOK = x.lastOK
        /\ AfterPage(x).step \in {"count", "advance"}
    BY <1>2 DEF AfterPage, Local
  <2> QED
    BY <2>1 DEF LocalCover
<1> QED
  BY <1>1, <1>2

\* Steps that write neither enrollments nor claims and stay outside the page.
LEMMA CoverTick ==
    ASSUME TypeInv, TypeInv', CoverInv, NEW f \in Feeders,
           Boot(f) \/ Tick(f) \/ TickEnds(f) \/ Crash(f)
    PROVE  CoverInv'
<1>1. UNCHANGED <<job, times, steady>>
  BY DEF Boot, Tick, TickEnds, Crash, tableVars
<1>2. \A c \in Contacts : times'[c] >= times[c]
  BY <1>1 DEF TypeInv, TypeOK
<1>3. \A g \in Feeders \ {f} : feed'[g] = feed[g] /\ todo'[g] \subseteq todo[g]
  BY DEF Boot, Tick, TickEnds, Crash, TypeInv, TypeOK
<1>4. feed'[f] \in {Outside("idle"), Outside("next"), Outside("down")}
  BY DEF Boot, Tick, TickEnds, Crash, TypeInv, TypeOK
<1>5. LocalCover(feed'[f], steady[feed'[f].job], times')
  BY <1>4, OutsideCovers DEF Working
<1>6. ASSUME NEW e \in todo'[f] PROVE Passed(steady[e.job], times', e.cursor)
  <2>1. CASE Tick(f)
    <3>1. e \in {[job |-> j, cursor |-> job[j].cursor] : j \in {k \in Jobs : job[k].status = "active"}}
      BY <2>1, <1>6 DEF Tick, TypeInv, TypeOK
    <3>2. PICK j \in Jobs : e = [job |-> j, cursor |-> job[j].cursor]
      BY <3>1
    <3> QED
      BY <3>2, <1>1 DEF CoverInv, JobCover
  <2>2. CASE Boot(f) \/ TickEnds(f) \/ Crash(f)
    <3>1. e \in todo[f]
      BY <2>2 DEF Boot, TickEnds, Crash, TypeInv, TypeOK
    <3> QED
      BY <3>1, <1>1 DEF CoverInv
  <2> QED
    BY <2>1, <2>2
<1>7. \A j \in Jobs : JobCover(job'[j], steady[j], times')
  BY <1>1 DEF CoverInv
<1> QED
  BY <1>1, <1>2, <1>3, <1>5, <1>6, <1>7, CoverOneFeeder

\* Taking an enrollment takes over what its copied cursor covers.
LEMMA CoverLoad ==
    ASSUME TypeInv, TypeInv', CoverInv, NEW f \in Feeders, NEW e \in Entry, Load(f, e)
    PROVE  CoverInv'
<1> DEFINE x == [Outside("resolve") EXCEPT !.job = e.job, !.cursor = e.cursor, !.lastOK = e.cursor]
<1>1. UNCHANGED <<times, steady>> /\ e \in todo[f] /\ e.job \in Jobs
  BY DEF Load, Entry
<1>2. \A c \in Contacts : times'[c] >= times[c]
  BY <1>1 DEF TypeInv, TypeOK
<1>3. /\ \A g \in Feeders \ {f} : feed'[g] = feed[g] /\ todo'[g] \subseteq todo[g]
      /\ todo'[f] \subseteq todo[f]
      /\ feed'[f] = x \/ feed' = feed
  BY DEF Load, TypeInv, TypeOK
<1>4. LocalCover(feed'[f], steady[feed'[f].job], times')
  <2>1. LocalCover(x, steady[x.job], times)
    BY <1>1 DEF CoverInv, LocalCover, Outside
  <2> HIDE DEF x
  <2> QED
    BY <1>1, <1>3, <2>1 DEF CoverInv
<1>5. \A d \in todo'[f] : Passed(steady[d.job], times', d.cursor)
  BY <1>1, <1>3 DEF CoverInv
<1>6. ASSUME NEW j \in Jobs PROVE JobCover(job'[j], steady[j], times')
  <2>1. job'[j] = job[j] \/ job'[j] = [job[j] EXCEPT !.status = "blocked"]
    BY DEF Load, WhileActive, TypeInv, TypeOK
  <2>2. job[j] \in Job
    BY DEF TypeInv, TypeOK
  <2> QED
    BY <1>1, <2>1, <2>2 DEF CoverInv, JobCover, Job
<1> QED
  BY <1>1, <1>2, <1>3, <1>4, <1>5, <1>6, CoverOneFeeder

\* An empty page is the end of the segment, and a page leaves no gap.
LEMMA CoverResolve ==
    ASSUME TypeInv, TypeInv', CoverInv, NEW f \in Feeders, Resolve(f)
    PROVE  CoverInv'
<1> DEFINE j == feed[f].job
           s == job[j].segment
           rows == NextPage(s, feed[f].cursor)
           x == [feed[f] EXCEPT !.rows = rows,
                                !.step = IF IsEnd(rows) THEN "complete" ELSE "enroll"]
<1>1. UNCHANGED <<job, times, steady, todo>>
  BY DEF Resolve, tableVars
<1>2. \A c \in Contacts : times'[c] >= times[c]
  BY <1>1 DEF TypeInv, TypeOK
<1>3. /\ \A g \in Feeders \ {f} : feed'[g] = feed[g]
      /\ feed'[f] = x \/ feed'[f] = Outside("next")
  BY DEF Resolve, TypeInv, TypeOK
<1>4. /\ feed[f].step \in Working /\ j \in Jobs /\ s \in Segments
      /\ steady[j] \subseteq members[s]
      /\ feed[f] \in Local /\ feed[f].cursor \in Contacts \cup {NoCursor}
      /\ feed[f].cursor \in Nat
      /\ members[s] \subseteq Contacts /\ Contacts \subseteq Nat
  <2>1. feed[f].step \in Working
    BY DEF Resolve, Working
  <2>2. j \in Jobs /\ job[j].status # "none"
    BY <2>1 DEF TypeInv, Shape
  <2>3. s \in Segments /\ steady[j] \subseteq members[s]
    BY <2>2 DEF TypeInv, Shape
  <2>4. feed[f] \in Local /\ feed[f].cursor \in Contacts \cup {NoCursor}
    BY DEF TypeInv, TypeOK, Local
  <2>5. members[s] \subseteq Contacts /\ Contacts \subseteq Nat
    BY <2>3, ContactAssumption DEF TypeInv, TypeOK
  <2>6. feed[f].cursor \in Nat
    <3>1. Contacts \cup {NoCursor} \subseteq Nat
      BY ContactAssumption DEF NoCursor
    <3> QED
      BY <2>4, <3>1
  <2> QED
    BY <2>1, <2>2, <2>3, <2>4, <2>5, <2>6
<1>5. Passed(steady[j], times, feed[f].cursor) /\ Passed(steady[j], times, feed[f].lastOK)
  BY <1>4 DEF CoverInv, LocalCover
<1>6. \A c \in steady[j] : times[c] > 0 \/ c \in Behind(s, feed[f].cursor)
  <2> TAKE c \in steady[j]
  <2>1. c \in members[s] /\ c \in Nat /\ feed[f].cursor \in Nat
    BY <1>4
  <2>2. CASE c <= feed[f].cursor
    BY <2>2, <1>5 DEF Passed
  <2>3. CASE c > feed[f].cursor
    BY <2>1, <2>3 DEF Behind
  <2> QED
    BY <2>1, <2>2, <2>3
<1>7. NoGap(steady[j], times, rows)
  <2>1. \A c \in Behind(s, feed[f].cursor) : \A d \in rows : c < d => c \in rows
    BY <1>4, PageCovers DEF TypeInv
  <2> HIDE DEF rows
  <2> QED
    BY <1>6, <2>1 DEF NoGap
<1>8. IsEnd(rows) => Drained(steady[j], times)
  <2>1. rows = {} => Behind(s, feed[f].cursor) = {}
    BY <1>4, PageCovers DEF TypeInv
  <2> HIDE DEF rows
  <2> QED
    BY <1>6, <2>1 DEF Drained, IsEnd
<1>9. LocalCover(x, steady[j], times) /\ x.job = j
  <2>1. /\ x.cursor = feed[f].cursor /\ x.lastOK = feed[f].lastOK /\ x.rows = rows
        /\ x.step = IF IsEnd(rows) THEN "complete" ELSE "enroll"
        /\ x.job = j
    BY <1>4 DEF Local
  <2> HIDE DEF x, rows, j
  <2> QED
    BY <2>1, <1>5, <1>7, <1>8 DEF LocalCover
<1>10. LocalCover(feed'[f], steady[feed'[f].job], times')
  <2> HIDE DEF x
  <2> QED
    BY <1>1, <1>3, <1>9, OutsideCovers DEF Working
<1> QED
  BY <1>1, <1>2, <1>3, <1>10, CoverOneFeeder DEF CoverInv

\* The first row of a page is enrolled, and nobody is left in front of it.
LEMMA CoverEnroll ==
    ASSUME TypeInv, TypeInv', CoverInv, Evidence, NEW f \in Feeders, NEW c \in Contacts,
           Enroll(f, c) \/ EnrollFails(f, c),
           \A d \in Contacts : times'[d] >= times[d]
    PROVE  CoverInv'
<1> DEFINE j == feed[f].job
           S == steady[j]
           local == [feed[f] EXCEPT !.rows = @ \ {c}, !.lastOK = c, !.enrolled = @ + Gained(c)]
<1>1. UNCHANGED <<job, steady, todo>> /\ \A g \in Feeders \ {f} : feed'[g] = feed[g]
  BY DEF Enroll, EnrollFails, TypeInv, TypeOK
<1>2. /\ feed[f].step \in Working /\ feed[f].step = "enroll" /\ NextRow(f, c)
      /\ feed[f] \in Local /\ j \in Jobs
  <2>1. feed[f].step \in Working /\ feed[f].step = "enroll" /\ NextRow(f, c)
    BY DEF Enroll, EnrollFails, Working
  <2> QED
    BY <2>1 DEF TypeInv, TypeOK, Shape
<1>3. S \in SUBSET Contacts /\ Contacts \subseteq Nat /\ feed[f].rows \subseteq Contacts
  BY <1>2, ContactAssumption DEF TypeInv, TypeOK, Local
<1>4. times \in [Contacts -> Nat] /\ times' \in [Contacts -> Nat]
  BY DEF TypeInv, TypeOK
<1>5. LocalCover(feed[f], S, times')
  <2>1. LocalCover(feed[f], S, times) /\ S \in SUBSET S
    BY DEF CoverInv
  <2> HIDE DEF S
  <2> QED
    BY <2>1, <1>3, <1>4, CoverGrows
<1>6. /\ Passed(S, times', feed[f].cursor) /\ Passed(S, times', feed[f].lastOK)
      /\ NoGap(S, times', feed[f].rows)
  BY <1>2, <1>5 DEF LocalCover
<1>0. \A k \in Jobs : JobCover(job'[k], steady[k], times')
  BY <1>1, <1>4, CoverGrows DEF CoverInv, TypeInv, TypeOK
<1>9. ASSUME NEW e \in todo'[f] PROVE Passed(steady[e.job], times', e.cursor)
  <2>1. e \in todo[f] /\ e.job \in Jobs
    BY <1>1, <1>9 DEF TypeInv, TypeOK, Entry
  <2>2. steady[e.job] \in SUBSET Contacts
    BY <2>1 DEF TypeInv, TypeOK
  <2>3. Passed(steady[e.job], times, e.cursor)
    BY <2>1 DEF CoverInv
  <2> QED
    BY <2>2, <2>3, <1>4, CoverGrows
<1>7. CASE EnrollFails(f, c)
  <2>1. feed'[f] = AfterPage(feed[f])
    BY <1>7 DEF EnrollFails, TypeInv, TypeOK
  <2>2. AfterPage(feed[f]).job = j \/ AfterPage(feed[f]) = Outside("next")
    BY <1>2 DEF AfterPage, Local
  <2>3. LocalCover(feed'[f], steady[feed'[f].job], times')
    BY <2>1, <2>2, <1>2, <1>6, AfterCovers, OutsideCovers DEF Working
  <2> QED
    BY <1>1, <1>0, <1>9, <2>3, CoverOneFeeder
<1>8. CASE Enroll(f, c)
  <2>1. times'[c] > 0
    <3>1. ClaimAndRun(c, j)
      BY <1>8 DEF Enroll
    <3>2. CASE Enrolled(c)
      BY <3>1, <3>2, <1>4, ClaimCounts DEF Evidence, TypeInv
    <3>3. CASE ~Enrolled(c)
      BY <3>1, <3>3, <1>4, ClaimCounts DEF TypeInv
    <3> QED
      BY <3>2, <3>3
  <2>2. \A d \in S : d < c => times'[d] > 0
    BY <1>2, <1>3, <1>6 DEF NextRow, NoGap
  <2>3. Passed(S, times', c)
    <3> SUFFICES ASSUME NEW d \in S, d <= c PROVE times'[d] > 0
      BY DEF Passed
    <3>1. d \in Nat /\ c \in Nat
      BY <1>3
    <3> QED
      BY <3>1, <2>1, <2>2
  <2>4. NoGap(S, times', feed[f].rows \ {c})
    BY <2>1, <1>6 DEF NoGap
  <2>5. /\ local.cursor = feed[f].cursor /\ local.lastOK = c /\ local.rows = feed[f].rows \ {c}
        /\ local.step = "enroll" /\ local.job = j
    BY <1>2 DEF Local
  <2>6. local \in Local
    <3>1. feed[f].enrolled + Gained(c) \in Nat /\ feed[f].rows \ {c} \in SUBSET Contacts
      BY <1>2, <1>3 DEF Gained, Local
    <3> QED
      BY <1>2, <3>1 DEF Local
  <2>7. feed'[f] = local \/ feed'[f] = AfterPage(local)
    BY <1>8 DEF Enroll, TypeInv, TypeOK
  <2>8. LocalCover(local, S, times')
    <3> HIDE DEF local, S
    <3> QED
      BY <2>3, <2>4, <2>5, <1>6 DEF LocalCover
  <2>9. AfterPage(local).job = j \/ AfterPage(local) = Outside("next")
    <3> HIDE DEF local, j
    <3> QED
      BY <2>5, <2>6 DEF AfterPage, Local
  <2>10. LocalCover(AfterPage(local), S, times')
    <3> HIDE DEF local, S
    <3> QED
      BY <2>3, <2>5, <2>6, <1>6, AfterCovers
  <2>11. LocalCover(feed'[f], steady[feed'[f].job], times')
    <3> HIDE DEF local, j
    <3> QED
      BY <2>5, <2>7, <2>8, <2>9, <2>10, OutsideCovers DEF Working
  <2> QED
    BY <1>1, <1>0, <1>9, <2>11, CoverOneFeeder
<1> QED
  BY <1>7, <1>8

\* The count moves nothing, the cursor moves to what the page covered, and an
\* enrollment is completed when its segment is drained.
LEMMA CoverWrite ==
    ASSUME TypeInv, TypeInv', CoverInv, NEW f \in Feeders, Count(f) \/ Advance(f) \/ Complete(f)
    PROVE  CoverInv'
<1> DEFINE j == feed[f].job
           counted == [feed[f] EXCEPT !.step = "advance", !.enrolled = 0]
<1>1. UNCHANGED <<times, steady, todo>> /\ \A g \in Feeders \ {f} : feed'[g] = feed[g]
  BY DEF Count, Advance, Complete, TypeInv, TypeOK
<1>2. \A c \in Contacts : times'[c] >= times[c]
  BY <1>1 DEF TypeInv, TypeOK
<1>3. feed[f].step \in Working /\ j \in Jobs /\ feed[f] \in Local /\ job[j] \in Job
  <2>1. feed[f].step \in Working
    BY DEF Count, Advance, Complete, Working
  <2> QED
    BY <2>1 DEF TypeInv, TypeOK, Shape
<1>4. LocalCover(feed[f], steady[j], times)
  BY DEF CoverInv
<1>5. LocalCover(feed'[f], steady[feed'[f].job], times')
  <2>1. /\ counted.step = "advance" /\ counted.job = j
        /\ counted.cursor = feed[f].cursor /\ counted.lastOK = feed[f].lastOK
    BY <1>3 DEF Local
  <2>2. feed'[f] = counted \/ feed'[f] = Outside("next")
    BY DEF Count, Advance, Complete, TypeInv, TypeOK
  <2>3. LocalCover(counted, steady[j], times)
    <3> HIDE DEF counted, j
    <3> QED
      BY <2>1, <1>3, <1>4 DEF LocalCover
  <2> HIDE DEF counted
  <2> QED
    BY <1>1, <2>1, <2>2, <2>3, OutsideCovers DEF Working
<1>6. ASSUME NEW k \in Jobs PROVE JobCover(job'[k], steady[k], times')
  <2>1. JobCover(job[k], steady[k], times)
    BY DEF CoverInv
  <2>2. CASE job'[k] = job[k]
    BY <2>1, <2>2, <1>1
  <2>3. CASE k = j /\ job'[k] # job[k]
    <3>1. CASE Count(f)
      <4>1. job'[j].cursor = job[j].cursor /\ job'[j].status = job[j].status
        <5>1. DOMAIN job = Jobs
          BY DEF TypeInv, TypeOK
        <5>2. job' = [job EXCEPT ![j] = [job[j] EXCEPT !.count = @ + feed[f].enrolled]]
          BY <3>1, <2>3 DEF Count, WhileActive
        <5> HIDE DEF j
        <5> QED
          BY <5>1, <5>2, <1>3 DEF Job
      <4> QED
        BY <2>1, <2>3, <4>1, <1>1 DEF JobCover
    <3>2. CASE Advance(f)
      <4>1. job'[j].cursor = feed[f].lastOK /\ job'[j].status = job[j].status
        BY <3>2, <2>3, <1>3 DEF Advance, WhileActive, TypeInv, TypeOK, Job
      <4> QED
        BY <2>1, <2>3, <4>1, <1>1, <1>3, <1>4 DEF JobCover, LocalCover
    <3>3. CASE Complete(f)
      <4>1. job'[j].cursor = job[j].cursor
        BY <3>3, <2>3, <1>3 DEF Complete, WhileActive, TypeInv, TypeOK, Job
      <4>2. Drained(steady[j], times)
        BY <3>3, <1>3, <1>4 DEF Complete, LocalCover
      <4> QED
        BY <2>1, <2>3, <4>1, <4>2, <1>1 DEF JobCover
    <3> QED
      BY <3>1, <3>2, <3>3
  <2>4. CASE k # j
    BY <2>2, <2>4, <1>3 DEF Count, Advance, Complete, WhileActive, TypeInv, TypeOK
  <2> QED
    BY <2>2, <2>3, <2>4
<1>7. \A e \in todo'[f] : Passed(steady[e.job], times', e.cursor)
  BY <1>1 DEF CoverInv
<1> QED
  BY <1>1, <1>2, <1>5, <1>6, <1>7, CoverOneFeeder

\* Every step keeps the cover.
LEMMA CoverKept ==
    ASSUME TypeInv, TypeInv', CoverInv, Evidence, [Next]_vars
    PROVE  CoverInv'
<1>1. \A c \in Contacts : times'[c] >= times[c]
  BY EvidenceKept
<1>2. ASSUME NEW f \in Feeders, FeederStep(f) \/ Crash(f) PROVE CoverInv'
  BY <1>1, <1>2, CoverTick, CoverLoad, CoverResolve, CoverEnroll, CoverWrite DEF FeederStep
<1>3. ASSUME UNCHANGED <<feed, todo, job>>, \A j \in Jobs : steady'[j] \subseteq steady[j]
      PROVE  CoverInv'
  BY <1>1, <1>3, CoverWorld
<1>4. ASSUME NEW j \in Jobs, Cancel(j) PROVE CoverInv'
  <2>1. UNCHANGED <<feed, todo, steady>>
    BY <1>4 DEF Cancel, feederVars
  <2>2. \A k \in Jobs :
            \/ job'[k] = job[k]
            \/ job[k].status # "none" /\ job'[k].cursor = job[k].cursor /\ job'[k].status = "canceled"
    BY <1>4 DEF Cancel, TypeInv, TypeOK, Job
  <2> QED
    BY <1>1, <2>1, <2>2, CoverWorld
<1>5. ASSUME NEW j \in Jobs, NEW s \in Segments, Create(j, s) PROVE CoverInv'
  <2>1. UNCHANGED <<feed, todo>>
    BY <1>5 DEF Create, feederVars
  <2>2. \A k \in Jobs : \/ job'[k] = job[k] /\ steady'[k] = steady[k]
                        \/ job[k].status = "none" /\ job'[k].cursor = NoCursor /\ job'[k].status = "active"
    BY <1>5 DEF Create, TypeInv, TypeOK
  <2> QED
    BY <1>1, <2>1, <2>2, CoverWorld
<1>6. CASE UNCHANGED vars
  BY <1>3, <1>6 DEF vars, tableVars, feederVars
<1>7. CASE \/ Toggle \/ SoftDelete \/ \E old \in SUBSET Contacts : Prune(old)
           \/ \E c \in Contacts : Finish(c) \/ \E s \in Segments : Join(c, s)
  BY <1>3, <1>7 DEF Toggle, SoftDelete, Prune, Finish, Join, tableVars, feederVars
<1>8. ASSUME NEW c \in Contacts, NEW s \in Segments, Leave(c, s) PROVE CoverInv'
  BY <1>3, <1>8 DEF Leave, feederVars
<1> QED
  BY <1>2, <1>4, <1>5, <1>6, <1>7, <1>8 DEF Next

\* Initially there is nothing to cover.
LEMMA CoverInit == Init => CoverInv
BY DEF Init, CoverInv, JobCover, LocalCover, Passed, Drained, NoJob, Outside, Working

\* The cover always holds.
LEMMA CoverAlways == Spec => []CoverInv
<1>1. Init => CoverInv /\ Evidence
  BY CoverInit, OnceInit
<1>2. TypeInv /\ TypeInv' /\ CoverInv /\ Evidence /\ [Next]_vars => CoverInv' /\ Evidence'
  BY CoverKept, EvidenceKept
<1> QED
  BY <1>1, <1>2, TypeAlways, PTL DEF Spec

\* sequence_feeder.go:151: the cursor of an enrollment passes nobody who has
\* been in the segment since it was made, whatever page was cut short by a
\* failure, whichever feeder moved it and however old that feeder's copy was.
THEOREM CursorPassesNobody == Spec => []NobodySkipped
<1>1. CoverInv => NobodySkipped
  BY DEF CoverInv, JobCover, Passed, NobodySkipped
<1> QED
  BY <1>1, CoverAlways, PTL

\* A completed enrollment has enrolled everybody who was in its segment
\* throughout, for any page size and any number of feeders.
THEOREM CompletedMeansEnrolled == Spec => []DrainedMeansEnrolled
<1>1. CoverInv => DrainedMeansEnrolled
  BY DEF CoverInv, JobCover, Drained, DrainedMeansEnrolled
<1> QED
  BY <1>1, CoverAlways, PTL

-----------------------------------------------------------------------------
(* The count of an enrollment is backed by runs it created.                 *)
(*                                                                          *)
(* Every unit of a count, in an enrollment or in a feeder's hands, stands   *)
(* for a contact of its own: own[j] are the contacts behind what job j has  *)
(* counted, held[f] those behind what feeder f has enrolled and not added.  *)

Mine(j) == {c \in Contacts : by[c] = j /\ times[c] > 0}

Backed(own, held) ==
    /\ own \in [Jobs -> SUBSET Contacts] /\ held \in [Feeders -> SUBSET Contacts]
    /\ \A j \in Jobs : own[j] \subseteq Mine(j) /\ job[j].count <= Cardinality(own[j])
    /\ \A f \in Feeders :
         /\ held[f] \subseteq Mine(feed[f].job)
         /\ feed[f].enrolled <= Cardinality(held[f])
         /\ \A j \in Jobs : held[f] \cap own[j] = {}
         /\ \A g \in Feeders \ {f} : held[f] \cap held[g] = {}

BackedInv == \E own, held : Backed(own, held)

\* Sets of contacts are finite, and their size is a number.
LEMMA ContactSets ==
    ASSUME NEW S \in SUBSET Contacts
    PROVE  IsFiniteSet(S) /\ Cardinality(S) \in Nat
  BY ContactAssumption, FS_Subset, FS_CardinalityType

\* What a feeder holds when a page or an enrollment ends.
LEMMA HeldAfter ==
    /\ \A s \in Steps : Outside(s).enrolled = 0
    /\ \A x \in Local :
         \/ AfterPage(x).enrolled = 0
         \/ AfterPage(x).enrolled = x.enrolled /\ AfterPage(x).job = x.job
<1>1. \A s \in Steps : Outside(s).enrolled = 0
  BY DEF Outside
<1>2. "next" \in Steps
  BY DEF Steps
<1>3. ASSUME NEW x \in Local, x.lastOK # x.cursor
      PROVE  AfterPage(x).enrolled = x.enrolled /\ AfterPage(x).job = x.job
  BY <1>3 DEF AfterPage, Local
<1>4. ASSUME NEW x \in Local, x.lastOK = x.cursor PROVE AfterPage(x).enrolled = 0
  BY <1>1, <1>2, <1>4 DEF AfterPage
<1>5. ASSUME NEW x \in Local
      PROVE  \/ AfterPage(x).enrolled = 0
             \/ AfterPage(x).enrolled = x.enrolled /\ AfterPage(x).job = x.job
  BY <1>3, <1>4
<1> QED
  BY <1>1, <1>5

\* Whom an enrollment has enrolled stays with it: a second enrollment would
\* take the contact over, and there is none.
LEMMA MineGrows ==
    ASSUME TypeInv, OnceInv, Evidence, [Next]_vars
    PROVE  \A c \in Contacts : times[c] > 0 => times'[c] > 0 /\ by'[c] = by[c]
<1>t. times \in [Contacts -> Nat] /\ times' \in [Contacts -> Nat] /\ by \in [Contacts -> Jobs \cup {Nobody}]
  BY TypeStep DEF TypeInv, TypeOK
<1>1. \A c \in Contacts : times'[c] >= times[c]
  BY EvidenceKept
<1>2. ASSUME NEW c \in Contacts, NEW j, ClaimAndRun(c, j)
      PROVE  \A d \in Contacts : times[d] > 0 => by'[d] = by[d]
  BY <1>2, <1>t DEF ClaimAndRun, Inserts, OnceInv, Proven, Enrolled
<1>3. UNCHANGED by \/ \E c \in Contacts : \E j : ClaimAndRun(c, j)
  <2>1. ASSUME NEW f \in Feeders, FeederStep(f) \/ Crash(f)
        PROVE  UNCHANGED by \/ \E c \in Contacts : \E j : ClaimAndRun(c, j)
    <3>1. CASE \E c \in Contacts : Enroll(f, c) \/ EnrollFails(f, c)
      BY <3>1 DEF Enroll, EnrollFails
    <3>2. CASE Boot(f) \/ Tick(f) \/ TickEnds(f) \/ \E e \in Entry : Load(f, e)
      BY <3>2 DEF Boot, Tick, TickEnds, Load, tableVars
    <3>3. CASE Resolve(f) \/ Count(f) \/ Advance(f) \/ Complete(f) \/ Crash(f)
      BY <3>3 DEF Resolve, Count, Advance, Complete, Crash, tableVars
    <3> QED
      BY <2>1, <3>1, <3>2, <3>3 DEF FeederStep
  <2>2. ASSUME UNCHANGED vars \/ Next, ~(\E f \in Feeders : FeederStep(f) \/ Crash(f))
        PROVE  UNCHANGED by
    BY <2>2 DEF Next, Cancel, Create, Toggle, SoftDelete, Finish, Join, Leave, Prune, vars, tableVars
  <2> QED
    BY <2>1, <2>2
<1>4. \A c \in Contacts : times[c] > 0 => times'[c] > 0
  BY <1>1, <1>t
<1> QED
  BY <1>2, <1>3, <1>4

\* A step that adds nothing to a count: a feeder goes on with what it holds, or
\* drops it.
LEMMA BackedFrame ==
    ASSUME TypeInv, TypeInv', BackedInv,
           \A c \in Contacts : times[c] > 0 => times'[c] > 0 /\ by'[c] = by[c],
           \A j \in Jobs : job'[j].count = job[j].count \/ job'[j].count = 0,
           \A f \in Feeders : \/ feed'[f].enrolled = 0
                              \/ feed'[f].enrolled = feed[f].enrolled /\ feed'[f].job = feed[f].job
    PROVE  BackedInv'
<1>1. PICK own, held : Backed(own, held)
  BY DEF BackedInv
<1>k. PICK kept : kept = [f \in Feeders |-> IF feed'[f].enrolled = 0 THEN {} ELSE held[f]]
  OBVIOUS
<1>2. own \in [Jobs -> SUBSET Contacts] /\ kept \in [Feeders -> SUBSET Contacts]
  BY <1>1, <1>k DEF Backed
<1>3. \A j : Mine(j) \subseteq Mine(j)'
  BY DEF Mine
<1>4. \A j \in Jobs : own[j] \subseteq Mine(j)' /\ job'[j].count <= Cardinality(own[j])
  BY <1>1, <1>2, <1>3, ContactSets DEF Backed
<1>5. ASSUME NEW f \in Feeders
      PROVE  /\ kept[f] \subseteq Mine(feed[f].job)'
             /\ feed'[f].enrolled <= Cardinality(kept[f])
  <2>1. CASE feed'[f].enrolled = 0
    BY <2>1, <1>k, FS_EmptySet
  <2>2. CASE feed'[f].enrolled # 0
    BY <2>2, <1>k, <1>1, <1>3 DEF Backed, Mine
  <2> QED
    BY <2>1, <2>2
<1>6. \A f \in Feeders : /\ \A j \in Jobs : kept[f] \cap own[j] = {}
                         /\ \A g \in Feeders \ {f} : kept[f] \cap kept[g] = {}
  BY <1>1, <1>k DEF Backed
<1>7. Backed(own, kept)'
  BY <1>2, <1>4, <1>5, <1>6 DEF Backed
<1> QED
  BY <1>7 DEF BackedInv

\* An enrolled contact is one more for the feeder, and a new one.
LEMMA BackedEnroll ==
    ASSUME TypeInv, TypeInv', OnceInv, BackedInv,
           NEW f \in Feeders, NEW c \in Contacts, Enroll(f, c),
           \A d \in Contacts : times[d] > 0 => times'[d] > 0 /\ by'[d] = by[d]
    PROVE  BackedInv'
<1> DEFINE local == [feed[f] EXCEPT !.rows = @ \ {c}, !.lastOK = c, !.enrolled = @ + Gained(c)]
<1>t. feed \in [Feeders -> Local] /\ feed[f] \in Local /\ feed'[f] \in Local /\ feed[f].enrolled \in Nat
  BY DEF TypeInv, TypeOK, Local
<1>0. UNCHANGED job /\ \A g \in Feeders \ {f} : feed'[g] = feed[g]
  BY <1>t DEF Enroll
<1>1. local.enrolled = feed[f].enrolled + Gained(c) /\ local.job = feed[f].job
  BY <1>t DEF Local
<1>2. feed'[f] = local \/ feed'[f] = AfterPage(local)
  BY <1>t DEF Enroll
<1>3. \/ feed'[f].enrolled = 0
      \/ feed'[f].enrolled = feed[f].enrolled + Gained(c) /\ feed'[f].job = feed[f].job
  <2>1. \/ AfterPage(local).enrolled = 0
        \/ AfterPage(local).enrolled = local.enrolled /\ AfterPage(local).job = local.job
    <3>1. local \in Local
      <4>1. feed[f].enrolled + Gained(c) \in Nat /\ feed[f].rows \ {c} \in SUBSET Contacts
        BY <1>t DEF Gained, Local
      <4> QED
        BY <1>t, <4>1 DEF Local
    <3> HIDE DEF local
    <3> QED
      BY <3>1, HeldAfter
  <2> HIDE DEF local
  <2> QED
    BY <1>1, <1>2, <2>1
<1>4. CASE feed'[f].enrolled = 0 \/ ~Inserts(c)
  <2>1. ~Inserts(c) => feed[f].enrolled + Gained(c) = feed[f].enrolled
    BY <1>t DEF Gained
  <2> QED
    BY <1>0, <1>3, <1>4, <2>1, BackedFrame
<1>5. CASE feed'[f].enrolled # 0 /\ Inserts(c)
  <2>1. PICK own, held : Backed(own, held)
    BY DEF BackedInv
  <2> DEFINE more == [held EXCEPT ![f] = @ \cup {c}]
  <2>2. own \in [Jobs -> SUBSET Contacts] /\ held \in [Feeders -> SUBSET Contacts]
        /\ more \in [Feeders -> SUBSET Contacts]
    BY <2>1 DEF Backed
  <2>3. times[c] = 0 /\ times'[c] > 0 /\ by'[c] = feed[f].job
    BY <1>5 DEF Enroll, ClaimAndRun, Inserts, OnceInv, Proven, Enrolled, TypeInv, TypeOK
  <2>4. \A j : c \notin Mine(j)
    BY <2>3 DEF Mine
  <2>5. \A j : Mine(j) \subseteq Mine(j)'
    BY DEF Mine
  <2>6. \A j \in Jobs : own[j] \subseteq Mine(j)' /\ job'[j].count <= Cardinality(own[j])
    BY <1>0, <2>1, <2>5 DEF Backed
  <2>7. c \notin held[f] /\ more[f] = held[f] \cup {c} /\ \A g \in Feeders \ {f} : more[g] = held[g]
    BY <2>1, <2>2, <2>4 DEF Backed
  <2>8. feed'[f].enrolled = feed[f].enrolled + 1 /\ feed'[f].job = feed[f].job
    BY <1>3, <1>5 DEF Gained
  <2>9. Cardinality(more[f]) = Cardinality(held[f]) + 1 /\ Cardinality(held[f]) \in Nat
    BY <2>2, <2>7, ContactSets, FS_AddElement
  <2>10. feed[f].enrolled <= Cardinality(held[f])
    BY <2>1 DEF Backed
  <2>11. feed'[f].enrolled <= Cardinality(more[f])
    BY <1>t, <2>8, <2>9, <2>10
  <2>12. more[f] \subseteq {d \in Contacts : by'[d] = feed'[f].job /\ times'[d] > 0}
    BY <2>1, <2>2, <2>3, <2>5, <2>7, <2>8 DEF Backed, Mine
  <2>13. \A g \in Feeders \ {f} :
            /\ more[g] \subseteq {d \in Contacts : by'[d] = feed'[g].job /\ times'[d] > 0}
            /\ feed'[g].enrolled <= Cardinality(more[g])
    BY <1>0, <2>1, <2>5, <2>7 DEF Backed, Mine
  <2>14. \A g \in Feeders : /\ \A j \in Jobs : more[g] \cap own[j] = {}
                            /\ \A h \in Feeders \ {g} : more[g] \cap more[h] = {}
    <3>1. \A j \in Jobs : c \notin own[j]
      BY <2>1, <2>4 DEF Backed
    <3>2. \A g \in Feeders : c \notin held[g]
      BY <2>1, <2>4 DEF Backed
    <3> HIDE DEF more
    <3> QED
      BY <2>1, <2>7, <3>1, <3>2 DEF Backed
  <2>15. Backed(own, more)'
    <3> HIDE DEF more
    <3> QED
      BY <2>2, <2>6, <2>11, <2>12, <2>13, <2>14 DEF Backed, Mine
  <2> QED
    BY <2>15 DEF BackedInv
<1> QED
  BY <1>4, <1>5

\* Adding to the count hands the contacts over.
LEMMA BackedCount ==
    ASSUME TypeInv, TypeInv', BackedInv, NEW f \in Feeders, Count(f)
    PROVE  BackedInv'
<1>j. PICK j : j = feed[f].job
  OBVIOUS
<1>t. /\ feed \in [Feeders -> Local] /\ feed[f].enrolled \in Nat /\ job \in [Jobs -> Job]
      /\ j \in Jobs /\ job[j].count \in Nat
  <2>1. feed[f].step \in Working
    BY DEF Count, Working
  <2> QED
    BY <1>j, <2>1 DEF TypeInv, TypeOK, Shape, Local, Job
<1>0. UNCHANGED <<by, times>> /\ \A g \in Feeders \ {f} : feed'[g] = feed[g]
  BY <1>t DEF Count
<1>1. feed'[f].enrolled = 0
  BY <1>t DEF Count, Outside, Local
<1>2. CASE UNCHANGED job
  BY <1>0, <1>1, <1>2, BackedFrame
<1>3. CASE job' = [job EXCEPT ![j] = [job[j] EXCEPT !.count = @ + feed[f].enrolled]]
  <2>1. PICK own, held : Backed(own, held)
    BY DEF BackedInv
  <2> DEFINE given == [own EXCEPT ![j] = @ \cup held[f]]
             left == [held EXCEPT ![f] = {}]
  <2>2. /\ own \in [Jobs -> SUBSET Contacts] /\ held \in [Feeders -> SUBSET Contacts]
        /\ given \in [Jobs -> SUBSET Contacts] /\ left \in [Feeders -> SUBSET Contacts]
    BY <1>t, <2>1 DEF Backed
  <2>3. given[j] = own[j] \cup held[f] /\ \A k \in Jobs \ {j} : given[k] = own[k]
    BY <1>t, <2>2
  <2>4. left[f] = {} /\ \A g \in Feeders \ {f} : left[g] = held[g]
    BY <2>2
  <2>5. own[j] \cap held[f] = {}
    BY <1>t, <2>1 DEF Backed
  <2>a. /\ IsFiniteSet(own[j]) /\ IsFiniteSet(held[f])
        /\ Cardinality(own[j]) \in Nat /\ Cardinality(held[f]) \in Nat
    BY <1>t, <2>2, ContactSets
  <2>6. Cardinality(given[j]) = Cardinality(own[j]) + Cardinality(held[f])
    <3>1. Cardinality(own[j] \cup held[f]) =
            Cardinality(own[j]) + Cardinality(held[f]) - Cardinality(own[j] \cap held[f])
      BY <2>a, FS_Union
    <3>2. Cardinality(own[j] \cap held[f]) = 0
      BY <2>5, FS_EmptySet
    <3> HIDE DEF given
    <3> QED
      BY <2>3, <2>a, <3>1, <3>2
  <2>7. /\ job'[j].count = job[j].count + feed[f].enrolled
        /\ \A k \in Jobs \ {j} : job'[k] = job[k]
    BY <1>3, <1>t DEF Job
  <2>8. job'[j].count <= Cardinality(given[j])
    <3>1. job[j].count <= Cardinality(own[j]) /\ feed[f].enrolled <= Cardinality(held[f])
      BY <1>t, <2>1 DEF Backed
    <3> HIDE DEF given
    <3> QED
      BY <1>t, <2>a, <2>6, <2>7, <3>1
  <2>9. \A k : Mine(k)' = Mine(k)
    BY <1>0 DEF Mine
  <2>10. \A k \in Jobs : given[k] \subseteq Mine(k) /\ job'[k].count <= Cardinality(given[k])
    <3> HIDE DEF given
    <3> QED
      BY <1>j, <1>t, <2>1, <2>3, <2>7, <2>8 DEF Backed
  <2>11. ASSUME NEW g \in Feeders
         PROVE  /\ left[g] \subseteq Mine(feed[g].job)'
                /\ feed'[g].enrolled <= Cardinality(left[g])
    <3> HIDE DEF left
    <3>1. CASE g = f
      BY <1>1, <2>4, <3>1, FS_EmptySet
    <3>2. CASE g # f
      BY <1>0, <2>1, <2>4, <3>2 DEF Backed, Mine
    <3> QED
      BY <3>1, <3>2
  <2>12. \A g \in Feeders : /\ \A k \in Jobs : left[g] \cap given[k] = {}
                            /\ \A h \in Feeders \ {g} : left[g] \cap left[h] = {}
    <3> HIDE DEF left, given
    <3> QED
      BY <1>t, <2>1, <2>3, <2>4 DEF Backed
  <2>13. Backed(given, left)'
    <3> HIDE DEF given, left
    <3> QED
      BY <2>2, <2>9, <2>10, <2>11, <2>12 DEF Backed
  <2> QED
    BY <2>13 DEF BackedInv
<1> QED
  BY <1>2, <1>3, <1>j DEF Count, WhileActive

\* Every step keeps the counts backed.
LEMMA BackedKept ==
    ASSUME TypeInv, TypeInv', OnceInv, Evidence, BackedInv, [Next]_vars
    PROVE  BackedInv'
<1>1. \A c \in Contacts : times[c] > 0 => times'[c] > 0 /\ by'[c] = by[c]
  BY MineGrows
<1>t. feed \in [Feeders -> Local] /\ job \in [Jobs -> Job]
  BY DEF TypeInv, TypeOK
<1>2. ASSUME NEW f \in Feeders, NEW c \in Contacts, Enroll(f, c) PROVE BackedInv'
  BY <1>1, <1>2, BackedEnroll
<1>3. ASSUME NEW f \in Feeders, Count(f) PROVE BackedInv'
  BY <1>3, BackedCount
<1>4. ASSUME NEW f \in Feeders, FeederStep(f) \/ Crash(f), ~Count(f),
             ~\E c \in Contacts : Enroll(f, c)
      PROVE  BackedInv'
  <2>1. \A g \in Feeders \ {f} : feed'[g] = feed[g]
    BY <1>4, <1>t DEF FeederStep, Boot, Tick, TickEnds, Load, Resolve, EnrollFails, Advance,
       Complete, Crash
  <2>2. \/ feed'[f].enrolled = 0
        \/ feed'[f].enrolled = feed[f].enrolled /\ feed'[f].job = feed[f].job
    <3>1. CASE Boot(f) \/ Tick(f) \/ TickEnds(f) \/ Advance(f) \/ Complete(f) \/ Crash(f)
      <4>1. \/ feed'[f] = Outside("idle") \/ feed'[f] = Outside("next")
            \/ feed'[f] = Outside("down")
        BY <3>1, <1>t DEF Boot, Tick, TickEnds, Advance, Complete, Crash
      <4> QED
        BY <4>1, HeldAfter DEF Steps
    <3>2. CASE \E e \in Entry : Load(f, e)
      <4>1. PICK e \in Entry : Load(f, e)
        BY <3>2
      <4>2. [Outside("resolve") EXCEPT !.job = e.job, !.cursor = e.cursor,
                                       !.lastOK = e.cursor].enrolled = 0
        BY DEF Outside
      <4>3. \/ feed' = feed
            \/ feed' = [feed EXCEPT ![f] = [Outside("resolve") EXCEPT
                            !.job = e.job, !.cursor = e.cursor, !.lastOK = e.cursor]]
        BY <4>1 DEF Load
      <4> QED
        BY <4>2, <4>3, <1>t
    <3>3. CASE Resolve(f)
      <4> DEFINE rows == NextPage(job[feed[f].job].segment, feed[f].cursor)
                 x == [feed[f] EXCEPT !.rows = rows,
                                      !.step = IF IsEnd(rows) THEN "complete" ELSE "enroll"]
      <4>1. x.enrolled = feed[f].enrolled /\ x.job = feed[f].job
        BY <1>t DEF Local
      <4>2. feed' = [feed EXCEPT ![f] = x] \/ feed' = [feed EXCEPT ![f] = Outside("next")]
        BY <3>3 DEF Resolve
      <4> HIDE DEF x
      <4>3. feed'[f] = x \/ feed'[f] = Outside("next")
        BY <4>2, <1>t
      <4> QED
        BY <4>1, <4>3, HeldAfter DEF Steps
    <3>4. CASE \E c \in Contacts : EnrollFails(f, c)
      <4>1. feed'[f] = AfterPage(feed[f]) /\ feed[f] \in Local
        BY <3>4, <1>t DEF EnrollFails
      <4> QED
        BY <4>1, HeldAfter
    <3> QED
      BY <1>4, <3>1, <3>2, <3>3, <3>4 DEF FeederStep
  <2>3. ASSUME NEW k \in Jobs PROVE job'[k].count = job[k].count
    <3>1. CASE UNCHANGED job
      BY <3>1
    <3>2. CASE \E e \in Entry : Load(f, e)
      BY <3>2, <1>t DEF Load, WhileActive, Job, Entry
    <3>3. CASE Advance(f) \/ Complete(f)
      BY <3>3, <1>t DEF Advance, Complete, WhileActive, Job
    <3> QED
      BY <1>4, <3>1, <3>2, <3>3 DEF FeederStep, Boot, Tick, TickEnds, Resolve, EnrollFails,
         Crash, tableVars
  <2> QED
    BY <1>1, <2>1, <2>2, <2>3, BackedFrame
<1>5. ASSUME UNCHANGED feed, \A j \in Jobs : job'[j].count = job[j].count \/ job'[j].count = 0
      PROVE  BackedInv'
  BY <1>1, <1>5, BackedFrame
<1>6. ASSUME NEW j \in Jobs, Cancel(j) PROVE BackedInv'
  BY <1>5, <1>6, <1>t DEF Cancel, feederVars, Job
<1>7. ASSUME NEW j \in Jobs, NEW s \in Segments, Create(j, s) PROVE BackedInv'
  BY <1>5, <1>7, <1>t DEF Create, feederVars
<1>8. CASE \/ Toggle \/ SoftDelete \/ \E old \in SUBSET Contacts : Prune(old)
           \/ \E c \in Contacts : Finish(c) \/ \E s \in Segments : Join(c, s) \/ Leave(c, s)
  BY <1>5, <1>8 DEF Toggle, SoftDelete, Prune, Finish, Join, Leave, tableVars, feederVars
<1>9. CASE UNCHANGED vars
  BY <1>5, <1>9 DEF vars, tableVars, feederVars
<1> QED
  BY <1>2, <1>3, <1>4, <1>6, <1>7, <1>8, <1>9 DEF Next

\* Initially nothing is counted.
LEMMA BackedInit == Init => BackedInv
<1> SUFFICES ASSUME Init PROVE BackedInv
  OBVIOUS
<1>1. /\ \A j \in Jobs : job[j].count = 0
      /\ \A f \in Feeders : feed[f].enrolled = 0
  BY DEF Init, NoJob, Outside
<1>2. Backed([j \in Jobs |-> {}], [f \in Feeders |-> {}])
  BY <1>1, FS_EmptySet DEF Backed
<1> QED
  BY <1>2 DEF BackedInv

\* The count of an enrollment never claims more than the runs it created, for any
\* number of feeders and enrollments of the same segment, if nobody is enrolled
\* twice: a second enrollment would take a contact over that was counted before.
THEOREM CountNeverInflated ==
    ASSUME BackfillMayFail = FALSE
    PROVE  Spec => []CountIsBacked
<1>1. Init => OnceInv /\ Evidence /\ BackedInv
  BY OnceInit, BackedInit
<1>2. TypeInv /\ TypeInv' /\ OnceInv /\ Evidence /\ BackedInv /\ [Next]_vars =>
        OnceInv' /\ Evidence' /\ BackedInv'
  BY OnceKept, EvidenceKept, BackedKept
<1>3. TypeInv /\ BackedInv => CountIsBacked
  <2> SUFFICES ASSUME TypeInv, BackedInv, NEW j \in Jobs
               PROVE  job[j].count <= Cardinality({c \in Contacts : by[c] = j})
    BY DEF CountIsBacked
  <2> DEFINE all == {c \in Contacts : by[c] = j}
  <2>1. PICK own, held : Backed(own, held)
    BY DEF BackedInv
  <2>2. own[j] \in SUBSET all /\ job[j].count <= Cardinality(own[j])
    BY <2>1 DEF Backed, Mine
  <2>3. IsFiniteSet(all) /\ Cardinality(all) \in Nat
    BY ContactSets
  <2>4. Cardinality(own[j]) <= Cardinality(all) /\ Cardinality(own[j]) \in Nat
    BY <2>2, <2>3, FS_Subset, FS_CardinalityType
  <2>5. job[j].count \in Nat
    BY DEF TypeInv, TypeOK, Job
  <2> QED
    BY <2>2, <2>3, <2>4, <2>5
<1> QED
  BY <1>1, <1>2, <1>3, TypeAlways, PTL DEF Spec

-----------------------------------------------------------------------------
(* Together the feeders implement OnceFeed.                                 *)
(*                                                                          *)
(* The four invariants, which hold after the step as well, give the guards  *)
(* of the abstract actions; the statements of the feeder, each guarded by   *)
(* the status of the row they write, give the rest.                         *)

\* The enrollments as OnceFeed sees them.
StatusOf == [j \in Jobs |-> job[j].status]
PositionOf == [j \in Jobs |-> job[j].cursor]
CountOf == [j \in Jobs |-> job[j].count]

\* The cardinality OnceFeed speaks of.
LEMMA SameCardinality == \A S : Abstract!Cardinality(S) = Cardinality(S)
  BY DEF Cardinality, Abstract!Cardinality

\* One column of one row is written.
LEMMA ColumnWritten ==
    ASSUME TypeInv, NEW j \in Jobs
    PROVE  /\ \A s : job' = [job EXCEPT ![j] = [job[j] EXCEPT !.status = s]] =>
                /\ StatusOf' = [StatusOf EXCEPT ![j] = s]
                /\ UNCHANGED <<PositionOf, CountOf>>
           /\ \A c : job' = [job EXCEPT ![j] = [job[j] EXCEPT !.cursor = c]] =>
                /\ PositionOf' = [PositionOf EXCEPT ![j] = c]
                /\ UNCHANGED <<StatusOf, CountOf>>
           /\ \A n : job' = [job EXCEPT ![j] = [job[j] EXCEPT !.count = n]] =>
                /\ CountOf' = [CountOf EXCEPT ![j] = n]
                /\ UNCHANGED <<StatusOf, PositionOf>>
<1>t. DOMAIN job = Jobs /\ job[j] \in Job
  BY DEF TypeInv, TypeOK
<1>1. ASSUME NEW s, job' = [job EXCEPT ![j] = [job[j] EXCEPT !.status = s]]
      PROVE  /\ StatusOf' = [StatusOf EXCEPT ![j] = s]
             /\ UNCHANGED <<PositionOf, CountOf>>
  <2>1. job'[j].status = s /\ job'[j].cursor = job[j].cursor /\ job'[j].count = job[j].count
    BY <1>t, <1>1 DEF Job
  <2>2. \A k \in Jobs \ {j} : job'[k] = job[k]
    BY <1>t, <1>1
  <2> QED
    BY <2>1, <2>2 DEF StatusOf, PositionOf, CountOf
<1>2. ASSUME NEW c, job' = [job EXCEPT ![j] = [job[j] EXCEPT !.cursor = c]]
      PROVE  /\ PositionOf' = [PositionOf EXCEPT ![j] = c]
             /\ UNCHANGED <<StatusOf, CountOf>>
  <2>1. job'[j].cursor = c /\ job'[j].status = job[j].status /\ job'[j].count = job[j].count
    BY <1>t, <1>2 DEF Job
  <2>2. \A k \in Jobs \ {j} : job'[k] = job[k]
    BY <1>t, <1>2
  <2> QED
    BY <2>1, <2>2 DEF StatusOf, PositionOf, CountOf
<1>3. ASSUME NEW n, job' = [job EXCEPT ![j] = [job[j] EXCEPT !.count = n]]
      PROVE  /\ CountOf' = [CountOf EXCEPT ![j] = n]
             /\ UNCHANGED <<StatusOf, PositionOf>>
  <2>1. job'[j].count = n /\ job'[j].status = job[j].status /\ job'[j].cursor = job[j].cursor
    BY <1>t, <1>3 DEF Job
  <2>2. \A k \in Jobs \ {j} : job'[k] = job[k]
    BY <1>t, <1>3
  <2> QED
    BY <2>1, <2>2 DEF StatusOf, PositionOf, CountOf
<1> QED
  BY <1>1, <1>2, <1>3

\* The initial states are initial states of OnceFeed.
LEMMA OnceFeedInit == Init => Abstract!Init
<1> SUFFICES ASSUME Init PROVE Abstract!Init
  OBVIOUS
<1>1. \A j \in Jobs : job[j].status = "none" /\ job[j].cursor = 0 /\ job[j].count = 0
  BY DEF Init, NoJob, NoCursor
<1>2. times \in [Contacts -> {0, 1}]
  BY DEF Init
<1> QED
  BY <1>1, <1>2 DEF Init, Abstract!Init

\* What OnceFeed sees stays as it was.
Unseen == UNCHANGED <<StatusOf, steady, PositionOf, CountOf, times, by>>

\* What holds after a step whatever the step was.
KeptSound == EnrolledOnce /\ NobodySkipped /\ DrainedMeansEnrolled /\ CountIsBacked

\* What the API does to an enrollment, and a contact that leaves.
LEMMA WorldRefines ==
    ASSUME TypeInv
    PROVE  /\ \A j \in Jobs : Cancel(j) => Abstract!Cancel(j)
           /\ \A j \in Jobs, s \in Segments : Create(j, s) =>
                \E cs \in SUBSET Contacts : Abstract!Create(j, cs)
           /\ \A c \in Contacts, s \in Segments : Leave(c, s) =>
                \E js \in SUBSET Jobs : Abstract!Release(c, js)
<1>1. ASSUME NEW j \in Jobs, Cancel(j) PROVE Abstract!Cancel(j)
  <2>1. StatusOf' = [StatusOf EXCEPT ![j] = "canceled"] /\ UNCHANGED <<PositionOf, CountOf>>
    BY <1>1, ColumnWritten DEF Cancel
  <2>2. UNCHANGED <<steady, times, by>> /\ job[j].status \in {"active", "blocked"}
    BY <1>1 DEF Cancel
  <2> QED
    BY <2>1, <2>2 DEF Abstract!Cancel, StatusOf, PositionOf, CountOf
<1>2. ASSUME NEW j \in Jobs, NEW s \in Segments, Create(j, s)
      PROVE  \E cs \in SUBSET Contacts : Abstract!Create(j, cs)
  <2>1. DOMAIN job = Jobs
    BY DEF TypeInv, TypeOK
  <2>6. PICK cs \in SUBSET Contacts : cs = members[s]
    BY DEF TypeInv, TypeOK
  <2>2. job'[j].status = "active" /\ job'[j].cursor = 0 /\ job'[j].count = 0
    BY <1>2, <2>1 DEF Create, NoCursor
  <2>3. \A k \in Jobs \ {j} : job'[k] = job[k]
    BY <1>2, <2>1 DEF Create
  <2>4. /\ StatusOf' = [StatusOf EXCEPT ![j] = "active"]
        /\ PositionOf' = [PositionOf EXCEPT ![j] = 0] /\ CountOf' = [CountOf EXCEPT ![j] = 0]
    BY <2>2, <2>3 DEF StatusOf, PositionOf, CountOf
  <2>5. job[j].status = "none" /\ steady' = [steady EXCEPT ![j] = cs] /\ UNCHANGED <<times, by>>
    BY <1>2, <2>6 DEF Create
  <2>7. Abstract!Create(j, cs)
    BY <2>4, <2>5 DEF Abstract!Create, StatusOf, PositionOf, CountOf
  <2> QED
    BY <2>7
<1>3. ASSUME NEW c \in Contacts, NEW s \in Segments, Leave(c, s)
      PROVE  \E js \in SUBSET Jobs : Abstract!Release(c, js)
  <2>1. PICK js \in SUBSET Jobs : js = {j \in Jobs : job[j].segment = s}
    OBVIOUS
  <2>2. Abstract!Release(c, js)
    BY <1>3, <2>1 DEF Leave, Abstract!Release
  <2> QED
    BY <2>2
<1> QED
  BY <1>1, <1>2, <1>3

\* A claim that inserts a run enrolls a contact for the first time.
LEMMA EnrollRefines ==
    ASSUME TypeInv, EnrolledOnce', NEW f \in Feeders, NEW c \in Contacts,
           Enroll(f, c) \/ EnrollFails(f, c)
    PROVE  Unseen \/ \E j \in Jobs : Abstract!Enroll(c, j)
<1>1. PICK j \in Jobs : j = feed[f].job /\ job[j].status # "none"
  BY DEF Enroll, EnrollFails, TypeInv, Shape, Working
<1>2. UNCHANGED <<job, steady>>
  BY DEF Enroll, EnrollFails
<1>3. ClaimAndRun(c, j) \/ UNCHANGED <<times, by>>
  BY <1>1 DEF Enroll, EnrollFails
<1>4. CASE UNCHANGED <<times, by>>
  BY <1>2, <1>4 DEF Unseen, StatusOf, PositionOf, CountOf
<1>5. CASE ClaimAndRun(c, j) /\ Inserts(c)
  <2>1. times' = [times EXCEPT ![c] = @ + 1] /\ by' = [by EXCEPT ![c] = j]
    BY <1>5 DEF ClaimAndRun
  <2>2. DOMAIN times = Contacts /\ times[c] \in Nat
    BY DEF TypeInv, TypeOK
  <2>3. times'[c] = times[c] + 1
    BY <2>1, <2>2
  <2>4. times'[c] <= 1
    BY DEF EnrolledOnce
  <2>5. times[c] = 0
    BY <2>2, <2>3, <2>4
  <2>6. Abstract!Enroll(c, j)
    BY <1>1, <1>2, <2>1, <2>5 DEF Abstract!Enroll
  <2> QED
    BY <2>6
<1>6. CASE ClaimAndRun(c, j) /\ ~Inserts(c)
  BY <1>4, <1>6 DEF ClaimAndRun
<1> QED
  BY <1>3, <1>4, <1>5, <1>6

\* The statements of a feeder that write an enrollment.
LEMMA WriteRefines ==
    ASSUME TypeInv, TypeInv', KeptSound', NEW f \in Feeders,
           (\E e \in Entry : Load(f, e)) \/ Count(f) \/ Advance(f) \/ Complete(f)
    PROVE  \/ Unseen
           \/ \E j \in Jobs :
                \/ Abstract!Block(j) \/ Abstract!Report(j) \/ Abstract!Complete(j)
                \/ \E x \in Contacts : Abstract!Reach(j, x)
<1> DEFINE Seen == \E j \in Jobs :
                     \/ Abstract!Block(j) \/ Abstract!Report(j) \/ Abstract!Complete(j)
                     \/ \E x \in Contacts : Abstract!Reach(j, x)
<1>u. UNCHANGED <<steady, times, by>>
  BY DEF Load, Count, Advance, Complete
<1>s. UNCHANGED job => Unseen
  BY <1>u DEF Unseen, StatusOf, PositionOf, CountOf
<1>t. /\ times \in [Contacts -> Nat] /\ steady \in [Jobs -> SUBSET Contacts]
      /\ \A j \in Jobs : job[j].count \in Nat /\ job[j].cursor \in Contacts \cup {0}
      /\ Contacts \subseteq Nat
  BY ContactAssumption DEF TypeInv, TypeOK, Job, NoCursor
<1>o. ASSUME NEW c \in Contacts, times[c] > 0 PROVE times[c] = 1
  <2>1. times'[c] <= 1
    BY DEF KeptSound, EnrolledOnce
  <2>2. times[c] \in Nat /\ times[c] <= 1
    BY <1>t, <1>u, <2>1
  <2> QED
    BY <1>o, <2>2
<1>f. feed[f].step \in Working => feed[f].job \in Jobs
  BY DEF TypeInv, Shape
<1>1. ASSUME NEW e \in Entry, Load(f, e) PROVE Unseen \/ Seen
  <2>1. UNCHANGED job \/ job' = WhileActive(e.job, [job[e.job] EXCEPT !.status = "blocked"])
    BY <1>1 DEF Load
  <2>2. CASE job[e.job].status = "active" /\ job' = [job EXCEPT ![e.job] = [job[e.job] EXCEPT !.status = "blocked"]]
    <3>1. e.job \in Jobs
      BY DEF Entry
    <3>2. StatusOf' = [StatusOf EXCEPT ![e.job] = "blocked"] /\ UNCHANGED <<PositionOf, CountOf>>
      BY <2>2, <3>1, ColumnWritten
    <3>3. Abstract!Block(e.job)
      BY <2>2, <3>1, <3>2, <1>u DEF Abstract!Block, StatusOf, PositionOf, CountOf
    <3> QED
      BY <3>1, <3>3
  <2> QED
    BY <1>s, <2>1, <2>2 DEF WhileActive
<1>2. CASE Count(f)
  <2>0. feed[f].job \in Jobs /\ feed[f].enrolled \in Nat
    BY <1>2, <1>f DEF Count, Working, TypeInv, TypeOK, Local
  <2>1. PICK j \in Jobs : j = feed[f].job
    BY <2>0
  <2> DEFINE n == job[j].count + feed[f].enrolled
             mine == {c \in Contacts : by[c] = j}
  <2>2. UNCHANGED job \/ job' = WhileActive(j, [job[j] EXCEPT !.count = n])
    BY <1>2, <2>1 DEF Count
  <2>3. CASE job[j].status = "active" /\ job' = [job EXCEPT ![j] = [job[j] EXCEPT !.count = n]]
    <3> HIDE DEF n
    <3>1. CountOf' = [CountOf EXCEPT ![j] = n] /\ UNCHANGED <<StatusOf, PositionOf>>
      BY <2>1, <2>3, ColumnWritten
    <3>2. job[j].count \in Nat /\ n \in Nat /\ n >= job[j].count
      BY <1>t, <2>0 DEF n
    <3>3. CASE n = job[j].count
      <4>1. CountOf' = CountOf
        BY <2>1, <3>1, <3>3 DEF CountOf
      <4> QED
        BY <1>u, <3>1, <4>1 DEF Unseen
    <3>4. CASE n > job[j].count
      <4>1. job'[j].count = n
        BY <2>1, <3>1 DEF CountOf
      <4>2. n <= Cardinality(mine)
        BY <1>u, <2>1, <4>1 DEF KeptSound, CountIsBacked
      <4>3. Cardinality(mine) \in Nat
        BY ContactSets
      <4>4. n \in (job[j].count + 1)..Cardinality(mine)
        <5> HIDE DEF mine
        <5> QED
          BY <3>2, <3>4, <4>2, <4>3
      <4>5. Abstract!Report(j)
        BY <1>u, <2>1, <2>3, <3>1, <4>4, SameCardinality DEF Abstract!Report, StatusOf, PositionOf, CountOf
      <4> QED
        BY <2>1, <4>5
    <3> QED
      BY <3>2, <3>3, <3>4
  <2> QED
    BY <1>s, <2>2, <2>3 DEF WhileActive
<1>3. CASE Advance(f)
  <2>0. feed[f].job \in Jobs /\ feed[f].lastOK \in Contacts \cup {0}
    BY <1>3, <1>f DEF Advance, Working, TypeInv, TypeOK, Local, NoCursor
  <2>1. PICK j \in Jobs, x \in Contacts \cup {0} : j = feed[f].job /\ x = feed[f].lastOK
    BY <2>0
  <2>2. UNCHANGED job \/ (job[j].cursor < x /\ job' = WhileActive(j, [job[j] EXCEPT !.cursor = x]))
    BY <1>3, <2>1 DEF Advance, Further
  <2>3. CASE /\ job[j].cursor < x /\ job[j].status = "active"
             /\ job' = [job EXCEPT ![j] = [job[j] EXCEPT !.cursor = x]]
    <3>1. PositionOf' = [PositionOf EXCEPT ![j] = x] /\ UNCHANGED <<StatusOf, CountOf>>
      BY <2>1, <2>3, ColumnWritten
    <3>2. x \in Contacts
      BY <1>t, <2>1, <2>3
    <3>3. job'[j].cursor = x
      BY <2>1, <3>1 DEF PositionOf
    <3>4. \A c \in steady[j] : c <= x => times[c] = 1
      BY <1>u, <1>t, <1>o, <2>1, <3>3 DEF KeptSound, NobodySkipped
    <3>5. Abstract!Reach(j, x)
      BY <1>u, <2>1, <2>3, <3>1, <3>4 DEF Abstract!Reach, Abstract!Settled, StatusOf, PositionOf, CountOf
    <3> QED
      BY <2>1, <3>2, <3>5
  <2> QED
    BY <1>s, <2>2, <2>3 DEF WhileActive
<1>4. CASE Complete(f)
  <2>1. PICK j \in Jobs : j = feed[f].job
    BY <1>4, <1>f DEF Complete, Working
  <2>2. UNCHANGED job \/ job' = WhileActive(j, [job[j] EXCEPT !.status = "completed"])
    BY <1>4, <2>1 DEF Complete
  <2>3. CASE job[j].status = "active" /\ job' = [job EXCEPT ![j] = [job[j] EXCEPT !.status = "completed"]]
    <3>1. StatusOf' = [StatusOf EXCEPT ![j] = "completed"] /\ UNCHANGED <<PositionOf, CountOf>>
      BY <2>1, <2>3, ColumnWritten
    <3>2. job'[j].status = "completed"
      BY <2>1, <3>1 DEF StatusOf
    <3>3. \A c \in steady[j] : times[c] = 1
      BY <1>u, <1>t, <1>o, <2>1, <3>2 DEF KeptSound, DrainedMeansEnrolled
    <3>4. Abstract!Complete(j)
      BY <1>u, <2>1, <2>3, <3>1, <3>3 DEF Abstract!Complete, Abstract!Settled, StatusOf, PositionOf, CountOf
    <3> QED
      BY <2>1, <3>4
  <2> QED
    BY <1>s, <2>2, <2>3 DEF WhileActive
<1> QED
  BY <1>1, <1>2, <1>3, <1>4

\* Every step is a step of OnceFeed, or none.
LEMMA OnceFeedStep ==
    ASSUME TypeInv, TypeInv', KeptSound', [Next]_vars
    PROVE  [Abstract!Next]_(Abstract!vars)
<1>0. Unseen => UNCHANGED Abstract!vars
  BY DEF Unseen, Abstract!vars, StatusOf, PositionOf, CountOf
<1>u. UNCHANGED <<job, steady, times, by>> => Unseen
  BY DEF Unseen, StatusOf, PositionOf, CountOf
<1>1. ASSUME NEW j \in Jobs, Cancel(j) \/ \E s \in Segments : Create(j, s)
      PROVE  Abstract!Next
  BY <1>1, WorldRefines DEF Abstract!Next
<1>2. ASSUME NEW c \in Contacts, NEW s \in Segments, Leave(c, s) PROVE Abstract!Next
  BY <1>2, WorldRefines DEF Abstract!Next
<1>3. ASSUME \/ Toggle \/ SoftDelete \/ UNCHANGED vars
             \/ \E c \in Contacts : Finish(c) \/ \E s \in Segments : Join(c, s)
             \/ \E old \in SUBSET Contacts : Prune(old)
      PROVE  Unseen
  BY <1>3, <1>u DEF Toggle, SoftDelete, Finish, Join, Prune, vars, tableVars
<1>4. ASSUME NEW f \in Feeders, NEW c \in Contacts, Enroll(f, c) \/ EnrollFails(f, c)
      PROVE  Unseen \/ Abstract!Next
  <2>1. EnrolledOnce'
    BY DEF KeptSound
  <2> QED
    BY <1>4, <2>1, EnrollRefines DEF Abstract!Next
<1>5. ASSUME NEW f \in Feeders, (\E e \in Entry : Load(f, e)) \/ Count(f) \/ Advance(f) \/ Complete(f)
      PROVE  Unseen \/ Abstract!Next
  BY <1>5, WriteRefines DEF Abstract!Next
<1>6. ASSUME NEW f \in Feeders, Boot(f) \/ Tick(f) \/ TickEnds(f) \/ Resolve(f) \/ Crash(f)
      PROVE  Unseen
  BY <1>6, <1>u DEF Boot, Tick, TickEnds, Resolve, Crash, tableVars
<1>7. ASSUME NEW f \in Feeders, FeederStep(f) \/ Crash(f) PROVE Unseen \/ Abstract!Next
  BY <1>4, <1>5, <1>6, <1>7 DEF FeederStep
<1>8. Next \/ UNCHANGED vars
  OBVIOUS
<1> QED
  BY <1>0, <1>1, <1>2, <1>3, <1>7, <1>8 DEF Next

\* The ticks, pages, claims and cursors of any number of feeders, with crashes,
\* failed statements, the pruner and an API that switches, deletes and cancels,
\* implement OnceFeed, if the claim backfill of a boot succeeds: an enrollment
\* that ended has ended, positions and counts only rise, and nobody is enrolled
\* twice or passed over.
THEOREM FeederImplementsOnceFeed ==
    ASSUME BackfillMayFail = FALSE
    PROVE  Spec => ImplementsOnceFeed
<1>1. TypeInv /\ TypeInv' /\ KeptSound' /\ [Next]_vars => [Abstract!Next]_(Abstract!vars)
  BY OnceFeedStep
<1>2. EnrolledOnce /\ NobodySkipped /\ DrainedMeansEnrolled /\ CountIsBacked => KeptSound
  BY DEF KeptSound
<1> QED
  BY <1>1, <1>2, OnceFeedInit, TypeAlways, EnrolledAtMostOnce, CursorPassesNobody,
     CompletedMeansEnrolled, CountNeverInflated, PTL DEF Spec, ImplementsOnceFeed, Abstract!Spec

=============================================================================
