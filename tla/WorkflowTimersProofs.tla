------------------------ MODULE WorkflowTimersProofs ------------------------
(***************************************************************************)
(* Proofs about WorkflowTimers, for any triggers, records, requests, writes   *)
(* and bounds. That every variable keeps its type needs that a new row always  *)
(* finds an id, so that only finitely many are in use at a time.               *)
(***************************************************************************)
EXTENDS WorkflowTimers, FiniteSetTheorems, TLAPS

-----------------------------------------------------------------------------
(* Operators.                                                                *)

\* The next occurrence of a cron expression is one of its times, and lies ahead.
LEMMA NextFireIs ==
    ASSUME NEW s \in Schedules, NEW t \in 0..MaxTime
    PROVE  NextFire(s, t) \in Nat /\ NextFire(s, t) \in Occurs[s] /\ NextFire(s, t) > t
<1> DEFINE S == {o \in Occurs[s] : o > t}
<1>1. PICK o \in S : \A p \in S : o <= p
  BY TriggerAssumption
<1>2. Min(S) \in S
  BY <1>1 DEF Min
<1>3. S \subseteq Nat
  BY TriggerAssumption
<1> QED
  BY <1>2, <1>3 DEF NextFire

\* What a function makes of the members of a finite set is finite.
LEMMA ImageFinite ==
    ASSUME NEW S, IsFiniteSet(S), NEW f
    PROVE  IsFiniteSet({f[x] : x \in S})
<1> DEFINE T == {f[x] : x \in S}
           g == [x \in S |-> f[x]]
<1>1. g \in Surjection(S, T)
  BY DEF Surjection
<1> QED
  BY <1>1, FS_Surjection

\* No finite set holds all the numbers up to its size.
LEMMA FreshNumber ==
    ASSUME NEW S, IsFiniteSet(S)
    PROVE  \E g \in 0..Cardinality(S) : g \notin S
<1> DEFINE n == Cardinality(S)
<1>1. n \in Nat
  BY FS_CardinalityType
<1>2. Cardinality(0..n) = n + 1
  BY <1>1, FS_Interval
<1> SUFFICES ASSUME 0..n \in SUBSET S PROVE FALSE
  OBVIOUS
<1>3. Cardinality(0..n) <= n
  BY FS_Subset
<1> QED
  BY <1>1, <1>2, <1>3

-----------------------------------------------------------------------------
(* The rows in use are finitely many, so a new row finds an id.               *)

FiniteInv ==
    /\ IsFiniteSet(pending) /\ IsFiniteSet(fired) /\ IsFiniteSet(scan.due) /\ IsFiniteSet(scan.cur)
    /\ \A p \in Requests \cup {Scanner} : IsFiniteSet(arm[p].targets)
    /\ \A q \in Requests : IsFiniteSet(req[q].targets) /\ IsFiniteSet(swap[q].targets) /\ IsFiniteSet(swap[q].found)
    /\ \A w \in Writes : IsFiniteSet(write[w].targets) /\ IsFiniteSet(write[w].keys)

LEMMA HeldFinite == TypeOK /\ FiniteInv => IsFiniteSet(Held)
<1> SUFFICES ASSUME TypeOK, FiniteInv PROVE IsFiniteSet(Held)
  OBVIOUS
<1>1. IsFiniteSet(Requests) /\ IsFiniteSet(Writes) /\ IsFiniteSet(Requests \cup {Scanner})
  BY TimerBoundAssumption, FS_AddElement
<1>2. IsFiniteSet(UNION {arm[p].targets : p \in DOMAIN arm})
  <2> DEFINE f == [p \in Requests \cup {Scanner} |-> arm[p].targets]
  <2>d. DOMAIN arm = Requests \cup {Scanner}
    BY DEF TypeOK
  <2>1. {arm[p].targets : p \in DOMAIN arm} = {f[p] : p \in Requests \cup {Scanner}}
    BY <2>d
  <2>2. IsFiniteSet({f[p] : p \in Requests \cup {Scanner}})
    <3> HIDE DEF f
    <3> QED
      BY <1>1, ImageFinite
  <2> QED
    BY <2>1, <2>2, FS_UNION DEF FiniteInv
<1>3. IsFiniteSet(UNION {req[q].targets : q \in Requests})
  <2> DEFINE f == [q \in Requests |-> req[q].targets]
  <2>1. {req[q].targets : q \in Requests} = {f[q] : q \in Requests}
    OBVIOUS
  <2>2. IsFiniteSet({f[q] : q \in Requests})
    <3> HIDE DEF f
    <3> QED
      BY <1>1, ImageFinite
  <2> QED
    BY <2>1, <2>2, FS_UNION DEF FiniteInv
<1>4. IsFiniteSet(UNION {write[w].targets : w \in Writes})
  <2> DEFINE f == [w \in Writes |-> write[w].targets]
  <2>1. {write[w].targets : w \in Writes} = {f[w] : w \in Writes}
    OBVIOUS
  <2>2. IsFiniteSet({f[w] : w \in Writes})
    <3> HIDE DEF f
    <3> QED
      BY <1>1, ImageFinite
  <2> QED
    BY <2>1, <2>2, FS_UNION DEF FiniteInv
<1>5. IsFiniteSet(UNION {swap[q].targets : q \in Requests})
  <2> DEFINE f == [q \in Requests |-> swap[q].targets]
  <2>1. {swap[q].targets : q \in Requests} = {f[q] : q \in Requests}
    OBVIOUS
  <2>2. IsFiniteSet({f[q] : q \in Requests})
    <3> HIDE DEF f
    <3> QED
      BY <1>1, ImageFinite
  <2> QED
    BY <2>1, <2>2, FS_UNION DEF FiniteInv
<1> DEFINE A == UNION {arm[p].targets : p \in DOMAIN arm}
           R == UNION {req[q].targets : q \in Requests}
           W == UNION {write[w].targets : w \in Writes}
           X == UNION {swap[q].targets : q \in Requests}
<1>6. Held = pending \cup fired \cup scan.due \cup scan.cur \cup A \cup R \cup W \cup X
  BY DEF Held
<1> HIDE DEF A, R, W, X
<1> QED
  BY <1>2, <1>3, <1>4, <1>5, <1>6, FS_Union DEF FiniteInv, A, R, W, X

\* A new row is none of those in use.
LEMMA NewRowIs ==
    ASSUME IsFiniteSet(Held), NEW k \in Key
    PROVE  NewRow(k) \in Row /\ NewRow(k) \notin Held /\ KeyOf(NewRow(k)) = k
<1> DEFINE used == {i.gen : i \in {i \in Held : KeyOf(i) = k}}
           n == Cardinality(used)
           g == CHOOSE g \in 0..n : g \notin used
<1>1. IsFiniteSet(used)
  <2> DEFINE S == {i \in Held : KeyOf(i) = k}
             f == [i \in S |-> i.gen]
  <2>1. IsFiniteSet(S)
    BY FS_Subset
  <2>2. used = {f[i] : i \in S}
    OBVIOUS
  <2>3. IsFiniteSet({f[i] : i \in S})
    <3> HIDE DEF f, S
    <3> QED
      BY <2>1, ImageFinite
  <2> QED
    BY <2>2, <2>3
<1>2. \E x \in 0..n : x \notin used
  <2> HIDE DEF used
  <2> QED
    BY <1>1, FreshNumber
<1>3. g \in Nat /\ g \notin used
  <2> HIDE DEF used, n
  <2> QED
    BY <1>2
<1>4. NewRow(k) = [rec |-> k.rec, at |-> k.at, gen |-> g]
  BY DEF NewRow
<1> HIDE DEF g
<1>5. KeyOf(NewRow(k)) = k /\ NewRow(k).gen = g
  BY <1>4 DEF KeyOf, Key
<1>6. NewRow(k) \notin Held
  BY <1>3, <1>5
<1> HIDE DEF n, used
<1> QED
  BY <1>3, <1>4, <1>5, <1>6 DEF Row, Key

\* An insert of finitely many keys adds finitely many rows.
LEMMA UpsertIs ==
    ASSUME IsFiniteSet(Held), NEW rows \in SUBSET Row, IsFiniteSet(rows),
           NEW keys \in SUBSET Key, IsFiniteSet(keys)
    PROVE  Upsert(rows, keys) \in SUBSET Row /\ IsFiniteSet(Upsert(rows, keys))
<1> DEFINE new == {k \in keys : \A i \in rows \cup fired : KeyOf(i) # k}
           f == [k \in new |-> NewRow(k)]
<1>1. Upsert(rows, keys) = rows \cup {f[k] : k \in new}
  BY DEF Upsert
<1>2. IsFiniteSet(new) /\ new \subseteq Key
  BY FS_Subset
<1>3. \A k \in new : f[k] \in Row
  BY <1>2, NewRowIs
<1> HIDE DEF f, new
<1>4. IsFiniteSet({f[k] : k \in new})
  BY <1>2, ImageFinite
<1> QED
  BY <1>1, <1>3, <1>4, FS_Union

\* It keeps the rows there are, and every key it adds had none.
LEMMA UpsertBrings ==
    ASSUME IsFiniteSet(Held), NEW rows, NEW keys \in SUBSET Key
    PROVE  /\ rows \subseteq Upsert(rows, keys)
           /\ \A i \in Upsert(rows, keys) \ rows :
                 i \in Row /\ i \notin Held /\ KeyOf(i) \in keys /\ \A j \in rows : KeyOf(j) # KeyOf(i)
           /\ \A k \in keys :
                 (\A j \in fired : KeyOf(j) # k) => \E i \in Upsert(rows, keys) : KeyOf(i) = k
<1> DEFINE new == {k \in keys : \A i \in rows \cup fired : KeyOf(i) # k}
<1>1. Upsert(rows, keys) = rows \cup {NewRow(k) : k \in new}
  BY DEF Upsert
<1>2. \A k \in new : NewRow(k) \in Row /\ NewRow(k) \notin Held /\ KeyOf(NewRow(k)) = k
  BY NewRowIs
<1>3. ASSUME NEW i \in Upsert(rows, keys) \ rows
      PROVE  i \in Row /\ i \notin Held /\ KeyOf(i) \in keys /\ \A j \in rows : KeyOf(j) # KeyOf(i)
  <2>1. PICK k \in new : i = NewRow(k)
    BY <1>1, <1>3
  <2> QED
    BY <1>2, <2>1
<1>4. ASSUME NEW k \in keys, \A j \in fired : KeyOf(j) # k PROVE \E i \in Upsert(rows, keys) : KeyOf(i) = k
  <2>1. CASE k \in new
    BY <1>1, <1>2, <2>1
  <2>2. CASE k \notin new
    BY <1>1, <1>4, <2>2
  <2> QED
    BY <2>1, <2>2
<1> QED
  BY <1>1, <1>3, <1>4

-----------------------------------------------------------------------------
(* Types.                                                                    *)

\* What a step in progress may rely on.
LocalInv ==
    /\ \A p \in Requests \cup {Scanner} :
          arm[p].now \in 0..MaxTime /\ (arm[p].step = "insert" => arm[p].wf.trigger \in Schedules)
    /\ \A q \in Requests : swap[q].step # "off" => swap[q].wf.trigger \in DateFields
    /\ \A w \in Writes :
          /\ write[w].step \in {"list", "find", "apply"} => write[w].rec \in Records
          /\ write[w].step = "find" => write[w].wf.trigger \in DateFields

TInv == TypeOK /\ FiniteInv /\ LocalInv

ReqT == [step : {"new", "save", "arm", "arming", "find", "cancel", "spawn", "done"},
         op : {"none", "update", "toggle", "delete"}, wf : Workflow, prev : Triggers, targets : SUBSET Row]
ScanT == [step : {"idle", "reconcile", "healing", "due", "next", "fire", "mark", "rearm", "rearming"},
          wf : Workflow, due : SUBSET Row, cur : SUBSET Row]
WriteT == [step : {"new", "list", "find", "apply", "done"}, rec : Records \cup {NoRecord},
           date : Dates \cup {NoDate, Deleted}, silenced : BOOLEAN, wf : Workflow,
           keys : SUBSET Key, targets : SUBSET Row]
SwapT == [step : {"off", "begin", "delete", "scan", "insert"}, wf : Workflow,
          targets : SUBSET Row, doomed : SUBSET Row, found : SUBSET Key]

\* The locals of whoever has nothing under way.
LEMMA Empties ==
    ASSUME workflow \in Workflow
    PROVE  /\ NoWorkflow \in Workflow /\ OffArm \in Arm /\ NoScan \in ScanT /\ NoSwap \in SwapT
           /\ NoWrite("new") \in WriteT /\ NoWrite("list") \in WriteT /\ NoWrite("done") \in WriteT
           /\ Outside("new") \in ReqT /\ Outside("save") \in ReqT /\ Outside("arm") \in ReqT /\ Outside("done") \in ReqT
<1>1. (CHOOSE t \in Triggers : TRUE) \in Triggers
  BY DEF Workflow
<1>2. NoWorkflow \in Workflow /\ NoWorkflow.trigger \in Triggers
  BY <1>1 DEF NoWorkflow, Workflow
<1> HIDE DEF NoWorkflow
<1> QED
  BY <1>2 DEF OffArm, Arm, NoScan, ScanT, NoSwap, SwapT, NoWrite, WriteT, Outside, ReqT

LEMMA EmptiesIdle ==
    /\ OffArm.step = "off" /\ OffArm.now = 0 /\ OffArm.targets = {}
    /\ NoScan.step = "idle" /\ NoScan.due = {} /\ NoScan.cur = {} /\ NoScan.wf = NoWorkflow
    /\ NoSwap.step = "off" /\ NoSwap.targets = {} /\ NoSwap.found = {}
    /\ \A s \in {"new", "list", "done"} :
          NoWrite(s).step = s /\ NoWrite(s).keys = {} /\ NoWrite(s).targets = {}
    /\ \A s \in {"new", "save", "arm", "done"} : Outside(s).step = s /\ Outside(s).targets = {}
  BY DEF OffArm, NoScan, NoSwap, NoWrite, Outside

LEMMA DatesAreInt == Dates \cup {NoDate, Deleted, Unborn} \subseteq Int
<1>1. NoDate \in Int /\ Deleted \in Int /\ Unborn \in Int
  BY DEF NoDate, Deleted, Unborn
<1>2. Dates \subseteq Nat
  BY RecordAssumption
<1> QED
  BY <1>1, <1>2

LEMMA TypeInit == Init => TInv
<1> SUFFICES ASSUME Init PROVE TInv
  OBVIOUS
<1>1. workflow \in Workflow /\ 0 \in 0..MaxTime /\ 0 \in 0..MaxFaults
  <2>1. workflow \in Workflow
    BY DEF Init, Workflow
  <2>2. MaxTime \in Nat /\ MaxFaults \in Nat
    BY TimerBoundAssumption
  <2> QED
    BY <2>1, <2>2
<1>0. now = 0 /\ fired = {} /\ record \in [Records -> Dates \cup {NoDate, Deleted, Unborn}]
  BY DEF Init
<1>2. pending \subseteq Row /\ IsFiniteSet(pending)
  <2>1. CASE ActiveSchedule(workflow)
    <3>1. NextFire(workflow.trigger, 0) \in Nat
      BY <1>1, <2>1, NextFireIs DEF ActiveSchedule
    <3> DEFINE i == [rec |-> NoRecord, at |-> NextFire(workflow.trigger, 0), gen |-> 0]
    <3>2. pending = {i}
      BY <2>1 DEF Init
    <3>3. i \in Row
      BY <3>1 DEF Row
    <3> HIDE DEF i
    <3> QED
      BY <3>2, <3>3, FS_Singleton
  <2>2. CASE ~ActiveSchedule(workflow) /\ ActiveDateField(workflow)
    <3> DEFINE S == {r \in Records \ TestLeads : Ahead(record[r], workflow.trigger)}
               f == [r \in S |-> [rec |-> r, at |-> FireAt(record[r], workflow.trigger), gen |-> 0]]
    <3>1. pending = {f[r] : r \in S}
      BY <2>2 DEF Init
    <3>2. \A r \in S : FireAt(record[r], workflow.trigger) \in Nat
      <4> SUFFICES ASSUME NEW r \in S PROVE FireAt(record[r], workflow.trigger) \in Nat
        OBVIOUS
      <4>0. record[r] > NoDate /\ FireAt(record[r], workflow.trigger) > 0
        BY <1>0 DEF Ahead
      <4>2. record[r] \in Int
        BY <1>0, DatesAreInt
      <4>3. Offset[workflow.trigger] \in Int
        BY <2>2, TriggerAssumption DEF ActiveDateField
      <4>1. record[r] \in Int /\ Offset[workflow.trigger] \in Int /\ FireAt(record[r], workflow.trigger) > 0
        BY <4>0, <4>2, <4>3
      <4> QED
        BY <4>1 DEF FireAt
    <3>3. IsFiniteSet(S)
      BY RecordAssumption, FS_Subset
    <3>4. \A r \in S : f[r] \in Row
      BY <3>2 DEF Row
    <3> HIDE DEF f, S
    <3> QED
      BY <3>1, <3>3, <3>4, ImageFinite
  <2>3. CASE ~ActiveSchedule(workflow) /\ ~ActiveDateField(workflow)
    BY <2>3, FS_EmptySet DEF Init
  <2> QED
    BY <2>1, <2>2, <2>3
<1>3. TypeOK
  <2>1. req \in [Requests -> ReqT] /\ arm \in [Requests \cup {Scanner} -> Arm] /\ scan \in ScanT
    BY <1>1, Empties DEF Init
  <2>2. write \in [Writes -> WriteT] /\ swap \in [Requests -> SwapT]
    BY <1>1, Empties DEF Init
  <2>3. lost \in BOOLEAN /\ faults \in 0..MaxFaults /\ runs \subseteq Key
    BY <1>1 DEF Init
  <2> QED
    BY <1>0, <1>1, <1>2, <2>1, <2>2, <2>3 DEF TypeOK, ReqT, ScanT, WriteT, SwapT
<1>4. FiniteInv /\ LocalInv
  BY <1>1, <1>2, FS_EmptySet, EmptiesIdle DEF Init, FiniteInv, LocalInv
<1> QED
  BY <1>3, <1>4 DEF TInv

LEMMA TypeNext == TInv /\ [Next]_vars => TInv'
<1> SUFFICES ASSUME TInv, [Next]_vars PROVE TInv'
  OBVIOUS
<1> DEFINE Procs == Requests \cup {Scanner}
<1>0. /\ now \in 0..MaxTime /\ MaxTime \in Nat /\ workflow \in Workflow
      /\ pending \in SUBSET Row /\ fired \in SUBSET Row /\ runs \subseteq Key
      /\ record \in [Records -> Dates \cup {NoDate, Deleted, Unborn}]
      /\ req \in [Requests -> ReqT] /\ arm \in [Procs -> Arm] /\ scan \in ScanT
      /\ write \in [Writes -> WriteT] /\ swap \in [Requests -> SwapT]
      /\ lost \in BOOLEAN /\ faults \in 0..MaxFaults /\ MaxFaults \in Nat
  BY TimerBoundAssumption DEF TInv, TypeOK, ReqT, ScanT, WriteT, SwapT
<1>h. FiniteInv /\ LocalInv /\ IsFiniteSet(Held)
  BY HeldFinite DEF TInv
<1>f. ASSUME Fault \/ NoFault \/ UNCHANGED faults PROVE faults' \in 0..MaxFaults
  BY <1>0, <1>f DEF Fault, NoFault
\* What is to be shown, variable by variable.
<1> DEFINE Table == /\ pending' \in SUBSET Row /\ fired' \in SUBSET Row /\ runs' \subseteq Key
                    /\ IsFiniteSet(pending') /\ IsFiniteSet(fired')
           Scan == scan' \in ScanT /\ IsFiniteSet(scan'.due) /\ IsFiniteSet(scan'.cur)
           Arms == /\ arm' \in [Procs -> Arm]
                   /\ \A p \in Procs :
                         /\ IsFiniteSet(arm'[p].targets)
                         /\ arm'[p].now \in 0..MaxTime
                         /\ arm'[p].step = "insert" => arm'[p].wf.trigger \in Schedules
           Reqs == req' \in [Requests -> ReqT] /\ \A q \in Requests : IsFiniteSet(req'[q].targets)
           Swaps == /\ swap' \in [Requests -> SwapT]
                    /\ \A q \in Requests :
                          /\ IsFiniteSet(swap'[q].targets)
                          /\ IsFiniteSet(swap'[q].found)
                          /\ swap'[q].step # "off" => swap'[q].wf.trigger \in DateFields
           Writing == /\ write' \in [Writes -> WriteT]
                      /\ \A w \in Writes :
                            /\ IsFiniteSet(write'[w].targets)
                            /\ IsFiniteSet(write'[w].keys)
                            /\ write'[w].step \in {"list", "find", "apply"} => write'[w].rec \in Records
                            /\ write'[w].step = "find" => write'[w].wf.trigger \in DateFields
           World == /\ now' \in 0..MaxTime /\ workflow' \in Workflow /\ lost' \in BOOLEAN
                    /\ record' \in [Records -> Dates \cup {NoDate, Deleted, Unborn}]
\* A step that leaves a variable alone keeps its part.
<1>2. ASSUME UNCHANGED tableVars PROVE Table
  BY <1>0, <1>2, <1>h DEF tableVars, FiniteInv
<1>3. ASSUME UNCHANGED scan PROVE Scan
  BY <1>0, <1>3, <1>h DEF FiniteInv
<1>4. ASSUME UNCHANGED arm PROVE Arms
  BY <1>0, <1>4, <1>h DEF FiniteInv, LocalInv
<1>5. ASSUME UNCHANGED req PROVE Reqs
  BY <1>0, <1>5, <1>h DEF FiniteInv
<1>6. ASSUME UNCHANGED swap PROVE Swaps
  BY <1>0, <1>6, <1>h DEF FiniteInv, LocalInv
<1>7. ASSUME UNCHANGED write PROVE Writing
  BY <1>0, <1>7, <1>h DEF FiniteInv, LocalInv
<1>8. ASSUME UNCHANGED <<now, workflow, record>>, lost' \in BOOLEAN PROVE World
  BY <1>0, <1>8
<1> HIDE DEF Table, Scan, Arms, Reqs, Swaps, Writing, World
<1>1. ASSUME Table, Scan, Arms, Reqs, Swaps, Writing, World, faults' \in 0..MaxFaults PROVE TInv'
  <2>1. TypeOK'
    BY <1>1 DEF TypeOK, ReqT, ScanT, WriteT, SwapT, Table, Scan, Arms, Reqs, Swaps, Writing, World
  <2>2. /\ IsFiniteSet(pending') /\ IsFiniteSet(fired')
        /\ IsFiniteSet(scan'.due) /\ IsFiniteSet(scan'.cur)
    BY <1>1 DEF Table, Scan
  <2>3. \A p \in Requests \cup {Scanner} : IsFiniteSet(arm'[p].targets)
    BY <1>1 DEF Arms
  <2>4. \A p \in Requests \cup {Scanner} :
           arm'[p].now \in 0..MaxTime /\ (arm'[p].step = "insert" => arm'[p].wf.trigger \in Schedules)
    BY <1>1 DEF Arms
  <2>5. \A q \in Requests : IsFiniteSet(req'[q].targets)
    BY <1>1 DEF Reqs
  <2>6. \A q \in Requests : IsFiniteSet(swap'[q].targets) /\ IsFiniteSet(swap'[q].found)
    BY <1>1 DEF Swaps
  <2>7. \A q \in Requests : swap'[q].step # "off" => swap'[q].wf.trigger \in DateFields
    BY <1>1 DEF Swaps
  <2>8. \A w \in Writes : IsFiniteSet(write'[w].targets) /\ IsFiniteSet(write'[w].keys)
    BY <1>1 DEF Writing
  <2>9. \A w \in Writes : /\ write'[w].step \in {"list", "find", "apply"} => write'[w].rec \in Records
                          /\ write'[w].step = "find" => write'[w].wf.trigger \in DateFields
    BY <1>1 DEF Writing
  <2>10. FiniteInv'
    BY <2>2, <2>3, <2>5, <2>6, <2>8 DEF FiniteInv
  <2>11. LocalInv'
    BY <2>4, <2>7, <2>9 DEF LocalInv
  <2> QED
    BY <2>1, <2>10, <2>11 DEF TInv
\* What the steps do to a variable.
<1>d. ASSUME pending' \subseteq pending, fired' \subseteq pending \cup fired, UNCHANGED runs PROVE Table
  <2>1. IsFiniteSet(pending \cup fired)
    BY <1>h, FS_Union DEF FiniteInv
  <2>2. IsFiniteSet(pending') /\ IsFiniteSet(fired')
    BY <1>d, <1>h, <2>1, FS_Subset DEF FiniteInv
  <2> QED
    BY <1>0, <1>d, <2>2 DEF Table
<1>u. ASSUME NEW rows \in SUBSET pending, NEW keys \in SUBSET Key, IsFiniteSet(keys),
             pending' = Upsert(rows, keys), UNCHANGED <<fired, runs>>
      PROVE  Table
  <2>1. rows \in SUBSET Row /\ IsFiniteSet(rows)
    BY <1>0, <1>h, FS_Subset DEF FiniteInv
  <2>2. pending' \in SUBSET Row /\ IsFiniteSet(pending')
    BY <1>h, <1>u, <2>1, UpsertIs
  <2> QED
    BY <1>0, <1>h, <1>u, <2>2 DEF Table, FiniteInv
<1>s. \A S \in SUBSET pending : S \in SUBSET Row /\ IsFiniteSet(S)
  BY <1>0, <1>h, FS_Subset DEF FiniteInv
<1>e. /\ NoWorkflow \in Workflow /\ OffArm \in Arm /\ NoScan \in ScanT /\ NoSwap \in SwapT
      /\ NoWrite("list") \in WriteT /\ NoWrite("done") \in WriteT
      /\ Outside("save") \in ReqT /\ Outside("arm") \in ReqT /\ Outside("done") \in ReqT
      /\ IsFiniteSet({})
  BY <1>0, Empties, FS_EmptySet
<1>b. ASSUME NEW p \in Procs, NEW b \in Arm, arm' = [arm EXCEPT ![p] = b], IsFiniteSet(b.targets),
             b.now \in 0..MaxTime, b.step = "insert" => b.wf.trigger \in Schedules
      PROVE  Arms
  <2>1. arm' \in [Procs -> Arm]
    BY <1>0, <1>b
  <2>2. arm'[p] = b /\ \A x \in Procs \ {p} : arm'[x] = arm[x]
    BY <1>0, <1>b
  <2>3. ASSUME NEW x \in Procs
        PROVE  /\ IsFiniteSet(arm'[x].targets) /\ arm'[x].now \in 0..MaxTime
               /\ arm'[x].step = "insert" => arm'[x].wf.trigger \in Schedules
    <3>1. CASE x = p
      BY <1>b, <2>2, <3>1
    <3>2. CASE x # p
      <4>1. arm'[x] = arm[x]
        BY <2>2, <3>2
      <4> QED
        BY <1>h, <4>1 DEF FiniteInv, LocalInv
    <3> QED
      BY <3>1, <3>2
  <2> QED
    BY <2>1, <2>3 DEF Arms
<1>c. ASSUME NEW p \in Procs, arm' = [arm EXCEPT ![p] = OffArm] PROVE Arms
  <2>1. OffArm \in Arm /\ IsFiniteSet(OffArm.targets) /\ OffArm.now \in 0..MaxTime /\ OffArm.step # "insert"
    BY <1>0, <1>e, EmptiesIdle
  <2> QED
    BY <1>b, <1>c, <2>1
<1>a. ASSUME NEW p \in Procs, NEW wf \in Workflow, ArmCalled(p, wf) PROVE Arms
  <2> DEFINE a == [step |-> "cancel", wf |-> wf, now |-> now, targets |-> SchedulePending]
  <2>1. SchedulePending \in SUBSET Row /\ IsFiniteSet(SchedulePending)
    BY <1>s DEF SchedulePending
  <2>2. a \in Arm /\ IsFiniteSet(a.targets) /\ a.now \in 0..MaxTime /\ a.step # "insert"
    BY <1>0, <2>1 DEF Arm
  <2>3. arm' = [arm EXCEPT ![p] = a]
    BY <1>a DEF ArmCalled
  <2> HIDE DEF a
  <2> QED
    BY <1>b, <2>2, <2>3
\* ArmScheduleTimer.
<1>9. ASSUME NEW p \in Procs, ArmCancel(p) \/ ArmInsert(p) PROVE TInv'
  <2>1. CASE ArmCancel(p)
    <3>1. Table
      <4>1. pending' \subseteq pending /\ UNCHANGED <<fired, runs>>
        BY <2>1 DEF ArmCancel
      <4> QED
        BY <1>d, <4>1
    <3>2. Arms
      <4> DEFINE a == [arm[p] EXCEPT !.step = "insert", !.targets = {}]
      <4>1. arm' = [arm EXCEPT ![p] = OffArm] \/ (arm' = [arm EXCEPT ![p] = a] /\ ActiveSchedule(arm[p].wf))
        BY <1>0, <2>1 DEF ArmCancel
      <4>2. a \in Arm /\ a.targets = {} /\ a.wf = arm[p].wf /\ a.now = arm[p].now
        BY <1>0 DEF Arm
      <4> HIDE DEF a
      <4>3. CASE arm' = [arm EXCEPT ![p] = a] /\ ActiveSchedule(arm[p].wf)
        <5>1. IsFiniteSet(a.targets) /\ a.now \in 0..MaxTime /\ a.wf.trigger \in Schedules
          BY <1>e, <1>h, <4>2, <4>3 DEF ActiveSchedule, LocalInv
        <5> QED
          BY <1>b, <4>2, <4>3, <5>1
      <4> QED
        BY <1>c, <4>1, <4>3
    <3>3. lost' \in BOOLEAN
      BY <1>0, <2>1 DEF ArmCancel, For
    <3> QED
      BY <1>1, <1>3, <1>5, <1>6, <1>7, <1>8, <1>f, <2>1, <3>1, <3>2, <3>3 DEF ArmCancel
  <2>2. CASE ArmInsert(p)
    <3>1. arm[p].step = "insert" /\ arm[p].wf.trigger \in Schedules /\ arm[p].now \in 0..MaxTime
      BY <1>h, <2>2 DEF ArmInsert, LocalInv
    <3>2. Table
      <4> DEFINE k == [rec |-> NoRecord, at |-> NextFire(arm[p].wf.trigger, arm[p].now)]
      <4>1. k \in Key
        BY <3>1, NextFireIs DEF Key
      <4>2. pending' = Upsert(pending, {k}) \/ pending' = pending
        BY <2>2 DEF ArmInsert
      <4>3. UNCHANGED <<fired, runs>>
        BY <2>2 DEF ArmInsert
      <4> HIDE DEF k
      <4>4. CASE pending' = pending
        BY <1>d, <4>3, <4>4
      <4>5. CASE pending' = Upsert(pending, {k})
        <5>1. {k} \in SUBSET Key /\ IsFiniteSet({k})
          BY <4>1, FS_Singleton
        <5>2. pending \in SUBSET pending
          OBVIOUS
        <5> QED
          BY <1>u, <4>3, <4>5, <5>1, <5>2
      <4> QED
        BY <4>2, <4>4, <4>5
    <3>3. Arms
      <4>1. arm' = [arm EXCEPT ![p] = OffArm]
        BY <2>2 DEF ArmInsert
      <4> QED
        BY <1>c, <4>1
    <3>4. lost' \in BOOLEAN
      BY <1>0, <2>2 DEF ArmInsert, For
    <3> QED
      BY <1>1, <1>3, <1>5, <1>6, <1>7, <1>8, <1>f, <2>2, <3>2, <3>3, <3>4 DEF ArmInsert
  <2> QED
    BY <1>9, <2>1, <2>2
\* The scan.
<1>10. CASE ScanBegin
  <2>1. Scan
    <3>1. \/ scan' = [scan EXCEPT !.step = "reconcile", !.wf = workflow]
          \/ scan' = [scan EXCEPT !.step = "due"]
      BY <1>10 DEF ScanBegin
    <3> QED
      BY <1>0, <1>h, <3>1 DEF Scan, ScanT, FiniteInv
  <2> QED
    BY <1>0, <1>1, <1>2, <1>4, <1>5, <1>6, <1>7, <1>8, <1>f, <1>10, <2>1 DEF ScanBegin
<1>11. CASE Reconcile
  <2>1. Scan
    <3>1. scan' \in {[NoScan EXCEPT !.step = "healing"], [NoScan EXCEPT !.step = "due"]}
      BY <1>11 DEF Reconcile
    <3> QED
      BY <1>e, <3>1, EmptiesIdle DEF Scan, ScanT
  <2>2. Arms
    <3>1. scan.wf \in Workflow /\ Scanner \in Procs
      BY <1>0 DEF ScanT
    <3> QED
      BY <1>4, <1>a, <1>11, <3>1 DEF Reconcile
  <2> QED
    BY <1>0, <1>1, <1>2, <1>5, <1>6, <1>7, <1>8, <1>f, <1>11, <2>1, <2>2 DEF Reconcile
<1>12. CASE ListDue
  <2>1. Scan
    <3> DEFINE D == {i \in pending : i.at <= now}
    <3>1. D \in SUBSET Row /\ IsFiniteSet(D)
      BY <1>s
    <3>2. scan' \in {[NoScan EXCEPT !.step = "next", !.due = D], NoScan}
      BY <1>12 DEF ListDue
    <3> HIDE DEF D
    <3> QED
      BY <1>e, <3>1, <3>2, EmptiesIdle DEF Scan, ScanT
  <2> QED
    BY <1>0, <1>1, <1>2, <1>4, <1>5, <1>6, <1>7, <1>8, <1>f, <1>12, <2>1 DEF ListDue
<1>r. /\ scan.due \in SUBSET Row /\ scan.cur \in SUBSET Row
      /\ \A i \in scan.due : IsFiniteSet(scan.due \ {i}) /\ IsFiniteSet({i})
  <2>1. scan.due \in SUBSET Row /\ scan.cur \in SUBSET Row
    BY <1>0 DEF ScanT
  <2>2. IsFiniteSet(scan.due)
    BY <1>h DEF FiniteInv
  <2>3. \A i \in scan.due : IsFiniteSet(scan.due \ {i}) /\ IsFiniteSet({i})
    BY <2>2, FS_RemoveElement, FS_Singleton
  <2> QED
    BY <2>1, <2>3
<1>13. CASE NextDue
  <2>1. Scan
    <3>1. CASE scan' = NoScan
      BY <1>e, <3>1, EmptiesIdle DEF Scan
    <3>2. ASSUME NEW i \in scan.due, NEW st \in {"fire", "mark"}, NEW wf \in Workflow,
                 scan' = [step |-> st, wf |-> wf, due |-> scan.due \ {i}, cur |-> {i}]
          PROVE  Scan
      BY <1>r, <3>2 DEF Scan, ScanT
    <3> QED
      BY <1>0, <1>e, <1>13, <3>1, <3>2 DEF NextDue
  <2>2. lost' \in BOOLEAN
    BY <1>0, <1>13 DEF NextDue
  <2>3. NoFault \/ Fault
    BY <1>13 DEF NextDue
  <2> QED
    BY <1>0, <1>1, <1>2, <1>4, <1>5, <1>6, <1>7, <1>8, <1>f, <1>13, <2>1, <2>2, <2>3 DEF NextDue
<1>14. CASE Fire
  <2>1. Scan
    <3>1. scan' \in {[scan EXCEPT !.step = "mark"], [NoScan EXCEPT !.step = "next", !.due = scan.due]}
      BY <1>14 DEF Fire
    <3>2. scan' \in ScanT /\ scan'.due = scan.due /\ scan'.cur \in {scan.cur, {}}
      BY <1>0, <1>e, <3>1, EmptiesIdle DEF ScanT
    <3> QED
      BY <1>e, <1>h, <3>2 DEF Scan, FiniteInv
  <2>2. Table
    <3>1. runs' \subseteq Key
      BY <1>0, <1>r, <1>14 DEF Fire, KeyOf, Row, Key
    <3> QED
      BY <1>0, <1>h, <1>14, <3>1 DEF Fire, Table, FiniteInv
  <2> QED
    BY <1>0, <1>1, <1>4, <1>5, <1>6, <1>7, <1>8, <1>f, <1>14, <2>1, <2>2 DEF Fire
<1>15. CASE MarkFired
  <2>1. Scan
    <3>1. scan' \in {[scan EXCEPT !.step = "rearm", !.cur = {}], [NoScan EXCEPT !.step = "next", !.due = scan.due]}
      BY <1>15 DEF MarkFired
    <3>2. scan' \in ScanT /\ scan'.due = scan.due /\ scan'.cur \in {scan.cur, {}}
      BY <1>0, <1>e, <3>1, EmptiesIdle DEF ScanT
    <3> QED
      BY <1>e, <1>h, <3>2 DEF Scan, FiniteInv
  <2>2. Table
    <3>1. pending' \subseteq pending /\ fired' \subseteq pending \cup fired /\ UNCHANGED runs
      BY <1>15 DEF MarkFired
    <3> QED
      BY <1>d, <3>1
  <2> QED
    BY <1>0, <1>1, <1>4, <1>5, <1>6, <1>7, <1>8, <1>f, <1>15, <2>1, <2>2 DEF MarkFired
<1>16. CASE Rearm
  <2>1. Scan
    <3>1. scan' = [NoScan EXCEPT !.step = "rearming", !.due = scan.due]
      BY <1>16 DEF Rearm
    <3>2. scan' \in ScanT /\ scan'.due = scan.due /\ scan'.cur \in {scan.cur, {}}
      BY <1>0, <1>e, <3>1, EmptiesIdle DEF ScanT
    <3> QED
      BY <1>e, <1>h, <3>2 DEF Scan, FiniteInv
  <2>2. Arms
    <3>1. scan.wf \in Workflow /\ Scanner \in Procs
      BY <1>0 DEF ScanT
    <3> QED
      BY <1>a, <1>16, <3>1 DEF Rearm
  <2> QED
    BY <1>0, <1>1, <1>2, <1>5, <1>6, <1>7, <1>8, <1>f, <1>16, <2>1, <2>2 DEF Rearm
\* The requests.
<1>q. ASSUME NEW q \in Requests, NEW r \in ReqT, IsFiniteSet(r.targets), req' = [req EXCEPT ![q] = r] PROVE Reqs
  BY <1>0, <1>h, <1>q DEF Reqs, FiniteInv
<1>17. ASSUME NEW q \in Requests, ReadForUpdate(q) PROVE TInv'
  <2>1. Reqs
    <3>1. PICK t \in Triggers :
              req' = [req EXCEPT ![q] = [Outside("save") EXCEPT
                        !.op = "update", !.wf = [workflow EXCEPT !.trigger = t], !.prev = workflow.trigger]]
      BY <1>17 DEF ReadForUpdate
    <3> DEFINE r == [Outside("save") EXCEPT
                       !.op = "update", !.wf = [workflow EXCEPT !.trigger = t], !.prev = workflow.trigger]
    <3>2. r \in ReqT /\ r.targets = {}
      BY <1>0, <1>e, EmptiesIdle DEF ReqT, Workflow
    <3> HIDE DEF r
    <3> QED
      BY <1>e, <1>q, <3>1, <3>2 DEF r
  <2> QED
    BY <1>0, <1>1, <1>2, <1>3, <1>4, <1>6, <1>7, <1>8, <1>f, <1>17, <2>1 DEF ReadForUpdate
<1>18. ASSUME NEW q \in Requests, ReadForToggle(q) PROVE TInv'
  <2>1. Reqs
    <3> DEFINE r == [Outside("save") EXCEPT !.op = "toggle", !.wf = [workflow EXCEPT !.active = ~@]]
    <3>1. req' = [req EXCEPT ![q] = r]
      BY <1>18 DEF ReadForToggle
    <3>2. [workflow EXCEPT !.active = ~@] \in Workflow
      BY <1>0 DEF Workflow
    <3>3. r \in ReqT /\ r.targets = {}
      BY <1>e, <3>2, EmptiesIdle DEF ReqT
    <3> HIDE DEF r
    <3> QED
      BY <1>e, <1>q, <3>1, <3>3
  <2> QED
    BY <1>0, <1>1, <1>2, <1>3, <1>4, <1>6, <1>7, <1>8, <1>f, <1>18, <2>1 DEF ReadForToggle
<1>v. \A q \in Requests : req[q] \in ReqT /\ req[q].wf \in Workflow /\ IsFiniteSet(req[q].targets)
  BY <1>0, <1>h DEF ReqT, FiniteInv
<1>19. ASSUME NEW q \in Requests, SaveWorkflow(q) PROVE TInv'
  <2>1. Reqs
    <3>1. req' = [req EXCEPT ![q].step = "arm"] \/ req' = [req EXCEPT ![q] = Outside("done")]
      BY <1>19 DEF SaveWorkflow
    <3>2. CASE req' = [req EXCEPT ![q] = Outside("done")]
      BY <1>e, <1>q, <3>2, EmptiesIdle
    <3>3. CASE req' = [req EXCEPT ![q].step = "arm"]
      BY <1>0, <1>h, <3>3 DEF Reqs, ReqT, FiniteInv
    <3> QED
      BY <3>1, <3>2, <3>3
  <2>2. World
    BY <1>0, <1>v, <1>19 DEF SaveWorkflow, World
  <2> QED
    BY <1>1, <1>2, <1>3, <1>4, <1>6, <1>7, <1>f, <1>19, <2>1, <2>2 DEF SaveWorkflow
<1>20. ASSUME NEW q \in Requests, SoftDelete(q) PROVE TInv'
  <2>1. workflow' \in Workflow
    BY <1>0, <1>20 DEF SoftDelete, Workflow
  <2>2. Reqs
    <3> DEFINE r == [Outside("arm") EXCEPT !.op = "delete", !.wf = workflow']
    <3>1. req' = [req EXCEPT ![q] = r]
      BY <1>20 DEF SoftDelete
    <3>2. r \in ReqT /\ r.targets = {}
      BY <1>e, <2>1, EmptiesIdle DEF ReqT
    <3> HIDE DEF r
    <3> QED
      BY <1>e, <1>q, <3>1, <3>2
  <2>3. World
    BY <1>0, <1>20, <2>1 DEF SoftDelete, World
  <2> QED
    BY <1>1, <1>2, <1>3, <1>4, <1>6, <1>7, <1>f, <1>20, <2>2, <2>3 DEF SoftDelete
<1>21. ASSUME NEW q \in Requests, CallArm(q) PROVE TInv'
  <2>1. Reqs
    BY <1>0, <1>h, <1>21 DEF CallArm, Reqs, ReqT, FiniteInv
  <2>2. Arms
    BY <1>a, <1>v, <1>21 DEF CallArm
  <2> QED
    BY <1>0, <1>1, <1>2, <1>3, <1>6, <1>7, <1>8, <1>f, <1>21, <2>1, <2>2 DEF CallArm
<1>22. ASSUME NEW q \in Requests, FindDateTimers(q) PROVE TInv'
  <2>1. DatePending \in SUBSET Row /\ IsFiniteSet(DatePending)
    BY <1>s DEF DatePending
  <2>2. Reqs
    <3> DEFINE r == IF ActiveDateField(req[q].wf) THEN [req[q] EXCEPT !.step = "spawn"]
                    ELSE [req[q] EXCEPT !.step = "cancel", !.targets = DatePending]
    <3>1. req' = [req EXCEPT ![q] = r]
      BY <1>0, <1>22 DEF FindDateTimers
    <3>2. r \in ReqT /\ IsFiniteSet(r.targets)
      BY <1>v, <2>1 DEF ReqT
    <3> HIDE DEF r
    <3> QED
      BY <1>q, <3>1, <3>2
  <2> QED
    BY <1>0, <1>1, <1>2, <1>3, <1>4, <1>6, <1>7, <1>8, <1>f, <1>22, <2>2 DEF FindDateTimers
<1>23. ASSUME NEW q \in Requests, CancelDateTimers(q) PROVE TInv'
  <2>1. Reqs
    <3>1. req' = [req EXCEPT ![q] = [req[q] EXCEPT !.step = "spawn", !.targets = {}]]
      BY <1>0, <1>23 DEF CancelDateTimers
    <3>2. [req[q] EXCEPT !.step = "spawn", !.targets = {}] \in ReqT
          /\ [req[q] EXCEPT !.step = "spawn", !.targets = {}].targets = {}
      BY <1>v DEF ReqT
    <3> QED
      BY <1>e, <1>q, <3>1, <3>2
  <2>2. Table
    <3>1. pending' \subseteq pending /\ UNCHANGED <<fired, runs>>
      BY <1>23 DEF CancelDateTimers
    <3> QED
      BY <1>d, <3>1
  <2>3. lost' \in BOOLEAN
    BY <1>0, <1>23 DEF CancelDateTimers, For
  <2> QED
    BY <1>1, <1>3, <1>4, <1>6, <1>7, <1>8, <1>f, <1>23, <2>1, <2>2, <2>3 DEF CancelDateTimers
<1>w. ASSUME NEW q \in Requests, NEW x \in SwapT, swap' = [swap EXCEPT ![q] = x],
             IsFiniteSet(x.targets), IsFiniteSet(x.found), x.step # "off" => x.wf.trigger \in DateFields
      PROVE  Swaps
  <2>1. swap' \in [Requests -> SwapT] /\ swap'[q] = x /\ \A o \in Requests \ {q} : swap'[o] = swap[o]
    BY <1>0, <1>w
  <2>2. ASSUME NEW o \in Requests
        PROVE  /\ IsFiniteSet(swap'[o].targets) /\ IsFiniteSet(swap'[o].found)
               /\ swap'[o].step # "off" => swap'[o].wf.trigger \in DateFields
    <3>1. CASE o = q
      BY <1>w, <2>1, <3>1
    <3>2. CASE o # q
      <4>1. swap'[o] = swap[o]
        BY <2>1, <3>2
      <4> QED
        BY <1>h, <4>1 DEF FiniteInv, LocalInv
    <3> QED
      BY <3>1, <3>2
  <2> QED
    BY <2>1, <2>2 DEF Swaps
<1>24. ASSUME NEW q \in Requests, SpawnRebuild(q) PROVE TInv'
  <2>1. Reqs
    BY <1>e, <1>q, <1>24, EmptiesIdle DEF SpawnRebuild
  <2>2. Swaps
    <3>1. CASE RebuildOwed(req[q])
      <4> DEFINE x == [NoSwap EXCEPT !.step = "begin", !.wf = req[q].wf]
      <4>1. swap' = [swap EXCEPT ![q] = x]
        BY <1>24, <3>1 DEF SpawnRebuild
      <4>2. x \in SwapT /\ x.targets = {} /\ x.found = {} /\ x.wf = req[q].wf
        BY <1>e, <1>v, EmptiesIdle DEF SwapT
      <4>3. x.wf.trigger \in DateFields
        BY <3>1, <4>2 DEF RebuildOwed
      <4> HIDE DEF x
      <4> QED
        BY <1>e, <1>w, <4>1, <4>2, <4>3
    <3>2. CASE ~RebuildOwed(req[q])
      BY <1>6, <1>24, <3>2 DEF SpawnRebuild
    <3> QED
      BY <3>1, <3>2
  <2> QED
    BY <1>0, <1>1, <1>2, <1>3, <1>4, <1>7, <1>8, <1>f, <1>24, <2>1, <2>2 DEF SpawnRebuild
\* The rebuilds.
<1>x. \A q \in Requests :
         /\ swap[q] \in SwapT /\ IsFiniteSet(swap[q].targets) /\ IsFiniteSet(swap[q].found)
         /\ swap[q].step # "off" => swap[q].wf.trigger \in DateFields
  BY <1>0, <1>h DEF FiniteInv, LocalInv
<1>y. ASSUME NEW q \in Requests, swap' = [swap EXCEPT ![q] = NoSwap] PROVE Swaps
  <2>1. NoSwap.step = "off" /\ IsFiniteSet(NoSwap.targets) /\ IsFiniteSet(NoSwap.found)
    BY <1>e, EmptiesIdle
  <2> QED
    BY <1>e, <1>w, <1>y, <2>1
<1>25. ASSUME NEW q \in Requests, SwapBegin(q) PROVE TInv'
  <2>1. Swaps
    <3> DEFINE x == [swap[q] EXCEPT !.step = "delete", !.targets = DatePending]
    <3>1. DatePending \in SUBSET Row /\ IsFiniteSet(DatePending)
      BY <1>s DEF DatePending
    <3>2. swap' = [swap EXCEPT ![q] = x] /\ swap[q].step # "off"
      BY <1>0, <1>25 DEF SwapBegin
    <3>3. x \in SwapT /\ x.targets = DatePending /\ x.found = swap[q].found /\ x.wf = swap[q].wf
      BY <1>x, <3>1 DEF SwapT
    <3> HIDE DEF x
    <3> QED
      BY <1>w, <1>x, <3>1, <3>2, <3>3
  <2> QED
    BY <1>0, <1>1, <1>2, <1>3, <1>4, <1>5, <1>7, <1>8, <1>f, <1>25, <2>1 DEF SwapBegin
<1>26. ASSUME NEW q \in Requests, SwapDelete(q) PROVE TInv'
  <2>1. Swaps
    <3>1. CASE swap[q].wf.active
      <4> DEFINE x == [swap[q] EXCEPT !.step = "scan", !.targets = {}, !.doomed = swap[q].targets \cap pending]
      <4>1. swap' = [swap EXCEPT ![q] = x] /\ swap[q].step # "off"
        BY <1>0, <1>26, <3>1 DEF SwapDelete
      <4>2. x \in SwapT /\ x.targets = {} /\ x.found = swap[q].found /\ x.wf = swap[q].wf
        BY <1>x DEF SwapT
      <4> HIDE DEF x
      <4> QED
        BY <1>e, <1>w, <1>x, <4>1, <4>2
    <3>2. CASE ~swap[q].wf.active
      BY <1>y, <1>26, <3>2 DEF SwapDelete
    <3> QED
      BY <3>1, <3>2
  <2>2. Table
    <3>1. pending' \subseteq pending /\ UNCHANGED <<fired, runs>>
      BY <1>26 DEF SwapDelete
    <3> QED
      BY <1>d, <3>1
  <2>3. lost' \in BOOLEAN
    BY <1>0, <1>26 DEF SwapDelete, For
  <2> QED
    BY <1>1, <1>3, <1>4, <1>5, <1>7, <1>8, <1>f, <1>26, <2>1, <2>2, <2>3 DEF SwapDelete
\* A date ahead of now is the time of a key.
<1>k. ASSUME NEW d \in Dates \cup {NoDate, Deleted, Unborn}, NEW f \in DateFields, Ahead(d, f)
      PROVE  FireAt(d, f) \in Nat
  <2>1. d \in Int /\ Offset[f] \in Int
    BY DatesAreInt, TriggerAssumption
  <2>2. FireAt(d, f) > now /\ now \in Nat
    BY <1>0, <1>k DEF Ahead
  <2> QED
    BY <2>1, <2>2 DEF FireAt
<1>27. ASSUME NEW q \in Requests, SwapScan(q) PROVE TInv'
  <2>1. Swaps
    <3> DEFINE S == {r \in Scanned \ TestLeads : Ahead(record[r], swap[q].wf.trigger)}
               g == [r \in S |-> [rec |-> r, at |-> FireAt(record[r], swap[q].wf.trigger)]]
               F == {g[r] : r \in S}
               x == [swap[q] EXCEPT !.step = "insert", !.found = F]
    <3>1. swap' = [swap EXCEPT ![q] = x] /\ swap[q].step = "scan"
      BY <1>0, <1>27 DEF SwapScan
    <3>2. S \in SUBSET Records /\ IsFiniteSet(S)
      <4>1. S \in SUBSET Records
        BY DEF Scanned
      <4> QED
        BY <4>1, RecordAssumption, FS_Subset
    <3>3. swap[q].wf.trigger \in DateFields
      BY <1>x, <3>1
    <3>4. \A r \in S : g[r] \in Key
      <4> SUFFICES ASSUME NEW r \in S PROVE g[r] \in Key
        OBVIOUS
      <4>1. FireAt(record[r], swap[q].wf.trigger) \in Nat
        BY <1>0, <1>k, <3>2, <3>3
      <4> QED
        BY <3>2, <4>1 DEF Key
    <3> HIDE DEF S, g
    <3>5. F \in SUBSET Key /\ IsFiniteSet(F)
      BY <3>2, <3>4, ImageFinite
    <3> HIDE DEF F
    <3>6. x \in SwapT /\ x.targets = swap[q].targets /\ x.found = F /\ x.wf = swap[q].wf
      BY <1>x, <3>5 DEF SwapT
    <3> HIDE DEF x
    <3> QED
      BY <1>w, <1>x, <3>1, <3>3, <3>5, <3>6
  <2> QED
    BY <1>0, <1>1, <1>2, <1>3, <1>4, <1>5, <1>7, <1>8, <1>f, <1>27, <2>1 DEF SwapScan
<1>28. ASSUME NEW q \in Requests, SwapInsert(q) PROVE TInv'
  <2>1. Swaps
    BY <1>y, <1>28 DEF SwapInsert
  <2>2. Table
    <3>1. pending' = Upsert(pending \ swap[q].doomed, swap[q].found) /\ UNCHANGED <<fired, runs>>
      BY <1>28 DEF SwapInsert
    <3>2. swap[q].found \in SUBSET Key
      BY <1>x DEF SwapT
    <3> QED
      BY <1>u, <1>x, <3>1, <3>2
  <2>3. lost' \in BOOLEAN
    BY <1>0, <1>28 DEF SwapInsert, For
  <2> QED
    BY <1>1, <1>3, <1>4, <1>5, <1>7, <1>8, <1>f, <1>28, <2>1, <2>2, <2>3 DEF SwapInsert
<1>29. ASSUME NEW q \in Requests, SwapFails(q) PROVE TInv'
  <2>1. Swaps
    BY <1>y, <1>29 DEF SwapFails
  <2> QED
    BY <1>0, <1>1, <1>2, <1>3, <1>4, <1>5, <1>7, <1>8, <1>f, <1>29, <2>1 DEF SwapFails
\* The writes.
<1>z. \A w \in Writes :
         /\ write[w] \in WriteT /\ IsFiniteSet(write[w].targets) /\ IsFiniteSet(write[w].keys)
         /\ write[w].step \in {"list", "find", "apply"} => write[w].rec \in Records
         /\ write[w].step = "find" => write[w].wf.trigger \in DateFields
  BY <1>0, <1>h DEF FiniteInv, LocalInv
<1>i. ASSUME NEW w \in Writes, NEW x \in WriteT, write' = [write EXCEPT ![w] = x],
             IsFiniteSet(x.targets), IsFiniteSet(x.keys),
             x.step \in {"list", "find", "apply"} => x.rec \in Records,
             x.step = "find" => x.wf.trigger \in DateFields
      PROVE  Writing
  <2>1. write' \in [Writes -> WriteT] /\ write'[w] = x /\ \A o \in Writes \ {w} : write'[o] = write[o]
    BY <1>0, <1>i
  <2>2. ASSUME NEW o \in Writes
        PROVE  /\ IsFiniteSet(write'[o].targets) /\ IsFiniteSet(write'[o].keys)
               /\ write'[o].step \in {"list", "find", "apply"} => write'[o].rec \in Records
               /\ write'[o].step = "find" => write'[o].wf.trigger \in DateFields
    <3>1. CASE o = w
      BY <1>i, <2>1, <3>1
    <3>2. CASE o # w
      <4>1. write'[o] = write[o]
        BY <2>1, <3>2
      <4> QED
        BY <1>z, <4>1
    <3> QED
      BY <3>1, <3>2
  <2> QED
    BY <2>1, <2>2 DEF Writing
<1>j. ASSUME NEW w \in Writes, write' = [write EXCEPT ![w] = NoWrite("done")] PROVE Writing
  <2>1. NoWrite("done").step = "done" /\ IsFiniteSet(NoWrite("done").targets) /\ IsFiniteSet(NoWrite("done").keys)
    BY <1>e, EmptiesIdle
  <2> QED
    BY <1>e, <1>i, <1>j, <2>1
<1>30. ASSUME NEW w \in Writes, NEW r \in Records, WriteRecord(w, r) PROVE TInv'
  <2>1. PICK d \in Dates \cup {NoDate, Deleted}, sil \in BOOLEAN :
            /\ record' = [record EXCEPT ![r] = d]
            /\ write' = [write EXCEPT ![w] = [NoWrite("list") EXCEPT !.rec = r, !.date = d, !.silenced = sil]]
    BY <1>30 DEF WriteRecord
  <2>2. Writing
    <3> DEFINE x == [NoWrite("list") EXCEPT !.rec = r, !.date = d, !.silenced = sil]
    <3>1. x \in WriteT /\ x.rec = r /\ x.targets = {} /\ x.keys = {} /\ x.step = "list"
      BY <1>e, EmptiesIdle DEF WriteT
    <3> HIDE DEF x
    <3> QED
      BY <1>e, <1>i, <2>1, <3>1 DEF x
  <2>3. World
    BY <1>0, <1>30, <2>1 DEF WriteRecord, World
  <2> QED
    BY <1>1, <1>2, <1>3, <1>4, <1>5, <1>6, <1>f, <1>30, <2>2, <2>3 DEF WriteRecord
<1>31. ASSUME NEW w \in Writes, ListDateWorkflows(w) PROVE TInv'
  <2>1. Writing
    <3> DEFINE x == [write[w] EXCEPT !.step = "find", !.wf = workflow]
    <3>1. \/ write' = [write EXCEPT ![w] = NoWrite("done")]
          \/ write' = [write EXCEPT ![w] = x] /\ ActiveDateField(workflow)
      BY <1>0, <1>31 DEF ListDateWorkflows
    <3>2. /\ x \in WriteT /\ x.rec = write[w].rec /\ x.targets = write[w].targets /\ x.keys = write[w].keys
          /\ x.wf = workflow
      BY <1>0, <1>z DEF WriteT
    <3>3. write[w].rec \in Records
      BY <1>z, <1>31 DEF ListDateWorkflows
    <3> HIDE DEF x
    <3>4. CASE write' = [write EXCEPT ![w] = x] /\ ActiveDateField(workflow)
      BY <1>i, <1>z, <3>2, <3>3, <3>4 DEF ActiveDateField
    <3> QED
      BY <1>j, <3>1, <3>4
  <2>2. lost' \in BOOLEAN
    BY <1>0, <1>31 DEF ListDateWorkflows
  <2>3. NoFault \/ Fault
    BY <1>31 DEF ListDateWorkflows
  <2> QED
    BY <1>1, <1>2, <1>3, <1>4, <1>5, <1>6, <1>8, <1>f, <1>31, <2>1, <2>2, <2>3 DEF ListDateWorkflows
<1>32. ASSUME NEW w \in Writes, FindRecordTimers(w) PROVE TInv'
  <2>1. Writing
    <3> DEFINE K == KeyAsked(write[w])
               T == RecordPending(write[w].rec)
               x == [write[w] EXCEPT !.step = "apply", !.keys = K, !.targets = T]
    <3>1. write' = [write EXCEPT ![w] = NoWrite("done")] \/ write' = [write EXCEPT ![w] = x]
      BY <1>0, <1>32 DEF FindRecordTimers
    <3>2. write[w].rec \in Records /\ write[w].wf.trigger \in DateFields
          /\ write[w].date \in Dates \cup {NoDate, Deleted, Unborn}
      BY <1>z, <1>32 DEF FindRecordTimers, WriteT
    <3>3. K \in SUBSET Key /\ IsFiniteSet(K)
      <4>1. CASE Ahead(write[w].date, write[w].wf.trigger)
        <5> DEFINE k == [rec |-> write[w].rec, at |-> FireAt(write[w].date, write[w].wf.trigger)]
        <5>1. k \in Key
          BY <1>k, <3>2, <4>1 DEF Key
        <5>2. K = {k}
          BY <4>1 DEF KeyAsked
        <5> HIDE DEF k, K
        <5> QED
          BY <5>1, <5>2, FS_Singleton
      <4>2. CASE ~Ahead(write[w].date, write[w].wf.trigger)
        BY <1>e, <4>2 DEF KeyAsked
      <4> QED
        BY <4>1, <4>2
    <3>4. T \in SUBSET Row /\ IsFiniteSet(T)
      BY <1>s DEF RecordPending
    <3> HIDE DEF K, T
    <3>5. x \in WriteT /\ x.rec = write[w].rec /\ x.keys = K /\ x.targets = T /\ x.step = "apply"
      BY <1>z, <3>3, <3>4 DEF WriteT
    <3> HIDE DEF x
    <3>6. CASE write' = [write EXCEPT ![w] = x]
      BY <1>i, <3>2, <3>3, <3>4, <3>5, <3>6
    <3> QED
      BY <1>j, <3>1, <3>6
  <2> QED
    BY <1>0, <1>1, <1>2, <1>3, <1>4, <1>5, <1>6, <1>8, <1>f, <1>32, <2>1 DEF FindRecordTimers
<1>33. ASSUME NEW w \in Writes, Materialize(w) PROVE TInv'
  <2>1. Writing
    BY <1>j, <1>33 DEF Materialize
  <2>2. Table
    <3> DEFINE others == {i \in write[w].targets : KeyOf(i) \notin write[w].keys}
    <3>1. pending' = Upsert(pending \ others, write[w].keys) \/ pending' = pending
      BY <1>33 DEF Materialize
    <3>2. UNCHANGED <<fired, runs>> /\ write[w].keys \in SUBSET Key
      BY <1>z, <1>33 DEF Materialize, WriteT
    <3> HIDE DEF others
    <3>3. CASE pending' = pending
      BY <1>d, <3>2, <3>3
    <3>4. CASE pending' = Upsert(pending \ others, write[w].keys)
      BY <1>u, <1>z, <3>2, <3>4
    <3> QED
      BY <3>1, <3>3, <3>4
  <2>3. lost' \in BOOLEAN
    BY <1>0, <1>33 DEF Materialize
  <2>4. NoFault \/ Fault
    BY <1>33 DEF Materialize
  <2> QED
    BY <1>1, <1>3, <1>4, <1>5, <1>6, <1>8, <1>f, <1>33, <2>1, <2>2, <2>3, <2>4 DEF Materialize
\* Time and crashes.
<1>34. CASE Prune
  <2>1. Table
    <3>1. pending' = pending /\ fired' \subseteq fired /\ runs' = runs
      BY <1>34 DEF Prune
    <3> QED
      BY <1>d, <3>1
  <2> QED
    BY <1>0, <1>1, <1>3, <1>4, <1>5, <1>6, <1>7, <1>8, <1>f, <1>34, <2>1 DEF Prune
<1>35. CASE Tick
  <2>1. World
    BY <1>0, <1>35 DEF Tick, World
  <2> QED
    BY <1>0, <1>1, <1>2, <1>3, <1>4, <1>5, <1>6, <1>7, <1>f, <1>35, <2>1 DEF Tick
<1>36. CASE Crash
  <2>1. Scan /\ lost' \in BOOLEAN
    BY <1>e, <1>36, EmptiesIdle DEF Crash, Scan
  <2>2. Arms /\ Reqs /\ Writing /\ Swaps
    <3>1. CASE arm' = [arm EXCEPT ![Scanner] = OffArm] /\ UNCHANGED <<req, write, swap>>
      BY <1>5, <1>6, <1>7, <1>c, <3>1
    <3>2. CASE /\ arm' = [p \in Procs |-> OffArm]
               /\ req' = [q \in Requests |-> IF req[q].step = "new" THEN req[q] ELSE Outside("done")]
               /\ write' = [w \in Writes |-> IF write[w].step = "new" THEN write[w] ELSE NoWrite("done")]
               /\ swap' = [q \in Requests |-> NoSwap]
      <4>1. Arms
        <5>1. OffArm.step # "insert" /\ OffArm.now \in 0..MaxTime /\ IsFiniteSet(OffArm.targets)
          BY <1>0, <1>e, EmptiesIdle
        <5>2. arm' \in [Procs -> Arm] /\ \A p \in Procs : arm'[p] = OffArm
          BY <1>e, <3>2
        <5> QED
          BY <5>1, <5>2 DEF Arms
      <4>2. Reqs
        BY <1>e, <1>v, <3>2, EmptiesIdle DEF Reqs
      <4>3. Swaps
        BY <1>e, <3>2, EmptiesIdle DEF Swaps
      <4>4. Writing
        BY <1>e, <1>z, <3>2, EmptiesIdle DEF Writing
      <4> QED
        BY <4>1, <4>2, <4>3, <4>4
    <3> QED
      BY <1>36, <3>1, <3>2 DEF Crash
  <2> QED
    BY <1>0, <1>1, <1>2, <1>8, <1>f, <1>36, <2>1, <2>2 DEF Crash
<1>37. CASE UNCHANGED vars
  BY <1>0, <1>1, <1>2, <1>3, <1>4, <1>5, <1>6, <1>7, <1>8, <1>37 DEF vars
<1> QED
  BY <1>9, <1>10, <1>11, <1>12, <1>13, <1>14, <1>15, <1>16, <1>17, <1>18, <1>19, <1>20, <1>21, <1>22, <1>23, <1>24,
     <1>25, <1>26, <1>27, <1>28, <1>29, <1>30, <1>31, <1>32, <1>33, <1>34, <1>35, <1>36, <1>37
     DEF Next, ScanStep, RequestStep, SwapStep, WriteStep

LEMMA TypesAlways == Spec => []TInv
  BY TypeInit, TypeNext, PTL DEF Spec

\* Every variable keeps its type: a new row always finds an id.
THEOREM TimersTypeCorrect == Spec => []TypeOK
<1>1. TInv => TypeOK
  BY DEF TInv
<1> QED
  BY <1>1, TypesAlways, PTL

-----------------------------------------------------------------------------
(* ConsumedMeansRun: the scan marks a timer it fired, or one whose workflow it *)
(* found inactive.                                                           *)

FiredInv == scan.step = "mark" /\ scan.wf.active => \A i \in scan.cur : KeyOf(i) \in runs

LEMMA FiredNext == TInv /\ FiredInv /\ [Next]_vars => FiredInv'
<1> SUFFICES ASSUME TInv, FiredInv, [Next]_vars PROVE FiredInv'
  OBVIOUS
<1>0. scan \in ScanT
  BY DEF TInv, TypeOK, ScanT
<1>i. NoScan.step = "idle" /\ NoWorkflow.active = FALSE
  BY DEF NoScan, NoWorkflow
<1>1. CASE ScanBegin
  BY <1>0, <1>1 DEF ScanBegin, FiredInv, ScanT
<1>2. CASE Reconcile \/ ListDue \/ Rearm \/ Crash
  BY <1>i, <1>2 DEF Reconcile, ListDue, Rearm, Crash, FiredInv, NoScan
<1>3. CASE NextDue
  BY <1>i, <1>3 DEF NextDue, FiredInv
<1>4. CASE Fire
  <2>1. CASE scan' = [scan EXCEPT !.step = "mark"] /\ runs' = runs \cup {KeyOf(i) : i \in scan.cur}
    BY <1>0, <2>1 DEF FiredInv, ScanT
  <2>2. CASE scan' = [NoScan EXCEPT !.step = "next", !.due = scan.due]
    BY <2>2 DEF FiredInv, NoScan
  <2> QED
    BY <1>4, <2>1, <2>2 DEF Fire
<1>5. CASE MarkFired
  <2>1. scan' \in {[scan EXCEPT !.step = "rearm", !.cur = {}], [NoScan EXCEPT !.step = "next", !.due = scan.due]}
    BY <1>5 DEF MarkFired
  <2> QED
    BY <1>0, <2>1 DEF FiredInv, ScanT, NoScan
<1>6. CASE UNCHANGED <<scan, runs>>
  BY <1>6 DEF FiredInv
<1> QED
  BY <1>1, <1>2, <1>3, <1>4, <1>5, <1>6
     DEF Next, ScanStep, ArmCancel, ArmInsert, ReadForUpdate, ReadForToggle, SaveWorkflow, SoftDelete, CallArm,
         FindDateTimers, CancelDateTimers, SpawnRebuild, RequestStep, SwapStep, SwapBegin, SwapDelete, SwapScan,
         SwapInsert, SwapFails, WriteStep, WriteRecord, ListDateWorkflows, FindRecordTimers, Materialize,
         Prune, Tick, vars, tableVars

\* Whatever takes the workflow for gone is the scan's look at its next timer.
LEMMA GoneWhenLooking ==
    ASSUME TInv, [Next]_vars, TakenForGone
    PROVE  ~workflow.active \/ workflow.deleted \/ faults' > faults
<1>0. scan \in ScanT /\ faults \in Nat
  BY TimerBoundAssumption DEF TInv, TypeOK, ScanT
<1>i. NoScan.step = "idle" /\ NoWorkflow.active = FALSE
  BY DEF NoScan, NoWorkflow
<1>1. CASE NextDue
  BY <1>0, <1>i, <1>1 DEF NextDue, TakenForGone, Fault
<1>2. CASE ScanBegin \/ Reconcile \/ ListDue \/ Fire \/ MarkFired \/ Rearm \/ Crash
  <2>1. scan'.step # "mark" \/ scan.step \notin {"next", "rearming"}
    BY <1>0, <1>i, <1>2 DEF ScanBegin, Reconcile, ListDue, Fire, MarkFired, Rearm, Crash, NoScan, ScanT
  <2> QED
    BY <2>1 DEF TakenForGone
<1>3. CASE UNCHANGED scan
  BY <1>3 DEF TakenForGone
<1> QED
  BY <1>1, <1>2, <1>3
     DEF Next, ScanStep, ArmCancel, ArmInsert, ReadForUpdate, ReadForToggle, SaveWorkflow, SoftDelete, CallArm,
         FindDateTimers, CancelDateTimers, SpawnRebuild, RequestStep, SwapStep, SwapBegin, SwapDelete, SwapScan,
         SwapInsert, SwapFails, WriteStep, WriteRecord, ListDateWorkflows, FindRecordTimers, Materialize,
         Prune, Tick, vars, tableVars

\* A timer is consumed only once its run is on record, or after the scan took the
\* workflow for gone: because it was gone or off then, or because the read of it
\* failed (scanTimers, fireTimerRun).
THEOREM ConsumedTimersRan == Spec => ConsumedMeansRun
<1>1. Init => FiredInv
  BY EmptiesIdle DEF Init, FiredInv
<1>2. TInv /\ FiredInv /\ [Next]_vars => [RunFirst /\ GoneOrUnread]_vars
  <2> SUFFICES ASSUME TInv, FiredInv, [Next]_vars PROVE RunFirst /\ GoneOrUnread
    OBVIOUS
  <2>1. MarkFired \/ fired' \subseteq fired
    BY DEF Next, ScanStep, ScanBegin, Reconcile, ListDue, NextDue, Fire, Rearm, ArmCancel, ArmInsert, ReadForUpdate,
           ReadForToggle, SaveWorkflow, SoftDelete, CallArm, FindDateTimers, CancelDateTimers, SpawnRebuild, RequestStep,
           SwapStep, SwapBegin, SwapDelete, SwapScan, SwapInsert, SwapFails, WriteStep, WriteRecord, ListDateWorkflows,
           FindRecordTimers, Materialize, Prune, Tick, Crash, vars, tableVars
  <2>2. RunFirst
    BY <2>1 DEF MarkFired, FiredInv, RunFirst
  <2>3. GoneOrUnread
    BY GoneWhenLooking DEF GoneOrUnread
  <2> QED
    BY <2>2, <2>3
<1>3. Spec => []FiredInv
  BY <1>1, FiredNext, TypesAlways, PTL DEF Spec
<1> QED
  BY <1>2, <1>3, TypesAlways, PTL DEF Spec, ConsumedMeansRun

-----------------------------------------------------------------------------
(***************************************************************************)
(* What the arming of the schedule and of the dates rely on: the rows a step  *)
(* holds are of its own kind, an occurrence that was fired is past, an arming  *)
(* belongs to whoever waits for it.                                           *)
(***************************************************************************)

Arming == Requests \cup {Scanner}

Sorted ==
    /\ \A p \in Arming : \A i \in arm[p].targets : i.rec = NoRecord
    /\ \A q \in Requests :
          /\ \A i \in req[q].targets \cup swap[q].targets \cup swap[q].doomed : i.rec # NoRecord
          /\ \A k \in swap[q].found : k.rec # NoRecord
    /\ \A w \in Writes :
          /\ \A i \in write[w].targets : i.rec = write[w].rec
          /\ \A k \in write[w].keys : k.rec = write[w].rec
          /\ write[w].targets # {} \/ write[w].keys # {} => write[w].rec # NoRecord

Past == \A i \in fired \cup scan.due \cup scan.cur : i.at <= now

Owned ==
    /\ \A q \in Requests : arm[q].step # "off" => req[q].step = "arming"
    /\ arm[Scanner].step # "off" => scan.step \in {"healing", "rearming"}

Ready ==
    /\ scan.step = "fire" => scan.wf.active
    /\ \A p \in Arming : arm[p].step = "insert" => ActiveSchedule(arm[p].wf)

-----------------------------------------------------------------------------
(***************************************************************************)
(* The schedule. While nothing was lost, an occurrence of another cron is     *)
(* under a cancel that is still to come, and an active schedule has its next   *)
(* occurrence or somebody who arms it.                                        *)
(***************************************************************************)

ArmKey(p) == [rec |-> NoRecord, at |-> NextFire(arm[p].wf.trigger, arm[p].now)]

\* The row the scan consumes without arming anything after it.
Consuming == IF scan.step = "mark" /\ ~scan.wf.active THEN scan.cur ELSE {}

\* An arming that will find its key free, or that will count as lost.
Useful(p) ==
    /\ arm[p].step # "off"
    /\ arm[p].wf = workflow => \A i \in fired \cup Consuming : KeyOf(i) # ArmKey(p)

WillArm == scan.step = "rearm" \/ \E q \in Requests : req[q].step = "arm"

Covered ==
    WillArm \/ (\E p \in Arming : Useful(p)) \/ \E i \in SchedulePending : i \notin Consuming

\* Who comes late cancels nothing that somebody useful is not about to cancel too.
LateHarmless ==
    \A p \in Arming : arm[p].step = "cancel" /\ ~Useful(p) =>
        \A i \in arm[p].targets \cap pending :
            WillArm \/ \E o \in Arming : arm[o].step = "cancel" /\ Useful(o) /\ i \in arm[o].targets

NoStray ==
    \A i \in SchedulePending :
        \/ ActiveSchedule(workflow) /\ i.at \in Occurs[workflow.trigger]
        \/ \E q \in Requests : req[q].step = "arm"
        \/ \E p \in Arming : arm[p].step = "cancel" /\ i \in arm[p].targets

ScheduleInv ==
    ~lost => NoStray /\ (ActiveSchedule(workflow) => Covered /\ LateHarmless)

-----------------------------------------------------------------------------
(***************************************************************************)
(* The dates. While nothing was lost, a record whose date lies ahead has its  *)
(* timer, or a rebuild or a goroutine that will bring it.                     *)
(***************************************************************************)

DateLocals ==
    /\ \A w \in Writes :
          /\ write[w].step \in {"list", "find", "apply"} /\ write[w].silenced => write[w].rec \in TestLeads
          /\ write[w].step = "apply" /\ Ahead(write[w].date, write[w].wf.trigger) =>
                 write[w].keys = {[rec |-> write[w].rec, at |-> FireAt(write[w].date, write[w].wf.trigger)]}
          /\ write[w].step = "apply" => write[w].wf.trigger \in DateFields
    /\ \A q \in Requests :
          /\ req[q].step = "save" => req[q].op \in {"update", "toggle"}
          /\ req[q].step = "cancel" => ~ActiveDateField(req[q].wf)
          /\ swap[q].step # "off" => req[q].step = "done"

DateKey(r) == [rec |-> r, at |-> FireAt(record[r], workflow.trigger)]

RebuildToCome ==
    \E q \in Requests :
        req[q].step \in {"arm", "arming", "spawn"} /\ RebuildOwed(req[q]) /\ req[q].wf = workflow
RebuildBrings(r) ==
    \E q \in Requests :
        /\ swap[q].step # "off"
        /\ (swap[q].wf = workflow /\ swap[q].step = "insert") => DateKey(r) \in swap[q].found
WriteBrings(r) ==
    \E w \in Writes :
        write[w].step \in {"list", "find", "apply"} /\ write[w].rec = r /\ write[w].date = record[r]
StaysPending(r) ==
    \E i \in pending : KeyOf(i) = DateKey(r) /\ \A q \in Requests : i \notin swap[q].doomed

Brought(r) == RebuildToCome \/ RebuildBrings(r) \/ WriteBrings(r) \/ StaysPending(r)

DateInv ==
    ~lost /\ ActiveDateField(workflow) /\ Cardinality(Records) <= ScanLimit =>
        \A r \in Records \ TestLeads :
            Ahead(record[r], workflow.trigger) => Brought(r)

-----------------------------------------------------------------------------
(* What one step does to the locals of one arming, request, rebuild or write. *)

LEMMA TypesOf ==
    ASSUME TInv
    PROVE  /\ now \in 0..MaxTime /\ workflow \in Workflow /\ lost \in BOOLEAN
           /\ pending \in SUBSET Row /\ fired \in SUBSET Row /\ IsFiniteSet(Held)
           /\ record \in [Records -> Dates \cup {NoDate, Deleted, Unborn}]
           /\ req \in [Requests -> ReqT] /\ arm \in [Arming -> Arm] /\ scan \in ScanT
           /\ write \in [Writes -> WriteT] /\ swap \in [Requests -> SwapT]
  BY HeldFinite DEF TInv, TypeOK, ReqT, ScanT, WriteT, SwapT, Arming

\* Where a step of the scan goes.
LEMMA ScanMoves ==
    ASSUME TInv
    PROVE  /\ ScanBegin => scan'.step \in {"reconcile", "due"}
           /\ Reconcile => scan'.step \in {"healing", "due"} /\ scan.step = "reconcile"
           /\ ListDue => scan'.step \in {"idle", "next"} /\ scan.step \in {"due", "healing"}
           /\ NextDue => /\ scan'.step \in {"idle", "fire", "mark"} /\ scan.step \in {"next", "rearming"}
                         /\ scan'.step \in {"fire", "mark"} /\ scan'.wf.active => scan'.step = "fire"
                         /\ scan'.step = "fire" => scan'.wf = workflow /\ workflow.active
                         /\ scan'.step = "mark" => lost' \/ ~(workflow.active /\ ~workflow.deleted)
           /\ Fire => /\ scan'.step \in {"mark", "next"} /\ scan.step = "fire"
                      /\ scan'.step = "mark" => scan'.wf = scan.wf /\ scan'.cur = scan.cur
           /\ MarkFired => scan'.step \in {"rearm", "next"} /\ scan.step = "mark"
           /\ Rearm => scan'.step = "rearming" /\ scan.step = "rearm"
           /\ Crash => scan'.step = "idle"
<1>0. scan \in ScanT
  BY TypesOf
<1>1. ScanBegin => scan'.step \in {"reconcile", "due"}
  BY <1>0 DEF ScanBegin, ScanT
<1>2. Reconcile => scan'.step \in {"healing", "due"} /\ scan.step = "reconcile"
  BY DEF Reconcile, NoScan
<1>3. ListDue => scan'.step \in {"idle", "next"} /\ scan.step \in {"due", "healing"}
  <2> DEFINE D == {i \in pending : i.at <= now}
  <2>1. ListDue => scan' = NoScan \/ scan' = [NoScan EXCEPT !.step = "next", !.due = D]
    BY DEF ListDue
  <2>2. ListDue => scan.step \in {"due", "healing"}
    BY DEF ListDue
  <2> HIDE DEF D
  <2>3. ListDue => scan' \in {NoScan, [step |-> "next", wf |-> NoWorkflow, due |-> D, cur |-> {}]}
    BY <2>1 DEF NoScan
  <2> QED
    BY <2>1, <2>2, <2>3, EmptiesIdle
<1>4. NextDue => /\ scan'.step \in {"idle", "fire", "mark"} /\ scan.step \in {"next", "rearming"}
                 /\ scan'.step \in {"fire", "mark"} /\ scan'.wf.active => scan'.step = "fire"
                 /\ scan'.step = "fire" => scan'.wf = workflow /\ workflow.active
                 /\ scan'.step = "mark" => lost' \/ ~(workflow.active /\ ~workflow.deleted)
  BY EmptiesIdle DEF NextDue, NoWorkflow
<1>5. Fire => /\ scan'.step \in {"mark", "next"} /\ scan.step = "fire"
              /\ scan'.step = "mark" => scan'.wf = scan.wf /\ scan'.cur = scan.cur
  BY <1>0 DEF Fire, NoScan, ScanT
<1>6. MarkFired => scan'.step \in {"rearm", "next"} /\ scan.step = "mark"
  <2> SUFFICES ASSUME MarkFired PROVE scan'.step \in {"rearm", "next"} /\ scan.step = "mark"
    OBVIOUS
  <2>1. scan' \in {[scan EXCEPT !.step = "rearm", !.cur = {}], [NoScan EXCEPT !.step = "next", !.due = scan.due]}
    BY DEF MarkFired
  <2> QED
    BY <1>0, <2>1 DEF MarkFired, NoScan, ScanT
<1>7. Rearm => scan'.step = "rearming" /\ scan.step = "rearm"
  BY DEF Rearm, NoScan
<1>8. Crash => scan'.step = "idle"
  BY EmptiesIdle DEF Crash
<1> QED
  BY <1>1, <1>2, <1>3, <1>4, <1>5, <1>6, <1>7, <1>8

\* A request goes on, is called off, or the scan arms.
CalledNow(p) ==
    /\ arm'[p].step = "cancel" /\ arm'[p].now = now /\ arm'[p].targets = SchedulePending
    /\ UNCHANGED <<now, workflow, tableVars, lost>>
    /\ \/ p = Scanner /\ scan.step = "reconcile" /\ scan'.step = "healing"
       \/ p = Scanner /\ scan.step = "rearm" /\ scan'.step = "rearming"
       \/ /\ p \in Requests /\ UNCHANGED scan
          /\ req[p].step = "arm" /\ req'[p].step = "arming" /\ arm'[p].wf = req[p].wf
ArmMove(p) ==
    \/ arm'[p] = arm[p]
    \/ arm'[p] = OffArm
    \/ CalledNow(p)
    \/ /\ arm[p].step = "cancel" /\ arm'[p].step = "insert" /\ ActiveSchedule(arm[p].wf)
       /\ arm'[p].wf = arm[p].wf /\ arm'[p].now = arm[p].now /\ arm'[p].targets = {}

LEMMA ArmMoves ==
    ASSUME TInv, [Next]_vars, NEW p \in Arming
    PROVE  ArmMove(p)
<1>0. arm \in [Arming -> Arm] /\ req \in [Requests -> ReqT] /\ scan \in ScanT
  BY TypesOf
<1>1. CASE UNCHANGED arm
  BY <1>1 DEF ArmMove
<1>2. ASSUME NEW o \in Arming, arm' = [arm EXCEPT ![o] = OffArm] PROVE ArmMove(p)
  BY <1>0, <1>2 DEF ArmMove
<1>3. ASSUME NEW o \in Arming, ArmCancel(o) \/ ArmInsert(o) PROVE ArmMove(p)
  <2>1. \/ arm' = [arm EXCEPT ![o] = OffArm]
        \/ /\ arm[o].step = "cancel" /\ ActiveSchedule(arm[o].wf)
           /\ arm' = [arm EXCEPT ![o] = [arm[o] EXCEPT !.step = "insert", !.targets = {}]]
    BY <1>0, <1>3 DEF ArmCancel, ArmInsert
  <2>2. CASE /\ arm[o].step = "cancel" /\ ActiveSchedule(arm[o].wf)
             /\ arm' = [arm EXCEPT ![o] = [arm[o] EXCEPT !.step = "insert", !.targets = {}]]
    BY <1>0, <2>2 DEF ArmMove, Arm
  <2> QED
    BY <1>2, <2>1, <2>2
<1>4. ASSUME NEW q \in Requests, CallArm(q) PROVE ArmMove(p)
  <2>1. CASE p = q
    <3>1. arm'[p] = [step |-> "cancel", wf |-> req[q].wf, now |-> now, targets |-> SchedulePending]
      BY <1>0, <1>4, <2>1 DEF CallArm, ArmCalled
    <3>2. req'[p].step = "arming" /\ req[p].step = "arm"
      BY <1>0, <1>4, <2>1 DEF CallArm, ReqT
    <3>3. UNCHANGED <<now, workflow, tableVars, lost, scan>>
      BY <1>4 DEF CallArm
    <3>4. CalledNow(p)
      BY <2>1, <3>1, <3>2, <3>3 DEF CalledNow
    <3> QED
      BY <3>4 DEF ArmMove
  <2>2. CASE p # q
    BY <1>0, <1>4, <2>2 DEF CallArm, ArmCalled, ArmMove
  <2> QED
    BY <2>1, <2>2
<1>5. CASE (Reconcile /\ ArmCalled(Scanner, scan.wf)) \/ Rearm
  <2>1. CASE p = Scanner
    <3>1. arm'[p] = [step |-> "cancel", wf |-> scan.wf, now |-> now, targets |-> SchedulePending]
      BY <1>0, <1>5, <2>1 DEF Rearm, ArmCalled
    <3>2. CASE Reconcile /\ ArmCalled(Scanner, scan.wf)
      <4>1. scan.step = "reconcile" /\ UNCHANGED <<now, workflow, tableVars, lost>>
        BY <3>2 DEF Reconcile
      <4>2. scan' = [NoScan EXCEPT !.step = "healing"] \/ UNCHANGED arm
        BY <3>2 DEF Reconcile
      <4>3. scan' = [NoScan EXCEPT !.step = "healing"] => scan'.step = "healing"
        BY DEF NoScan
      <4> QED
        BY <1>1, <2>1, <3>1, <4>1, <4>2, <4>3 DEF CalledNow, ArmMove
    <3>3. CASE Rearm
      <4>1. scan.step = "rearm" /\ UNCHANGED <<now, workflow, tableVars, lost>>
        BY <3>3 DEF Rearm
      <4>2. scan'.step = "rearming"
        BY <3>3 DEF Rearm, NoScan
      <4> QED
        BY <2>1, <3>1, <4>1, <4>2 DEF CalledNow, ArmMove
    <3> QED
      BY <1>5, <3>2, <3>3
  <2>2. CASE p # Scanner
    BY <1>0, <1>5, <2>2 DEF Rearm, ArmCalled, ArmMove
  <2> QED
    BY <2>1, <2>2
<1>6. CASE Crash
  <2>1. arm' = [arm EXCEPT ![Scanner] = OffArm] \/ arm' = [o \in Arming |-> OffArm]
    BY <1>6 DEF Crash, Arming
  <2> QED
    BY <1>0, <2>1 DEF ArmMove
<1>7. Reconcile => UNCHANGED arm \/ ArmCalled(Scanner, scan.wf)
  BY DEF Reconcile
<1> QED
  BY <1>1, <1>3, <1>4, <1>5, <1>6, <1>7 DEF Next, ScanStep, ScanBegin, ListDue, NextDue, Fire, MarkFired, ReadForUpdate,
     ReadForToggle, SaveWorkflow, SoftDelete, FindDateTimers, CancelDateTimers, SpawnRebuild, RequestStep, SwapStep,
     SwapBegin, SwapDelete, SwapScan, SwapInsert, SwapFails, WriteStep, WriteRecord, ListDateWorkflows,
     FindRecordTimers, Materialize, Prune, Tick, vars, Arming

ReqMove(q) ==
    \/ req'[q] = req[q]
    \/ /\ req'[q] = Outside("done")
       /\ req[q].step = "save" \/ (req[q].step = "spawn" /\ SpawnRebuild(q)) \/ (lost' /\ arm'[q] = OffArm)
    \/ /\ req[q].step = "new" /\ req'[q].step = "save"
       /\ req'[q].targets = {} /\ req'[q].op \in {"update", "toggle"}
    \/ req[q].step \in {"new", "save"} /\ req'[q].step = "arm" /\ req'[q].targets \in {{}, req[q].targets}
    \/ /\ req'[q].op = req[q].op /\ req'[q].wf = req[q].wf /\ req'[q].prev = req[q].prev
       /\ \/ req[q].step = "arm" /\ req'[q].step = "arming" /\ req'[q].targets = req[q].targets
          \/ /\ req[q].step = "arming" /\ arm[q].step = "off" /\ ActiveDateField(req[q].wf)
             /\ req'[q].step = "spawn" /\ req'[q].targets = req[q].targets
          \/ /\ req[q].step = "arming" /\ arm[q].step = "off" /\ ~ActiveDateField(req[q].wf)
             /\ req'[q].step = "cancel" /\ req'[q].targets = DatePending
          \/ req[q].step = "cancel" /\ req'[q].step = "spawn" /\ req'[q].targets = {}

LEMMA ReqMoves ==
    ASSUME TInv, [Next]_vars, NEW q \in Requests
    PROVE  ReqMove(q)
<1>0. req \in [Requests -> ReqT] /\ workflow \in Workflow
  BY TypesOf
<1>1. CASE UNCHANGED req
  BY <1>1 DEF ReqMove
<1>2. ASSUME NEW o \in Requests, NEW r, req' = [req EXCEPT ![o] = r], o = q => ReqMove(q)
      PROVE  ReqMove(q)
  BY <1>0, <1>2 DEF ReqMove
<1>3. ASSUME NEW o \in Requests, ReadForUpdate(o) \/ ReadForToggle(o) PROVE ReqMove(q)
  <2>1. CASE ReadForUpdate(o)
    <3>1. PICK t \in Triggers :
              req' = [req EXCEPT ![o] = [Outside("save") EXCEPT
                        !.op = "update", !.wf = [workflow EXCEPT !.trigger = t], !.prev = workflow.trigger]]
      BY <2>1 DEF ReadForUpdate
    <3>2. o = q => req'[q].step = "save" /\ req'[q].targets = {} /\ req'[q].op = "update"
      BY <1>0, <3>1 DEF Outside
    <3> QED
      BY <1>2, <2>1, <3>1, <3>2 DEF ReadForUpdate, ReqMove
  <2>2. CASE ReadForToggle(o)
    <3>1. req' = [req EXCEPT ![o] = [Outside("save") EXCEPT !.op = "toggle", !.wf = [workflow EXCEPT !.active = ~@]]]
      BY <2>2 DEF ReadForToggle
    <3>2. o = q => req'[q].step = "save" /\ req'[q].targets = {} /\ req'[q].op = "toggle"
      BY <1>0, <3>1 DEF Outside
    <3> QED
      BY <1>2, <2>2, <3>1, <3>2 DEF ReadForToggle, ReqMove
  <2> QED
    BY <1>3, <2>1, <2>2
<1>4. ASSUME NEW o \in Requests, SaveWorkflow(o) PROVE ReqMove(q)
  <2>1. /\ req[o].step = "save"
        /\ \/ req' = [req EXCEPT ![o] = [req[o] EXCEPT !.step = "arm"]]
           \/ req' = [req EXCEPT ![o] = Outside("done")]
    BY <1>0, <1>4 DEF SaveWorkflow
  <2>2. CASE q = o /\ req'[q] = [req[q] EXCEPT !.step = "arm"]
    <3>1. req'[q].step = "arm" /\ req'[q].targets = req[q].targets
      BY <1>0, <2>2 DEF ReqT
    <3> QED
      BY <2>1, <2>2, <3>1 DEF ReqMove
  <2>3. CASE q = o /\ req'[q] = Outside("done")
    BY <2>1, <2>3 DEF ReqMove
  <2> QED
    BY <1>0, <2>1, <2>2, <2>3 DEF ReqMove
<1>5. ASSUME NEW o \in Requests, SoftDelete(o) PROVE ReqMove(q)
  <2>1. req' = [req EXCEPT ![o] = [Outside("arm") EXCEPT !.op = "delete", !.wf = workflow']]
    BY <1>5 DEF SoftDelete
  <2>2. o = q => req'[q].step = "arm" /\ req'[q].targets = {}
    BY <1>0, <2>1 DEF Outside
  <2> QED
    BY <1>2, <1>5, <2>1, <2>2 DEF SoftDelete, ReqMove
<1>6. ASSUME NEW o \in Requests, CallArm(o) PROVE ReqMove(q)
  <2>1. req[o].step = "arm" /\ req' = [req EXCEPT ![o] = [req[o] EXCEPT !.step = "arming"]]
    BY <1>0, <1>6 DEF CallArm
  <2>2. CASE o = q
    <3>1. req'[q] = [req[q] EXCEPT !.step = "arming"]
      BY <1>0, <2>1, <2>2
    <3>2. /\ req'[q].op = req[q].op /\ req'[q].wf = req[q].wf /\ req'[q].prev = req[q].prev
          /\ req'[q].step = "arming" /\ req'[q].targets = req[q].targets
      BY <1>0, <3>1 DEF ReqT
    <3> QED
      BY <2>1, <2>2, <3>2 DEF ReqMove
  <2> QED
    BY <1>0, <2>1, <2>2 DEF ReqMove
<1>7. ASSUME NEW o \in Requests, FindDateTimers(o) PROVE ReqMove(q)
  <2>0. req[o].step = "arming" /\ arm[o].step = "off"
    BY <1>7 DEF FindDateTimers
  <2>1. CASE ActiveDateField(req[o].wf)
    <3>1. req' = [req EXCEPT ![o] = [req[o] EXCEPT !.step = "spawn"]]
      BY <1>0, <1>7, <2>1 DEF FindDateTimers
    <3>2. CASE o = q
      <4>1. req'[q] = [req[q] EXCEPT !.step = "spawn"]
        BY <1>0, <3>1, <3>2
      <4>2. /\ req'[q].op = req[q].op /\ req'[q].wf = req[q].wf /\ req'[q].prev = req[q].prev
            /\ req'[q].step = "spawn" /\ req'[q].targets = req[q].targets
        BY <1>0, <4>1 DEF ReqT
      <4> QED
        BY <2>0, <2>1, <3>2, <4>2 DEF ReqMove
    <3> QED
      BY <1>0, <3>1, <3>2 DEF ReqMove
  <2>2. CASE ~ActiveDateField(req[o].wf)
    <3>1. req' = [req EXCEPT ![o] = [req[o] EXCEPT !.step = "cancel", !.targets = DatePending]]
      BY <1>0, <1>7, <2>2 DEF FindDateTimers
    <3>2. CASE o = q
      <4>1. req'[q] = [req[q] EXCEPT !.step = "cancel", !.targets = DatePending]
        BY <1>0, <3>1, <3>2
      <4>2. /\ req'[q].op = req[q].op /\ req'[q].wf = req[q].wf /\ req'[q].prev = req[q].prev
            /\ req'[q].step = "cancel" /\ req'[q].targets = DatePending
        BY <1>0, <4>1 DEF ReqT
      <4> QED
        BY <2>0, <2>2, <3>2, <4>2 DEF ReqMove
    <3> QED
      BY <1>0, <3>1, <3>2 DEF ReqMove
  <2> QED
    BY <2>1, <2>2
<1>8. ASSUME NEW o \in Requests, CancelDateTimers(o) PROVE ReqMove(q)
  <2>1. req[o].step = "cancel" /\ req' = [req EXCEPT ![o] = [req[o] EXCEPT !.step = "spawn", !.targets = {}]]
    BY <1>0, <1>8 DEF CancelDateTimers
  <2>2. CASE o = q
    <3>1. req'[q] = [req[q] EXCEPT !.step = "spawn", !.targets = {}]
      BY <1>0, <2>1, <2>2
    <3>2. /\ req'[q].op = req[q].op /\ req'[q].wf = req[q].wf /\ req'[q].prev = req[q].prev
          /\ req'[q].step = "spawn" /\ req'[q].targets = {}
      BY <1>0, <3>1 DEF ReqT
    <3> QED
      BY <2>1, <2>2, <3>2 DEF ReqMove
  <2> QED
    BY <1>0, <2>1, <2>2 DEF ReqMove
<1>9. ASSUME NEW o \in Requests, SpawnRebuild(o) PROVE ReqMove(q)
  BY <1>0, <1>9 DEF SpawnRebuild, ReqMove
<1>10. CASE Crash
  <2>1. CASE UNCHANGED req
    BY <1>1, <2>1
  <2>2. CASE /\ req' = [o \in Requests |-> IF req[o].step = "new" THEN req[o] ELSE Outside("done")]
             /\ arm' = [p \in Requests \cup {Scanner} |-> OffArm]
             /\ lost'
    BY <1>0, <2>2 DEF ReqMove
  <2> QED
    BY <1>10, <2>1, <2>2 DEF Crash
<1> QED
  BY <1>1, <1>3, <1>4, <1>5, <1>6, <1>7, <1>8, <1>9, <1>10 DEF Next, ScanStep, ScanBegin, Reconcile, ListDue, NextDue,
     Fire, MarkFired, Rearm, ArmCancel, ArmInsert, RequestStep, SwapStep, SwapBegin, SwapDelete, SwapScan, SwapInsert,
     SwapFails, WriteStep, WriteRecord, ListDateWorkflows, FindRecordTimers, Materialize, Prune, Tick, vars

SwapMove(q) ==
    \/ swap'[q] = swap[q]
    \/ swap'[q] = NoSwap /\ ((SwapDelete(q) /\ ~swap[q].wf.active) \/ SwapInsert(q) \/ lost')
    \/ /\ req[q].step = "spawn" /\ RebuildOwed(req[q]) /\ req'[q].step = "done"
       /\ swap'[q].step = "begin" /\ swap'[q].wf = req[q].wf
       /\ swap'[q].targets = {} /\ swap'[q].doomed = {} /\ swap'[q].found = {}
    \/ /\ swap'[q].wf = swap[q].wf /\ UNCHANGED pending
       /\ \/ /\ swap[q].step = "begin" /\ swap'[q].step = "delete" /\ swap'[q].targets = DatePending
             /\ swap'[q].doomed = swap[q].doomed /\ swap'[q].found = swap[q].found
          \/ /\ swap[q].step = "delete" /\ swap'[q].step = "scan" /\ swap'[q].targets = {}
             /\ swap[q].targets \cap LockedBut(q) = {}
             /\ swap'[q].doomed = swap[q].targets \cap pending /\ swap'[q].found = swap[q].found
          \/ /\ SwapScan(q) /\ swap[q].step = "scan" /\ swap'[q].step = "insert" /\ swap'[q].targets = swap[q].targets
             /\ swap'[q].doomed = swap[q].doomed /\ \A k \in swap'[q].found : k.rec \in Records

LEMMA SwapMoves ==
    ASSUME TInv, [Next]_vars, NEW q \in Requests
    PROVE  SwapMove(q)
<1>0. swap \in [Requests -> SwapT] /\ swap' \in [Requests -> SwapT] /\ req \in [Requests -> ReqT]
  BY TypesOf, TypeNext DEF TInv, TypeOK, SwapT
<1>1. CASE UNCHANGED swap
  BY <1>1 DEF SwapMove
<1>2. ASSUME NEW o \in Requests, swap' = [swap EXCEPT ![o] = NoSwap],
             (SwapDelete(o) /\ ~swap[o].wf.active) \/ SwapInsert(o) \/ lost'
      PROVE  SwapMove(q)
  BY <1>0, <1>2 DEF SwapMove
<1>3. ASSUME NEW o \in Requests, SpawnRebuild(o) PROVE SwapMove(q)
  <2>0. req'[o].step = "done"
    BY <1>0, <1>3, EmptiesIdle DEF SpawnRebuild
  <2>1. CASE RebuildOwed(req[o])
    <3>1. swap' = [swap EXCEPT ![o] = [NoSwap EXCEPT !.step = "begin", !.wf = req[o].wf]]
      BY <1>3, <2>1 DEF SpawnRebuild
    <3>2. CASE o = q
      <4>1. swap'[q] = [NoSwap EXCEPT !.step = "begin", !.wf = req[q].wf]
        BY <1>0, <3>1, <3>2
      <4> QED
        BY <1>3, <2>0, <2>1, <3>2, <4>1 DEF SpawnRebuild, SwapMove, NoSwap
    <3> QED
      BY <1>0, <3>1, <3>2 DEF SwapMove
  <2> QED
    BY <1>1, <1>3, <2>1 DEF SpawnRebuild
<1>4. ASSUME NEW o \in Requests, SwapBegin(o) PROVE SwapMove(q)
  <2>1. /\ swap[o].step = "begin" /\ UNCHANGED pending
        /\ swap' = [swap EXCEPT ![o] = [swap[o] EXCEPT !.step = "delete", !.targets = DatePending]]
    BY <1>0, <1>4 DEF SwapBegin, tableVars
  <2>2. CASE o = q
    <3>1. swap'[q] = [swap[q] EXCEPT !.step = "delete", !.targets = DatePending]
      BY <1>0, <2>1, <2>2
    <3>2. /\ swap'[q].step = "delete" /\ swap'[q].wf = swap[q].wf /\ swap'[q].targets = DatePending
          /\ swap'[q].doomed = swap[q].doomed /\ swap'[q].found = swap[q].found
      BY <1>0, <3>1 DEF SwapT
    <3> QED
      BY <2>1, <2>2, <3>2 DEF SwapMove
  <2> QED
    BY <1>0, <2>1, <2>2 DEF SwapMove
<1>5. ASSUME NEW o \in Requests, SwapDelete(o) PROVE SwapMove(q)
  <2> DEFINE D == swap[o].targets \cap pending
  <2>1. CASE swap[o].wf.active
    <3>1. /\ swap[o].step = "delete" /\ swap[o].targets \cap LockedBut(o) = {} /\ UNCHANGED pending
          /\ swap' = [swap EXCEPT ![o] = [swap[o] EXCEPT !.step = "scan", !.targets = {}, !.doomed = D]]
      BY <1>0, <1>5, <2>1 DEF SwapDelete
    <3>2. CASE o = q
      <4>1. D = swap[q].targets \cap pending
        BY <3>2
      <4> HIDE DEF D
      <4>2. swap'[q] = [swap[q] EXCEPT !.step = "scan", !.targets = {}, !.doomed = D]
        BY <1>0, <3>1, <3>2
      <4>3. /\ swap'[q].step = "scan" /\ swap'[q].wf = swap[q].wf /\ swap'[q].targets = {}
            /\ swap'[q].doomed = D /\ swap'[q].found = swap[q].found
        BY <1>0, <4>2 DEF SwapT
      <4> QED
        BY <3>1, <3>2, <4>1, <4>3 DEF SwapMove
    <3> QED
      BY <1>0, <3>1, <3>2 DEF SwapMove
  <2>2. CASE ~swap[o].wf.active
    BY <1>2, <1>5, <2>2 DEF SwapDelete
  <2> QED
    BY <2>1, <2>2
<1>6. ASSUME NEW o \in Requests, SwapScan(o) PROVE SwapMove(q)
  <2> DEFINE S == {r \in Scanned \ TestLeads : Ahead(record[r], swap[o].wf.trigger)}
             F == {[rec |-> r, at |-> FireAt(record[r], swap[o].wf.trigger)] : r \in S}
  <2>1. /\ swap[o].step = "scan" /\ UNCHANGED pending
        /\ swap' = [swap EXCEPT ![o] = [swap[o] EXCEPT !.step = "insert", !.found = F]]
    BY <1>0, <1>6 DEF SwapScan, tableVars
  <2>2. S \subseteq Records
    BY DEF Scanned
  <2> HIDE DEF S
  <2>3. \A k \in F : k.rec \in Records
    BY <2>2
  <2> HIDE DEF F
  <2>4. CASE o = q
    <3>1. swap'[q] = [swap[q] EXCEPT !.step = "insert", !.found = F]
      BY <1>0, <2>1, <2>4
    <3>2. /\ swap'[q].step = "insert" /\ swap'[q].wf = swap[q].wf /\ swap'[q].targets = swap[q].targets
          /\ swap'[q].doomed = swap[q].doomed /\ swap'[q].found = F
      BY <1>0, <3>1 DEF SwapT
    <3> QED
      BY <1>6, <2>1, <2>3, <2>4, <3>2 DEF SwapMove
  <2> QED
    BY <1>0, <2>1, <2>4 DEF SwapMove
<1>7. CASE Crash
  BY <1>1, <1>7 DEF Crash, SwapMove
<1>8. ASSUME NEW o \in Requests, SwapInsert(o) \/ SwapFails(o) PROVE SwapMove(q)
  <2>1. swap' = [swap EXCEPT ![o] = NoSwap] /\ (SwapInsert(o) \/ lost')
    BY <1>8 DEF SwapInsert, SwapFails
  <2> QED
    BY <1>2, <2>1
<1> QED
  BY <1>1, <1>3, <1>4, <1>5, <1>6, <1>7, <1>8 DEF Next, ScanStep, ScanBegin, Reconcile, ListDue, NextDue, Fire,
     MarkFired, Rearm, ArmCancel, ArmInsert, ReadForUpdate, ReadForToggle, SaveWorkflow, SoftDelete, CallArm,
     FindDateTimers, CancelDateTimers, RequestStep, SwapStep, WriteStep, WriteRecord,
     ListDateWorkflows, FindRecordTimers, Materialize, Prune, Tick, vars

WriteMove(w) ==
    \/ write'[w] = write[w]
    \/ /\ write'[w] = NoWrite("done")
       /\ \/ ListDateWorkflows(w) /\ ~ActiveDateField(workflow)
          \/ FindRecordTimers(w) /\ write[w].silenced
          \/ Materialize(w) \/ lost'
    \/ /\ write[w].step = "new" /\ write'[w].step = "list" /\ write'[w].rec \in Records
       /\ write'[w].silenced => write'[w].rec \in TestLeads
       /\ write'[w].keys = {} /\ write'[w].targets = {}
    \/ /\ write'[w].rec = write[w].rec /\ write'[w].date = write[w].date
       /\ write'[w].silenced = write[w].silenced /\ UNCHANGED <<now, pending>>
       /\ \/ /\ write[w].step = "list" /\ write'[w].step = "find" /\ write'[w].wf = workflow
             /\ write'[w].keys = write[w].keys /\ write'[w].targets = write[w].targets
          \/ /\ write[w].step = "find" /\ write'[w].step = "apply" /\ write'[w].wf = write[w].wf
             /\ write'[w].keys = KeyAsked(write[w]) /\ write'[w].targets = RecordPending(write[w].rec)

LEMMA WriteMoves ==
    ASSUME TInv, [Next]_vars, NEW w \in Writes
    PROVE  WriteMove(w)
<1>0. write \in [Writes -> WriteT]
  BY TypesOf
<1>1. CASE UNCHANGED write
  BY <1>1 DEF WriteMove
<1>2. ASSUME NEW o \in Writes, write' = [write EXCEPT ![o] = NoWrite("done")],
             \/ ListDateWorkflows(o) /\ ~ActiveDateField(workflow)
             \/ FindRecordTimers(o) /\ write[o].silenced
             \/ Materialize(o) \/ lost'
      PROVE  WriteMove(w)
  BY <1>0, <1>2 DEF WriteMove
<1>3. ASSUME NEW o \in Writes, NEW r \in Records, WriteRecord(o, r) PROVE WriteMove(w)
  <2>1. PICK d \in Dates \cup {NoDate, Deleted}, s \in BOOLEAN :
           /\ s => r \in TestLeads
           /\ write' = [write EXCEPT ![o] = [NoWrite("list") EXCEPT !.rec = r, !.date = d, !.silenced = s]]
    BY <1>3 DEF WriteRecord
  <2>2. CASE w = o
    <3>1. write'[w] = [NoWrite("list") EXCEPT !.rec = r, !.date = d, !.silenced = s]
      BY <1>0, <2>1, <2>2
    <3> QED
      BY <1>3, <2>1, <2>2, <3>1 DEF WriteRecord, WriteMove, NoWrite
  <2>3. CASE w # o
    BY <1>0, <2>1, <2>3 DEF WriteMove
  <2> QED
    BY <2>2, <2>3
<1>4. ASSUME NEW o \in Writes, ListDateWorkflows(o) PROVE WriteMove(w)
  <2>1. CASE write' = [write EXCEPT ![o] = [write[o] EXCEPT !.step = "find", !.wf = workflow]]
    <3>0. write[o].step = "list" /\ UNCHANGED <<now, pending>>
      BY <1>4 DEF ListDateWorkflows, tableVars
    <3>1. CASE o = w
      <4>1. write'[w] = [write[w] EXCEPT !.step = "find", !.wf = workflow]
        BY <1>0, <2>1, <3>1
      <4>2. /\ write'[w].rec = write[w].rec /\ write'[w].date = write[w].date /\ write'[w].silenced = write[w].silenced
            /\ write'[w].step = "find" /\ write'[w].wf = workflow
            /\ write'[w].keys = write[w].keys /\ write'[w].targets = write[w].targets
        BY <1>0, <4>1 DEF WriteT
      <4> QED
        BY <3>0, <3>1, <4>2 DEF WriteMove
    <3> QED
      BY <1>0, <2>1, <3>1 DEF WriteMove
  <2> QED
    BY <1>0, <1>2, <1>4, <2>1 DEF ListDateWorkflows
<1>5. ASSUME NEW o \in Writes, FindRecordTimers(o) PROVE WriteMove(w)
  <2>1. CASE write' = [write EXCEPT ![o] = [write[o] EXCEPT !.step = "apply", !.keys = KeyAsked(write[o]),
                                                            !.targets = RecordPending(write[o].rec)]]
    <3>0. write[o].step = "find" /\ UNCHANGED <<now, pending>>
      BY <1>5 DEF FindRecordTimers, tableVars
    <3>1. CASE o = w
      <4>1. write'[w] = [write[w] EXCEPT !.step = "apply", !.keys = KeyAsked(write[w]),
                                         !.targets = RecordPending(write[w].rec)]
        BY <1>0, <2>1, <3>1
      <4>2. /\ write'[w].rec = write[w].rec /\ write'[w].date = write[w].date /\ write'[w].silenced = write[w].silenced
            /\ write'[w].step = "apply" /\ write'[w].wf = write[w].wf
            /\ write'[w].keys = KeyAsked(write[w]) /\ write'[w].targets = RecordPending(write[w].rec)
        BY <1>0, <4>1 DEF WriteT
      <4> QED
        BY <3>0, <3>1, <4>2 DEF WriteMove
    <3> QED
      BY <1>0, <2>1, <3>1 DEF WriteMove
  <2> QED
    BY <1>0, <1>2, <1>5, <2>1 DEF FindRecordTimers
<1>6. ASSUME NEW o \in Writes, Materialize(o) PROVE WriteMove(w)
  BY <1>2, <1>6 DEF Materialize
<1>7. CASE Crash
  BY <1>1, <1>7 DEF Crash, WriteMove
<1> QED
  BY <1>1, <1>3, <1>4, <1>5, <1>6, <1>7 DEF Next, ScanStep, ScanBegin, Reconcile, ListDue, NextDue, Fire, MarkFired,
     Rearm, ArmCancel, ArmInsert, ReadForUpdate, ReadForToggle, SaveWorkflow, SoftDelete, CallArm, FindDateTimers,
     CancelDateTimers, SpawnRebuild, RequestStep, SwapStep, SwapBegin, SwapDelete, SwapScan, SwapInsert, SwapFails,
     WriteStep, Prune, Tick, vars

-----------------------------------------------------------------------------
(* Rows of each kind are held by those who work on that kind.                *)

LEMMA SortedNext == ASSUME TInv, Sorted, [Next]_vars PROVE Sorted'
<1>0. /\ arm \in [Arming -> Arm] /\ req \in [Requests -> ReqT]
      /\ swap \in [Requests -> SwapT] /\ write \in [Writes -> WriteT]
  BY TypesOf
<1>1. ASSUME NEW p \in Arming PROVE \A i \in arm'[p].targets : i.rec = NoRecord
  <2>1. \A i \in arm[p].targets : i.rec = NoRecord
    BY DEF Sorted
  <2> QED
    BY <2>1, ArmMoves DEF ArmMove, CalledNow, OffArm, SchedulePending
<1>2. ASSUME NEW q \in Requests PROVE \A i \in req'[q].targets : i.rec # NoRecord
  <2>1. \A i \in req[q].targets : i.rec # NoRecord
    BY DEF Sorted
  <2>2. req[q] \in ReqT
    BY <1>0
  <2>3. req'[q].targets \in {req[q].targets, {}, DatePending}
    BY ReqMoves, EmptiesIdle DEF ReqMove
  <2> QED
    BY <2>1, <2>3 DEF DatePending
<1>3. ASSUME NEW q \in Requests
      PROVE  /\ \A i \in swap'[q].targets \cup swap'[q].doomed : i.rec # NoRecord
             /\ \A k \in swap'[q].found : k.rec # NoRecord
  <2>1. /\ \A i \in swap[q].targets \cup swap[q].doomed : i.rec # NoRecord
        /\ \A k \in swap[q].found : k.rec # NoRecord
    BY DEF Sorted
  <2>2. swap[q] \in SwapT /\ NoRecord \notin Records
    BY <1>0, RecordAssumption DEF NoRecord
  <2>3. /\ swap'[q].targets \in {swap[q].targets, {}, DatePending}
        /\ swap'[q].doomed \in {swap[q].doomed, {}, swap[q].targets \cap pending}
        /\ swap'[q].found \in {swap[q].found, {}} \/ \A k \in swap'[q].found : k.rec \in Records
    BY SwapMoves DEF SwapMove, NoSwap
  <2> QED
    BY <2>1, <2>2, <2>3 DEF DatePending
<1>4. ASSUME NEW w \in Writes
      PROVE  /\ \A i \in write'[w].targets : i.rec = write'[w].rec
             /\ \A k \in write'[w].keys : k.rec = write'[w].rec
             /\ write'[w].targets # {} \/ write'[w].keys # {} => write'[w].rec # NoRecord
  <2>1. /\ \A i \in write[w].targets : i.rec = write[w].rec
        /\ \A k \in write[w].keys : k.rec = write[w].rec
        /\ write[w].targets # {} \/ write[w].keys # {} => write[w].rec # NoRecord
    BY DEF Sorted
  <2>2. write[w] \in WriteT /\ NoRecord \notin Records
    BY <1>0, RecordAssumption DEF NoRecord
  <2>3. write[w].step = "find" => write[w].rec \in Records
    BY DEF TInv, LocalInv
  <2>4. \A k \in KeyAsked(write[w]) : k.rec = write[w].rec
    BY DEF KeyAsked
  <2>5. CASE write'[w] = write[w]
    BY <2>1, <2>5
  <2>6. CASE write'[w].targets = {} /\ write'[w].keys = {}
    BY <2>6
  <2>7. CASE write'[w].rec = write[w].rec /\ write'[w].keys = write[w].keys /\ write'[w].targets = write[w].targets
    BY <2>1, <2>7
  <2>8. CASE /\ write[w].step = "find" /\ write'[w].rec = write[w].rec
             /\ write'[w].keys = KeyAsked(write[w]) /\ write'[w].targets = RecordPending(write[w].rec)
    BY <2>2, <2>3, <2>4, <2>8 DEF RecordPending
  <2> QED
    BY <2>5, <2>6, <2>7, <2>8, WriteMoves, EmptiesIdle DEF WriteMove
<1> QED
  BY <1>1, <1>2, <1>3, <1>4 DEF Sorted

LEMMA TimeGoesOn == ASSUME TInv, [Next]_vars PROVE now <= now' /\ now \in Nat /\ now' \in Nat
<1>0. now \in Nat /\ now' \in Nat
  BY TypesOf, TypeNext DEF TInv, TypeOK
<1>1. now <= now'
  <2>1. UNCHANGED now \/ Tick
    BY DEF Next, ScanStep, ScanBegin, Reconcile, ListDue, NextDue, Fire, MarkFired, Rearm, ArmCancel, ArmInsert,
       ReadForUpdate, ReadForToggle, SaveWorkflow, SoftDelete, CallArm, FindDateTimers, CancelDateTimers, SpawnRebuild,
       RequestStep, SwapStep, SwapBegin, SwapDelete, SwapScan, SwapInsert, SwapFails, WriteStep, WriteRecord,
       ListDateWorkflows, FindRecordTimers, Materialize, Prune, Crash, vars
  <2> QED
    BY <1>0, <2>1 DEF Tick
<1> QED
  BY <1>0, <1>1

\* What is fired, or listed to be, has a time that has come.
LEMMA PastNext == ASSUME TInv, Past, [Next]_vars PROVE Past'
<1>0. scan \in ScanT /\ now \in Nat /\ now' \in Nat
  BY TypesOf, TypeNext DEF TInv, TypeOK
<1>1. now <= now'
  BY TimeGoesOn
<1>2. fired' \subseteq fired \cup scan.cur
  BY DEF Next, ScanStep, ScanBegin, Reconcile, ListDue, NextDue, Fire, MarkFired, Rearm, ArmCancel, ArmInsert,
     ReadForUpdate, ReadForToggle, SaveWorkflow, SoftDelete, CallArm, FindDateTimers, CancelDateTimers, SpawnRebuild,
     RequestStep, SwapStep, SwapBegin, SwapDelete, SwapScan, SwapInsert, SwapFails, WriteStep, WriteRecord,
     ListDateWorkflows, FindRecordTimers, Materialize, Prune, Tick, Crash, vars, tableVars
<1>3. scan'.due \cup scan'.cur \subseteq scan.due \cup scan.cur \cup {i \in pending : i.at <= now}
  <2> DEFINE S == scan.due \cup scan.cur \cup {i \in pending : i.at <= now}
  <2>1. CASE ScanBegin \/ scan' = NoScan \/ scan' = [scan EXCEPT !.step = "mark"]
    <3>1. CASE ScanBegin
      BY <1>0, <3>1 DEF ScanBegin, ScanT
    <3> QED
      BY <1>0, <2>1, <3>1 DEF NoScan, ScanT
  <2>2. CASE Reconcile \/ Rearm \/ Fire
    <3>1. scan'.due \in {{}, scan.due} /\ scan'.cur \in {{}, scan.cur}
      BY <1>0, <2>2 DEF Reconcile, Rearm, Fire, NoScan, ScanT
    <3> QED
      BY <3>1
  <2>5. CASE ListDue
    <3> DEFINE D == {i \in pending : i.at <= now}
    <3>1. scan' = NoScan \/ scan' = [NoScan EXCEPT !.step = "next", !.due = D]
      BY <2>5 DEF ListDue
    <3>2. D \subseteq S
      OBVIOUS
    <3> HIDE DEF D
    <3>3. scan' \in {NoScan, [step |-> "next", wf |-> NoWorkflow, due |-> D, cur |-> {}]}
      BY <3>1 DEF NoScan
    <3>4. scan'.due \in {{}, D} /\ scan'.cur = {}
      BY <3>3, EmptiesIdle
    <3> QED
      BY <3>2, <3>4
  <2>3. CASE NextDue
    BY <2>3 DEF NextDue, NoScan
  <2>4. CASE MarkFired
    <3>1. scan' \in {[scan EXCEPT !.step = "rearm", !.cur = {}], [NoScan EXCEPT !.step = "next", !.due = scan.due]}
      BY <2>4 DEF MarkFired
    <3> QED
      BY <1>0, <3>1 DEF NoScan, ScanT
  <2>7. CASE UNCHANGED scan
    BY <2>7
  <2> QED
    BY <2>1, <2>2, <2>3, <2>4, <2>5, <2>7 DEF Next, ScanStep, Crash, ArmCancel, ArmInsert,
     ReadForUpdate, ReadForToggle, SaveWorkflow, SoftDelete, CallArm, FindDateTimers, CancelDateTimers, SpawnRebuild,
     RequestStep, SwapStep, SwapBegin, SwapDelete, SwapScan, SwapInsert, SwapFails, WriteStep, WriteRecord,
     ListDateWorkflows, FindRecordTimers, Materialize, Prune, Tick, vars
<1>4. \A i \in fired' \cup scan'.due \cup scan'.cur : i.at \in Nat /\ i.at <= now
  <2>1. fired \subseteq Row /\ pending \subseteq Row /\ scan.due \subseteq Row /\ scan.cur \subseteq Row
    BY <1>0, TypesOf DEF ScanT
  <2> QED
    BY <1>2, <1>3, <2>1 DEF Past, Row
<1> QED
  BY <1>0, <1>1, <1>4 DEF Past

\* Who has an arming under way waits for it.
LEMMA OwnedNext == ASSUME TInv, Owned, [Next]_vars PROVE Owned'
<1>0. /\ arm \in [Arming -> Arm] /\ req \in [Requests -> ReqT] /\ scan \in ScanT
      /\ Scanner \in Arming /\ Requests \subseteq Arming /\ Scanner \notin Requests
  BY TypesOf, TimerBoundAssumption DEF Arming
<1>1. ASSUME NEW q \in Requests, arm'[q].step # "off" PROVE req'[q].step = "arming"
  <2>1. arm[q].step # "off" => req[q].step = "arming"
    BY DEF Owned
  <2>2. req[q] \in ReqT /\ OffArm.step = "off"
    BY <1>0 DEF OffArm
  <2>3. ArmMove(q) /\ ReqMove(q) /\ q # Scanner
    BY <1>0, ArmMoves, ReqMoves
  <2>4. CASE CalledNow(q)
    BY <2>3, <2>4 DEF CalledNow
  <2>5. CASE arm[q].step # "off"
    BY <1>1, <2>1, <2>2, <2>3, <2>5 DEF ReqMove, ReqT
  <2> QED
    BY <1>1, <2>2, <2>3, <2>4, <2>5 DEF ArmMove
<1>2. ASSUME arm'[Scanner].step # "off" PROVE scan'.step \in {"healing", "rearming"}
  <2>1. arm[Scanner].step # "off" => scan.step \in {"healing", "rearming"}
    BY DEF Owned
  <2>2. CASE CalledNow(Scanner)
    BY <1>0, <2>2 DEF CalledNow
  <2>3. CASE arm[Scanner].step # "off"
    <3>1. scan' = scan \/ Crash
      BY <2>1, <2>3 DEF Next, ScanStep, ScanBegin, Reconcile, ListDue, NextDue, Fire, MarkFired, Rearm, ArmCancel,
         ArmInsert, ReadForUpdate, ReadForToggle, SaveWorkflow, SoftDelete, CallArm, FindDateTimers, CancelDateTimers,
         SpawnRebuild, RequestStep, SwapStep, SwapBegin, SwapDelete, SwapScan, SwapInsert, SwapFails, WriteStep,
         WriteRecord, ListDateWorkflows, FindRecordTimers, Materialize, Prune, Tick, vars
    <3>2. Crash => arm'[Scanner] = OffArm
      BY <1>0 DEF Crash
    <3> QED
      BY <1>2, <2>1, <2>3, <3>1, <3>2 DEF OffArm
  <2> QED
    BY <1>0, <1>2, <2>2, <2>3, ArmMoves DEF ArmMove, OffArm
<1> QED
  BY <1>1, <1>2 DEF Owned

\* The scan fires for an active workflow, and an active schedule is inserted.
LEMMA ReadyNext == ASSUME TInv, Ready, [Next]_vars PROVE Ready'
<1>0. arm \in [Arming -> Arm] /\ scan \in ScanT
  BY TypesOf
<1>1. ASSUME NEW p \in Arming, arm'[p].step = "insert" PROVE ActiveSchedule(arm'[p].wf)
  BY <1>1, ArmMoves, EmptiesIdle DEF Ready, ArmMove, CalledNow
<1>2. ASSUME scan'.step = "fire" PROVE scan'.wf.active
  <2>1. NextDue \/ UNCHANGED scan
    BY <1>2, ScanMoves DEF Next, ScanStep, ArmCancel, ArmInsert, ReadForUpdate, ReadForToggle,
       SaveWorkflow, SoftDelete, CallArm, FindDateTimers, CancelDateTimers, SpawnRebuild, RequestStep, SwapStep,
       SwapBegin, SwapDelete, SwapScan, SwapInsert, SwapFails, WriteStep, WriteRecord, ListDateWorkflows,
       FindRecordTimers, Materialize, Prune, Tick, vars
  <2> QED
    BY <1>2, <2>1, ScanMoves DEF Ready
<1> QED
  BY <1>1, <1>2 DEF Ready

-----------------------------------------------------------------------------
(* ScheduleInv, step by step.                                                *)

\* Rows of another kind, or fewer of them, keep nobody from being useful.
LEMMA UsefulStays ==
    ASSUME NEW p \in Arming, Useful(p), UNCHANGED workflow,
           arm'[p].step # "off" /\ arm'[p].wf = arm[p].wf /\ arm'[p].now = arm[p].now,
           \A i \in fired' \cup Consuming' : i.rec = NoRecord => i \in fired \cup Consuming
    PROVE  Useful(p)'
  BY DEF Useful, ArmKey, KeyOf

\* A step that arms nothing and takes no occurrence that is not consumed already.
Quiet ==
    /\ UNCHANGED <<workflow, arm>> /\ (lost => lost')
    /\ \A i \in SchedulePending' : i \in SchedulePending
    /\ scan.step = "rearm" => scan'.step = "rearm"
    /\ \A q \in Requests : req[q].step = "arm" => req'[q].step = "arm"
    /\ ActiveSchedule(workflow) =>
          /\ \A i \in SchedulePending : i \notin Consuming => i \in SchedulePending' /\ i \notin Consuming'
          /\ \A i \in fired' \cup Consuming' : i.rec = NoRecord => i \in fired \cup Consuming

LEMMA QuietKeeps == ASSUME TInv, Sorted, ScheduleInv, Quiet PROVE ScheduleInv'
<1> SUFFICES ASSUME ~lost' PROVE NoStray' /\ (ActiveSchedule(workflow)' => Covered' /\ LateHarmless')
  BY DEF ScheduleInv
<1>0. ~lost /\ NoStray /\ (ActiveSchedule(workflow) => Covered /\ LateHarmless)
  BY DEF Quiet, ScheduleInv
<1>1. NoStray'
  BY <1>0 DEF NoStray, Quiet, ActiveSchedule
<1>2. WillArm => WillArm'
  BY DEF WillArm, Quiet
<1>3. ASSUME ActiveSchedule(workflow), NEW p \in Arming, Useful(p) PROVE Useful(p)'
  <2>1. arm[p].step # "off"
    BY <1>3 DEF Useful
  <2> QED
    BY <1>3, <2>1, UsefulStays DEF Quiet
<1>4. ActiveSchedule(workflow) => Covered'
  BY <1>0, <1>2, <1>3 DEF Covered, Quiet
<1>5. ASSUME ActiveSchedule(workflow), NEW p \in Arming, arm'[p].step = "cancel", ~Useful(p)',
             NEW i \in arm'[p].targets \cap pending'
      PROVE  WillArm' \/ \E o \in Arming : arm'[o].step = "cancel" /\ Useful(o)' /\ i \in arm'[o].targets
  <2>1. i \in arm[p].targets /\ arm[p].step = "cancel" /\ ~Useful(p)
    BY <1>3, <1>5 DEF Quiet
  <2>2. i \in pending
    BY <1>5, <2>1 DEF Quiet, Sorted, SchedulePending
  <2>3. WillArm \/ \E o \in Arming : arm[o].step = "cancel" /\ Useful(o) /\ i \in arm[o].targets
    BY <1>0, <1>5, <2>1, <2>2 DEF LateHarmless
  <2> QED
    BY <1>2, <1>3, <1>5, <2>3 DEF Quiet
<1>6. ActiveSchedule(workflow) => LateHarmless'
  BY <1>5 DEF LateHarmless
<1> QED
  BY <1>1, <1>4, <1>6 DEF Quiet, ActiveSchedule

\* Who calls ArmScheduleTimer computes an occurrence that lies ahead, and finds
\* every row there is.
LEMMA CallKeeps ==
    ASSUME TInv, Sorted, Past, ScheduleInv, NEW p \in Arming, CalledNow(p),
           \A o \in Arming \ {p} : arm'[o] = arm[o], \A i \in Consuming' : i \in Consuming
    PROVE  ScheduleInv'
<1> SUFFICES ASSUME ~lost' PROVE NoStray' /\ (ActiveSchedule(workflow)' => Covered' /\ LateHarmless')
  BY DEF ScheduleInv
<1>0. /\ arm'[p].step = "cancel" /\ arm'[p].now = now /\ arm'[p].targets = SchedulePending
      /\ UNCHANGED <<now, workflow, pending, fired>>
  BY DEF CalledNow, tableVars
<1>1. NoStray'
  BY <1>0 DEF NoStray, SchedulePending
<1>2. ASSUME ActiveSchedule(workflow) PROVE Useful(p)'
  <2>1. SUFFICES ASSUME arm'[p].wf = workflow, NEW i \in fired \cup Consuming PROVE KeyOf(i) # ArmKey(p)'
    BY <1>0 DEF Useful
  <2>2. i.at <= now /\ i.at \in Nat /\ now \in 0..MaxTime /\ MaxTime \in Nat
    <3>1. i \in fired \cup scan.cur
      BY DEF Consuming
    <3>2. fired \subseteq Row /\ scan.cur \subseteq Row
      BY TypesOf DEF ScanT
    <3> QED
      BY <3>1, <3>2, TypesOf, TimerBoundAssumption DEF Past, Row
  <2>3. NextFire(workflow.trigger, now) > now /\ NextFire(workflow.trigger, now) \in Nat
    BY <1>2, <2>2, NextFireIs DEF ActiveSchedule
  <2>4. ArmKey(p)' = [rec |-> NoRecord, at |-> NextFire(workflow.trigger, now)]
    BY <1>0, <2>1 DEF ArmKey
  <2>5. NextFire(workflow.trigger, now) # i.at
    BY <2>2, <2>3
  <2> QED
    BY <2>4, <2>5 DEF KeyOf
<1>3. ActiveSchedule(workflow) => Covered'
  BY <1>2 DEF Covered
<1>4. ASSUME ActiveSchedule(workflow), NEW o \in Arming, arm'[o].step = "cancel", ~Useful(o)',
             NEW i \in arm'[o].targets \cap pending'
      PROVE  i \in arm'[p].targets
  <2>1. o # p
    BY <1>2, <1>4
  <2> QED
    BY <1>0, <1>4, <2>1 DEF Sorted, SchedulePending
<1>5. ActiveSchedule(workflow) => LateHarmless'
  BY <1>0, <1>2, <1>4 DEF LateHarmless
<1> QED
  BY <1>0, <1>1, <1>3, <1>5 DEF ActiveSchedule

\* A request that saves the workflow will arm it.
LEMMA SaveKeeps ==
    ASSUME NEW q \in Requests, req'[q].step = "arm"
    PROVE  ScheduleInv'
  BY DEF ScheduleInv, NoStray, Covered, LateHarmless, WillArm

\* The cancel of ArmScheduleTimer leaves every row that somebody else stands for.
LEMMA CancelKeeps ==
    ASSUME TInv, Sorted, ScheduleInv, NEW p \in Arming, ArmCancel(p)
    PROVE  ScheduleInv'
<1> SUFFICES ASSUME ~lost' PROVE NoStray' /\ (ActiveSchedule(workflow)' => Covered' /\ LateHarmless')
  BY DEF ScheduleInv
<1>0. arm \in [Arming -> Arm] /\ lost \in BOOLEAN
  BY TypesOf
<1>1. /\ arm[p].step = "cancel" /\ pending' = pending \ arm[p].targets
      /\ ~lost /\ arm[p].wf = workflow /\ UNCHANGED <<now, workflow, fired, scan, req>>
      /\ arm' = [arm EXCEPT ![p] = IF ActiveSchedule(arm[p].wf)
                                   THEN [arm[p] EXCEPT !.step = "insert", !.targets = {}]
                                   ELSE OffArm]
  BY <1>0 DEF ArmCancel, For
<1>2. NoStray /\ (ActiveSchedule(workflow) => Covered /\ LateHarmless)
  BY <1>1 DEF ScheduleInv
<1>3. \A o \in Arming \ {p} : arm'[o] = arm[o]
  BY <1>0, <1>1
<1>4. arm'[p].step # "cancel"
  BY <1>0, <1>1, EmptiesIdle DEF Arm
<1>5. NoStray'
  BY <1>1, <1>2, <1>3 DEF NoStray, SchedulePending, ActiveSchedule
<1> SUFFICES ASSUME ActiveSchedule(workflow) PROVE Covered' /\ LateHarmless'
  BY <1>1, <1>5 DEF ActiveSchedule
<1>6. Consuming' = Consuming
  BY <1>1 DEF Consuming
<1>7. WillArm => WillArm'
  BY <1>1 DEF WillArm
<1>8. arm'[p].step = "insert" /\ arm'[p].wf = arm[p].wf /\ arm'[p].now = arm[p].now
  BY <1>0, <1>1 DEF Arm
<1>9. \A o \in Arming : Useful(o) => Useful(o)'
  <2> SUFFICES ASSUME NEW o \in Arming, Useful(o) PROVE Useful(o)'
    OBVIOUS
  <2>1. arm'[o].step # "off" /\ arm'[o].wf = arm[o].wf /\ arm'[o].now = arm[o].now
    BY <1>3, <1>8 DEF Useful
  <2> QED
    BY <1>1, <1>6, <2>1, UsefulStays
<1>10. Covered'
  <2>1. CASE \E i \in SchedulePending : i \notin Consuming
    <3>1. PICK i \in SchedulePending : i \notin Consuming
      BY <2>1
    <3>2. CASE i \notin arm[p].targets
      BY <1>1, <1>6, <3>1, <3>2 DEF Covered, SchedulePending
    <3>3. CASE Useful(p)
      BY <1>9, <3>3 DEF Covered
    <3>4. CASE i \in arm[p].targets /\ ~Useful(p)
      BY <1>1, <1>2, <1>7, <1>9, <3>1, <3>4 DEF LateHarmless, Covered, SchedulePending
    <3> QED
      BY <3>2, <3>3, <3>4
  <2> QED
    BY <1>2, <1>7, <1>9, <2>1 DEF Covered
<1>11. LateHarmless'
  <2> SUFFICES ASSUME NEW o \in Arming, arm'[o].step = "cancel", ~Useful(o)', NEW i \in arm'[o].targets \cap pending'
               PROVE  WillArm' \/ \E u \in Arming : arm'[u].step = "cancel" /\ Useful(u)' /\ i \in arm'[u].targets
    BY DEF LateHarmless
  <2>1. o # p /\ arm'[o] = arm[o] /\ ~Useful(o) /\ i \in pending /\ i \notin arm[p].targets
    BY <1>1, <1>3, <1>4, <1>9
  <2>2. WillArm \/ \E u \in Arming : arm[u].step = "cancel" /\ Useful(u) /\ i \in arm[u].targets
    BY <1>2, <2>1 DEF LateHarmless
  <2> QED
    BY <1>3, <1>7, <1>9, <2>1, <2>2
<1> QED
  BY <1>10, <1>11

\* Its insert finds the key free, or somebody else stands for the schedule.
LEMMA InsertKeeps ==
    ASSUME TInv, Sorted, Ready, ScheduleInv, NEW p \in Arming, ArmInsert(p)
    PROVE  ScheduleInv'
<1> SUFFICES ASSUME ~lost' PROVE NoStray' /\ (ActiveSchedule(workflow)' => Covered' /\ LateHarmless')
  BY DEF ScheduleInv
<1>0. arm \in [Arming -> Arm] /\ lost \in BOOLEAN /\ IsFiniteSet(Held)
  BY TypesOf
<1>1. /\ arm[p].step = "insert" /\ pending' = Upsert(pending, {ArmKey(p)})
      /\ ~lost /\ arm[p].wf = workflow /\ UNCHANGED <<now, workflow, fired, scan, req>>
      /\ arm' = [arm EXCEPT ![p] = OffArm]
  BY <1>0 DEF ArmInsert, For, ArmKey
<1>2. NoStray /\ (ActiveSchedule(workflow) => Covered /\ LateHarmless)
  BY <1>1 DEF ScheduleInv
<1>3. (\A o \in Arming \ {p} : arm'[o] = arm[o]) /\ arm'[p].step = "off"
  BY <1>0, <1>1, EmptiesIdle
<1>4. /\ ActiveSchedule(workflow) /\ ArmKey(p).rec = NoRecord
      /\ ArmKey(p).at \in Occurs[workflow.trigger] /\ ArmKey(p) \in Key
  <2>1. ActiveSchedule(workflow) /\ arm[p].now \in 0..MaxTime
    BY <1>1 DEF Ready, TInv, LocalInv, Arming
  <2>2. NextFire(workflow.trigger, arm[p].now) \in Occurs[workflow.trigger] \cap Nat
    BY <2>1, NextFireIs DEF ActiveSchedule
  <2> QED
    BY <1>1, <2>1, <2>2 DEF ArmKey, Key
<1>5. /\ pending \subseteq pending'
      /\ \A i \in pending' \ pending : i \notin Held /\ KeyOf(i) = ArmKey(p)
      /\ (\A j \in fired : KeyOf(j) # ArmKey(p)) => \E i \in pending' : KeyOf(i) = ArmKey(p)
  BY <1>0, <1>1, <1>4, UpsertBrings
<1>6. Consuming' = Consuming
  BY <1>1 DEF Consuming
<1>7. WillArm => WillArm'
  BY <1>1 DEF WillArm
<1>8. \A o \in Arming \ {p} : Useful(o) => Useful(o)'
  <2> SUFFICES ASSUME NEW o \in Arming \ {p}, Useful(o) PROVE Useful(o)'
    OBVIOUS
  <2>1. arm'[o].step # "off" /\ arm'[o].wf = arm[o].wf /\ arm'[o].now = arm[o].now
    BY <1>3 DEF Useful
  <2> QED
    BY <1>1, <1>6, <2>1, UsefulStays
<1>9. NoStray'
  <2> SUFFICES ASSUME NEW i \in SchedulePending'
               PROVE  \/ ActiveSchedule(workflow)' /\ i.at \in Occurs[workflow'.trigger]
                      \/ \E q \in Requests : req'[q].step = "arm"
                      \/ \E o \in Arming : arm'[o].step = "cancel" /\ i \in arm'[o].targets
    BY DEF NoStray
  <2>1. CASE i \in pending
    BY <1>1, <1>2, <1>3, <2>1 DEF NoStray, SchedulePending, ActiveSchedule
  <2>2. CASE i \notin pending
    <3>1. i \in pending' \ pending /\ KeyOf(i).at = i.at
      BY <2>2 DEF SchedulePending, KeyOf
    <3>2. i.at \in Occurs[workflow.trigger]
      BY <1>4, <1>5, <3>1
    <3> QED
      BY <1>1, <1>4, <3>2 DEF ActiveSchedule
  <2> QED
    BY <2>1, <2>2
<1>10. Covered'
  <2>1. CASE Useful(p)
    <3>1. \A j \in fired \cup Consuming : KeyOf(j) # ArmKey(p)
      BY <1>1, <2>1 DEF Useful
    <3>2. PICK i \in pending' : KeyOf(i) = ArmKey(p)
      BY <1>5, <3>1
    <3>3. i \notin Consuming' /\ i.rec = NoRecord
      BY <1>4, <1>6, <3>1, <3>2 DEF KeyOf
    <3> QED
      BY <3>2, <3>3 DEF Covered, SchedulePending
  <2>2. CASE ~Useful(p)
    BY <1>2, <1>4, <1>5, <1>6, <1>7, <1>8, <2>2 DEF Covered, SchedulePending
  <2> QED
    BY <2>1, <2>2
<1>11. LateHarmless'
  <2> SUFFICES ASSUME NEW o \in Arming, arm'[o].step = "cancel", ~Useful(o)', NEW i \in arm'[o].targets \cap pending'
               PROVE  WillArm' \/ \E u \in Arming : arm'[u].step = "cancel" /\ Useful(u)' /\ i \in arm'[u].targets
    BY DEF LateHarmless
  <2>1. o # p /\ arm'[o] = arm[o] /\ ~Useful(o)
    BY <1>3, <1>8
  <2>2. i \in pending
    <3>1. i \in Held
      BY <1>0, <2>1 DEF Held
    <3> QED
      BY <1>5, <3>1
  <2>3. WillArm \/ \E u \in Arming : arm[u].step = "cancel" /\ Useful(u) /\ i \in arm[u].targets
    BY <1>2, <1>4, <2>1, <2>2 DEF LateHarmless
  <2> QED
    BY <1>1, <1>3, <1>7, <1>8, <2>1, <2>3
<1> QED
  BY <1>9, <1>10, <1>11

\* What works on dates touches no occurrence.
LEMMA DatesApart ==
    ASSUME TInv, Sorted, NEW gone, \A i \in gone : i.rec # NoRecord,
           NEW keys \in SUBSET Key, \A k \in keys : k.rec # NoRecord,
           pending' = pending \ gone \/ pending' = Upsert(pending \ gone, keys)
    PROVE  SchedulePending' = SchedulePending
<1>1. \A i \in Upsert(pending \ gone, keys) : i \in pending \ gone \/ KeyOf(i) \in keys
  BY TypesOf, UpsertBrings
<1>2. pending \ gone \subseteq Upsert(pending \ gone, keys)
  BY TypesOf, UpsertBrings
<1>3. \A i : KeyOf(i).rec = i.rec
  BY DEF KeyOf
<1>4. \A i \in pending' : i \in pending \/ i.rec # NoRecord
  BY <1>1, <1>3
<1>5. \A i \in pending : i \in pending' \/ i.rec # NoRecord
  BY <1>2
<1> QED
  BY <1>4, <1>5 DEF SchedulePending

LEMMA ScheduleNext ==
    ASSUME TInv, Sorted, Past, Ready, ScheduleInv, [Next]_vars
    PROVE  ScheduleInv'
<1>0. /\ arm \in [Arming -> Arm] /\ req \in [Requests -> ReqT] /\ scan \in ScanT /\ lost \in BOOLEAN
      /\ Requests \subseteq Arming /\ Scanner \in Arming
  BY TypesOf DEF Arming
<1>f. ASSUME lost' = TRUE PROVE ScheduleInv'
  BY <1>f DEF ScheduleInv
\* A step that leaves the scan and the occurrences alone.
<1>q. ASSUME UNCHANGED <<workflow, arm, scan>>, fired' \subseteq fired, lost => lost', SchedulePending' = SchedulePending,
             \A q \in Requests : req[q].step = "arm" => req'[q].step = "arm"
      PROVE  ScheduleInv'
  <2>1. Quiet
    BY <1>q DEF Quiet, Consuming
  <2> QED
    BY <2>1, QuietKeeps
\* The scan.
<1>s. ASSUME UNCHANGED <<workflow, tableVars, req, arm>>, lost => lost', scan.step # "rearm",
             ActiveSchedule(workflow) => \A i \in Consuming' : i \in Consuming
      PROVE  ScheduleInv'
  <2>1. Quiet
    BY <1>s DEF Quiet, SchedulePending, tableVars
  <2> QED
    BY <2>1, QuietKeeps
<1>1. CASE ScanBegin \/ ListDue
  <2>1. Consuming' = {}
    BY <1>1, ScanMoves DEF Consuming
  <2>2. scan.step # "rearm"
    BY <1>1, ScanMoves DEF ScanBegin
  <2>3. UNCHANGED <<workflow, tableVars, req, arm, lost>>
    BY <1>1 DEF ScanBegin, ListDue
  <2> QED
    BY <1>s, <2>1, <2>2, <2>3
<1>2. CASE Reconcile
  <2>1. Consuming' = {} /\ scan.step = "reconcile"
    BY <1>2, ScanMoves DEF Consuming
  <2>2. UNCHANGED <<now, workflow, tableVars, req, lost>>
    BY <1>2 DEF Reconcile
  <2>3. CASE UNCHANGED arm
    BY <1>s, <2>1, <2>2, <2>3
  <2>4. CASE ArmCalled(Scanner, scan.wf) /\ scan' = [NoScan EXCEPT !.step = "healing"]
    <3>1. \A o \in Arming \ {Scanner} : arm'[o] = arm[o]
      BY <1>0, <2>4 DEF ArmCalled
    <3>2. arm'[Scanner] = [step |-> "cancel", wf |-> scan.wf, now |-> now, targets |-> SchedulePending]
      BY <1>0, <2>4 DEF ArmCalled
    <3>3. scan'.step = "healing"
      BY <2>4 DEF NoScan
    <3>4. CalledNow(Scanner)
      BY <2>1, <2>2, <3>2, <3>3 DEF CalledNow
    <3> QED
      BY <1>0, <2>1, <3>1, <3>4, CallKeeps
  <2> QED
    BY <1>2, <2>3, <2>4 DEF Reconcile
<1>3. CASE NextDue
  <2>1. ActiveSchedule(workflow) /\ ~lost' => Consuming' = {}
    BY <1>3, ScanMoves DEF Consuming, ActiveSchedule
  <2>2. scan.step # "rearm" /\ UNCHANGED <<workflow, tableVars, req, arm>> /\ (lost => lost')
    BY <1>3, ScanMoves DEF NextDue
  <2>3. CASE ~lost'
    BY <1>s, <2>1, <2>2, <2>3
  <2> QED
    BY <2>3 DEF ScheduleInv
<1>4. CASE Fire
  <2>1. Consuming' = {} /\ scan.step # "rearm"
    BY <1>4, ScanMoves DEF Consuming, Ready
  <2>2. CASE UNCHANGED tableVars
    BY <1>4, <1>s, <2>1, <2>2 DEF Fire
  <2> QED
    <3>1. Quiet
      BY <1>4, <2>1 DEF Fire, Quiet, SchedulePending
    <3> QED
      BY <3>1, QuietKeeps
<1>5. CASE MarkFired
  <2>1. scan.step = "mark" /\ UNCHANGED <<workflow, req, arm, lost>> /\ Consuming' = {}
    BY <1>5, ScanMoves DEF MarkFired, Consuming
  <2>2. CASE UNCHANGED <<pending, fired>>
    <3>1. Quiet
      BY <2>1, <2>2 DEF Quiet, SchedulePending
    <3> QED
      BY <3>1, QuietKeeps
  <2>3. CASE /\ fired' = fired \cup (scan.cur \cap pending) /\ pending' = pending \ scan.cur
             /\ ~(scan.wf.active /\ \E i \in scan.cur : i.rec = NoRecord)
    <3>1. \A i \in scan.cur : i.rec = NoRecord => i \in Consuming
      BY <2>1, <2>3 DEF Consuming
    <3>2. Quiet
      BY <2>1, <2>3, <3>1 DEF Quiet, SchedulePending
    <3> QED
      BY <3>2, QuietKeeps
  <2>4. CASE pending' = pending \ scan.cur /\ scan' = [scan EXCEPT !.step = "rearm", !.cur = {}]
    <3>1. scan'.step = "rearm"
      BY <1>0, <2>4 DEF ScanT
    <3>2. ~lost' => NoStray'
      BY <2>1, <2>4 DEF ScheduleInv, NoStray, SchedulePending, ActiveSchedule
    <3> QED
      BY <3>1, <3>2 DEF ScheduleInv, Covered, LateHarmless, WillArm
  <2> QED
    BY <1>5, <2>2, <2>3, <2>4 DEF MarkFired
<1>6. CASE Rearm
  <2>1. Consuming' = {} /\ scan.step = "rearm" /\ scan'.step = "rearming"
    BY <1>6, ScanMoves DEF Consuming
  <2>2. UNCHANGED <<now, workflow, tableVars, req, lost>> /\ ArmCalled(Scanner, scan.wf)
    BY <1>6 DEF Rearm
  <2>3. \A o \in Arming \ {Scanner} : arm'[o] = arm[o]
    BY <1>0, <2>2 DEF ArmCalled
  <2>4. arm'[Scanner] = [step |-> "cancel", wf |-> scan.wf, now |-> now, targets |-> SchedulePending]
    BY <1>0, <2>2 DEF ArmCalled
  <2>5. CalledNow(Scanner)
    BY <2>1, <2>2, <2>4 DEF CalledNow
  <2> QED
    BY <1>0, <2>1, <2>3, <2>5, CallKeeps
<1>7. ASSUME NEW p \in Arming, ArmCancel(p) \/ ArmInsert(p) PROVE ScheduleInv'
  BY <1>7, CancelKeeps, InsertKeeps
\* The requests.
<1>r. ASSUME NEW q \in Requests, NEW x, req' = [req EXCEPT ![q] = x], req[q].step # "arm",
             UNCHANGED <<workflow, arm, scan, fired>>, lost => lost', SchedulePending' = SchedulePending
      PROVE  ScheduleInv'
  <2>1. \A o \in Requests : req[o].step = "arm" => req'[o].step = "arm"
    BY <1>0, <1>r
  <2> QED
    BY <1>q, <1>r, <2>1
<1>8. ASSUME NEW q \in Requests, ReadForUpdate(q) \/ ReadForToggle(q) PROVE ScheduleInv'
  <2>1. UNCHANGED <<workflow, tableVars, arm, scan, lost>> /\ req[q].step = "new"
    BY <1>8 DEF ReadForUpdate, ReadForToggle
  <2>2. \E x : req' = [req EXCEPT ![q] = x]
    BY <1>8 DEF ReadForUpdate, ReadForToggle
  <2> QED
    BY <1>r, <2>1, <2>2 DEF SchedulePending, tableVars
<1>9. ASSUME NEW q \in Requests, SaveWorkflow(q) \/ SoftDelete(q) PROVE ScheduleInv'
  <2>1. CASE SaveWorkflow(q)
    <3>1. CASE req' = [req EXCEPT ![q].step = "arm"]
      <4>1. req'[q].step = "arm"
        BY <1>0, <3>1 DEF ReqT
      <4> QED
        BY <4>1, SaveKeeps
    <3>2. CASE UNCHANGED <<workflow, lost>> /\ req' = [req EXCEPT ![q] = Outside("done")]
      <4>1. UNCHANGED <<workflow, pending, fired, arm, scan, lost>> /\ req[q].step # "arm"
        BY <2>1, <3>2 DEF SaveWorkflow, tableVars
      <4>2. SchedulePending' = SchedulePending
        BY <4>1 DEF SchedulePending
      <4>3. lost => lost'
        BY <4>1
      <4>4. req' = [req EXCEPT ![q] = Outside("done")]
        BY <3>2
      <4> QED
        BY <1>r, <4>1, <4>2, <4>3, <4>4
    <3> QED
      BY <2>1, <3>1, <3>2 DEF SaveWorkflow
  <2>2. CASE SoftDelete(q)
    <3>1. req' = [req EXCEPT ![q] = [Outside("arm") EXCEPT !.op = "delete", !.wf = workflow']]
      BY <2>2 DEF SoftDelete
    <3>2. req'[q].step = "arm"
      BY <1>0, <3>1 DEF Outside
    <3> QED
      BY <3>2, SaveKeeps
  <2> QED
    BY <1>9, <2>1, <2>2
<1>10. ASSUME NEW q \in Requests, CallArm(q) PROVE ScheduleInv'
  <2>1. /\ UNCHANGED <<now, workflow, tableVars, scan, lost>> /\ ArmCalled(q, req[q].wf)
        /\ req[q].step = "arm" /\ req' = [req EXCEPT ![q].step = "arming"]
    BY <1>10 DEF CallArm
  <2>2. \A o \in Arming \ {q} : arm'[o] = arm[o]
    BY <1>0, <2>1 DEF ArmCalled
  <2>3. arm'[q] = [step |-> "cancel", wf |-> req[q].wf, now |-> now, targets |-> SchedulePending]
    BY <1>0, <2>1 DEF ArmCalled
  <2>4. req'[q].step = "arming"
    BY <1>0, <2>1 DEF ReqT
  <2>5. CalledNow(q)
    BY <2>1, <2>3, <2>4 DEF CalledNow
  <2>6. Consuming' = Consuming
    BY <2>1 DEF Consuming
  <2> QED
    BY <1>0, <2>2, <2>5, <2>6, CallKeeps
<1>11. ASSUME NEW q \in Requests, FindDateTimers(q) \/ SpawnRebuild(q) PROVE ScheduleInv'
  <2>1. UNCHANGED <<workflow, tableVars, arm, scan, lost>> /\ req[q].step # "arm"
    BY <1>11 DEF FindDateTimers, SpawnRebuild
  <2>2. \E x : req' = [req EXCEPT ![q] = x]
    BY <1>11 DEF FindDateTimers, SpawnRebuild
  <2> QED
    BY <1>r, <2>1, <2>2 DEF SchedulePending, tableVars
<1>12. ASSUME NEW q \in Requests, CancelDateTimers(q) PROVE ScheduleInv'
  <2>1. CASE pending' = pending \ req[q].targets /\ For(req[q].wf)
    <3>1. \A i \in req[q].targets : i.rec # NoRecord
      BY DEF Sorted
    <3>2. SchedulePending' = SchedulePending
      BY <2>1, <3>1, DatesApart DEF SchedulePending
    <3>3. /\ UNCHANGED <<workflow, arm, scan, fired>> /\ req[q].step # "arm"
          /\ req' = [req EXCEPT ![q] = [req[q] EXCEPT !.step = "spawn", !.targets = {}]] /\ (lost => lost')
      BY <1>0, <1>12, <2>1 DEF CancelDateTimers, For
    <3> QED
      BY <1>r, <3>2, <3>3
  <2> QED
    BY <1>12, <1>f, <2>1 DEF CancelDateTimers
\* The rebuilds.
<1>13. ASSUME NEW q \in Requests, SwapBegin(q) \/ SwapScan(q) PROVE ScheduleInv'
  <2>1. UNCHANGED <<workflow, tableVars, arm, scan, req, lost>>
    BY <1>13 DEF SwapBegin, SwapScan
  <2> QED
    BY <1>q, <2>1 DEF SchedulePending, tableVars
<1>14. ASSUME NEW q \in Requests, SwapDelete(q) PROVE ScheduleInv'
  <2>1. /\ UNCHANGED <<workflow, arm, scan, req, fired>> /\ (lost => lost')
        /\ UNCHANGED pending \/ pending' = pending \ swap[q].targets
    BY <1>14 DEF SwapDelete, For
  <2>2. \A i \in swap[q].targets : i.rec # NoRecord
    BY DEF Sorted
  <2>3. SchedulePending' = SchedulePending
    BY <2>1, <2>2, DatesApart DEF SchedulePending
  <2> QED
    BY <1>q, <2>1, <2>3
<1>15. ASSUME NEW q \in Requests, SwapInsert(q) PROVE ScheduleInv'
  <2>1. /\ UNCHANGED <<workflow, arm, scan, req, fired>> /\ (lost => lost')
        /\ pending' = Upsert(pending \ swap[q].doomed, swap[q].found)
    BY <1>15 DEF SwapInsert, For
  <2>2. (\A i \in swap[q].doomed : i.rec # NoRecord) /\ \A k \in swap[q].found : k.rec # NoRecord
    BY DEF Sorted
  <2>3. swap[q].found \in SUBSET Key
    BY TypesOf DEF SwapT
  <2>4. SchedulePending' = SchedulePending
    BY <2>1, <2>2, <2>3, DatesApart
  <2> QED
    BY <1>q, <2>1, <2>4
\* The writes of records.
<1>16. ASSUME NEW w \in Writes, ListDateWorkflows(w) \/ FindRecordTimers(w) \/ \E r \in Records : WriteRecord(w, r)
       PROVE  ScheduleInv'
  <2>1. UNCHANGED <<workflow, tableVars, arm, scan, req>> /\ (lost => lost')
    <3>1. ListDateWorkflows(w) => UNCHANGED <<workflow, tableVars, arm, scan, req>> /\ (lost => lost')
      BY DEF ListDateWorkflows
    <3>2. FindRecordTimers(w) => UNCHANGED <<workflow, tableVars, arm, scan, req, lost>>
      BY DEF FindRecordTimers
    <3>3. \A r \in Records : WriteRecord(w, r) => UNCHANGED <<workflow, tableVars, arm, scan, req, lost>>
      BY DEF WriteRecord
    <3> QED
      BY <1>16, <3>1, <3>2, <3>3
  <2> QED
    BY <1>q, <2>1 DEF SchedulePending, tableVars
<1>17. ASSUME NEW w \in Writes, Materialize(w) PROVE ScheduleInv'
  <2> DEFINE others == {i \in write[w].targets : KeyOf(i) \notin write[w].keys}
  <2>1. CASE pending' = Upsert(pending \ others, write[w].keys) /\ (lost => lost')
    <3>1. (\A i \in others : i.rec # NoRecord) /\ \A k \in write[w].keys : k.rec # NoRecord
      BY DEF Sorted
    <3>2. write[w].keys \in SUBSET Key
      BY TypesOf DEF WriteT
    <3>3. SchedulePending' = SchedulePending
      <4> HIDE DEF others
      <4> QED
        BY <2>1, <3>1, <3>2, DatesApart
    <3>4. UNCHANGED <<workflow, arm, scan, req, fired>>
      BY <1>17 DEF Materialize
    <3> QED
      BY <1>q, <2>1, <3>3, <3>4
  <2> QED
    BY <1>17, <1>f, <2>1 DEF Materialize
<1>18. CASE Prune \/ Tick \/ UNCHANGED vars
  <2>1. UNCHANGED <<workflow, pending, arm, scan, req, lost>> /\ fired' \subseteq fired
    BY <1>18 DEF Prune, Tick, vars, tableVars
  <2> QED
    BY <1>q, <2>1 DEF SchedulePending
<1>19. CASE Crash \/ \E q \in Requests : SwapFails(q)
  BY <1>19, <1>f DEF Crash, SwapFails
<1> QED
  BY <1>0, <1>1, <1>2, <1>3, <1>4, <1>5, <1>6, <1>7, <1>8, <1>9, <1>10, <1>11, <1>12, <1>13, <1>14, <1>15, <1>16, <1>17,
     <1>18, <1>19 DEF Next, ScanStep, RequestStep, SwapStep, WriteStep

LEMMA ScheduleInit == Init => Sorted /\ Past /\ Owned /\ Ready /\ ScheduleInv
<1> SUFFICES ASSUME Init PROVE Sorted /\ Past /\ Owned /\ Ready /\ ScheduleInv
  OBVIOUS
<1>1. /\ \A p \in Arming : arm[p].step = "off" /\ arm[p].targets = {}
      /\ \A q \in Requests : req[q].step = "new" /\ req[q].targets = {}
      /\ \A q \in Requests : swap[q].targets = {} /\ swap[q].doomed = {} /\ swap[q].found = {}
      /\ \A w \in Writes : write[w].targets = {} /\ write[w].keys = {}
      /\ scan.step = "idle" /\ scan.due = {} /\ scan.cur = {} /\ fired = {} /\ now = 0
  BY EmptiesIdle DEF Init, Arming, NoSwap
<1>2. Sorted /\ Past /\ Owned /\ Ready
  BY <1>1 DEF Sorted, Past, Owned, Ready, Arming
<1>3. Consuming = {}
  BY <1>1 DEF Consuming
<1>4. ASSUME ActiveSchedule(workflow) PROVE ScheduleInv
  <2> DEFINE i == [rec |-> NoRecord, at |-> NextFire(workflow.trigger, now), gen |-> 0]
  <2>1. pending = {i}
    BY <1>4 DEF Init
  <2>2. i.at \in Occurs[workflow.trigger]
    <3>1. 0 \in 0..MaxTime
      BY TimerBoundAssumption
    <3> QED
      BY <1>1, <1>4, <3>1, NextFireIs DEF ActiveSchedule
  <2>3. SchedulePending = {i}
    BY <2>1 DEF SchedulePending
  <2> QED
    BY <1>1, <1>3, <1>4, <2>2, <2>3 DEF ScheduleInv, NoStray, Covered, LateHarmless
<1>5. ASSUME ~ActiveSchedule(workflow) PROVE ScheduleInv
  <2>1. \A i \in pending : i.rec # NoRecord
    <3>1. pending = {} \/ pending = {[rec |-> r, at |-> FireAt(record[r], workflow.trigger), gen |-> 0] :
                       r \in {r \in Records \ TestLeads : Ahead(record[r], workflow.trigger)}}
      BY <1>5 DEF Init
    <3>2. NoRecord \notin Records
      BY RecordAssumption DEF NoRecord
    <3> QED
      BY <3>1, <3>2
  <2> QED
    BY <1>5, <2>1 DEF ScheduleInv, NoStray, SchedulePending
<1> QED
  BY <1>4, <1>5, <1>2

\* At rest an active schedule workflow has its next occurrence armed, and no
\* occurrence of another cron expression, unless a step armed from a superseded
\* copy (as the scan may), failed or died: requests, the scan and its reconciliation cancel and insert in
\* any order (ArmScheduleTimer, armWorkflowTimers, reconcileScheduleTimers).
THEOREM SchedulesStayArmed == Spec => []ScheduleArmed
<1> DEFINE I == Sorted /\ Past /\ Owned /\ Ready /\ ScheduleInv
<1>1. TInv /\ I /\ [Next]_vars => I'
  BY SortedNext, PastNext, OwnedNext, ReadyNext, ScheduleNext
<1>2. Spec => []I
  BY <1>1, ScheduleInit, TypesAlways, PTL DEF Spec
<1>3. I => ScheduleArmed
  <2> SUFFICES ASSUME I, AtRest, ~lost
               PROVE  IF ActiveSchedule(workflow)
                      THEN SchedulePending # {} /\ \A i \in SchedulePending : i.at \in Occurs[workflow.trigger]
                      ELSE SchedulePending = {}
    BY DEF ScheduleArmed
  <2>1. \A p \in Arming : arm[p].step = "off"
    BY DEF AtRest, Owned, Arming
  <2>2. ~WillArm /\ Consuming = {} /\ \A q \in Requests : req[q].step # "arm"
    BY DEF AtRest, WillArm, Consuming
  <2>3. NoStray /\ (ActiveSchedule(workflow) => Covered)
    BY DEF ScheduleInv
  <2> QED
    BY <2>1, <2>2, <2>3 DEF NoStray, Covered, Useful
<1> QED
  BY <1>2, <1>3, PTL

-----------------------------------------------------------------------------
(* DateInv, step by step.                                                    *)

\* What lies ahead after a step lay ahead before it.
LEMMA AheadBefore ==
    ASSUME TInv, [Next]_vars, NEW d \in Int, NEW f \in DateFields, d > NoDate, FireAt(d, f) > now'
    PROVE  Ahead(d, f) /\ FireAt(d, f) \in Nat /\ FireAt(d, f) > now
<1>1. FireAt(d, f) \in Int
  BY TriggerAssumption DEF FireAt
<1> QED
  BY <1>1, TimeGoesOn DEF Ahead

LEMMA DateLocalsNext == ASSUME TInv, DateLocals, [Next]_vars PROVE DateLocals'
<1>1. ASSUME NEW w \in Writes, write'[w].step \in {"list", "find", "apply"}, write'[w].silenced
      PROVE  write'[w].rec \in TestLeads
  BY <1>1, WriteMoves, EmptiesIdle DEF DateLocals, WriteMove
<1>2. ASSUME NEW w \in Writes, write'[w].step = "apply" PROVE write'[w].wf.trigger \in DateFields
  <2>1. write[w].step = "find" => write[w].wf.trigger \in DateFields
    BY DEF TInv, LocalInv
  <2> QED
    BY <1>2, <2>1, WriteMoves, EmptiesIdle DEF DateLocals, WriteMove
<1>3. ASSUME NEW w \in Writes, write'[w].step = "apply",
             write'[w].date > NoDate, FireAt(write'[w].date, write'[w].wf.trigger) > now'
      PROVE  write'[w].keys = {[rec |-> write'[w].rec, at |-> FireAt(write'[w].date, write'[w].wf.trigger)]}
  <2>1. CASE write'[w] = write[w]
    <3>1. write[w].date \in Int /\ write[w].wf.trigger \in DateFields
      <4>1. write[w] \in WriteT
        BY TypesOf
      <4> QED
        BY <1>2, <1>3, <2>1, <4>1, DatesAreInt DEF WriteT
    <3>2. Ahead(write[w].date, write[w].wf.trigger)
      BY <1>3, <2>1, <3>1, AheadBefore
    <3> QED
      BY <1>3, <2>1, <3>2 DEF DateLocals
  <2>2. CASE /\ write'[w].rec = write[w].rec /\ write'[w].date = write[w].date /\ write'[w].wf = write[w].wf
             /\ UNCHANGED now /\ write'[w].keys = KeyAsked(write[w])
    <3>1. Ahead(write[w].date, write[w].wf.trigger)
      BY <1>3, <2>2 DEF Ahead
    <3> QED
      BY <2>2, <3>1 DEF KeyAsked
  <2> QED
    BY <1>3, <2>1, <2>2, WriteMoves, EmptiesIdle DEF WriteMove
<1>4. ASSUME NEW q \in Requests PROVE /\ req'[q].step = "save" => req'[q].op \in {"update", "toggle"}
                                      /\ req'[q].step = "cancel" => ~ActiveDateField(req'[q].wf)
  BY ReqMoves, EmptiesIdle DEF DateLocals, ReqMove
<1>5. ASSUME NEW q \in Requests, swap'[q].step # "off" PROVE req'[q].step = "done"
  <2>1. CASE swap[q].step # "off"
    <3>1. req[q].step = "done"
      BY <2>1 DEF DateLocals
    <3> QED
      BY <3>1, ReqMoves, EmptiesIdle DEF ReqMove
  <2>2. CASE swap[q].step = "off"
    BY <1>5, <2>2, SwapMoves, EmptiesIdle DEF SwapMove
  <2> QED
    BY <2>1, <2>2
<1> QED
  BY <1>1, <1>2, <1>3, <1>4, <1>5 DEF DateLocals, Ahead

\* A request that owes a rebuild comes to start it.
LEMMA RebuildGoesOn ==
    ASSUME TInv, [Next]_vars, ~lost', UNCHANGED workflow, ActiveDateField(workflow), RebuildToCome, NEW r
    PROVE  RebuildToCome' \/ RebuildBrings(r)'
<1>1. PICK q \in Requests :
         req[q].step \in {"arm", "arming", "spawn"} /\ RebuildOwed(req[q]) /\ req[q].wf = workflow
  BY DEF RebuildToCome
<1>2. req \in [Requests -> ReqT] /\ swap \in [Requests -> SwapT]
  BY TypesOf
<1>3. CASE SpawnRebuild(q)
  <2>1. swap' = [swap EXCEPT ![q] = [NoSwap EXCEPT !.step = "begin", !.wf = req[q].wf]]
    BY <1>1, <1>3 DEF SpawnRebuild
  <2>2. swap'[q].step = "begin"
    BY <1>2, <2>1 DEF NoSwap
  <2> QED
    BY <2>2 DEF RebuildBrings
<1>4. CASE /\ req'[q].op = req[q].op /\ req'[q].wf = req[q].wf /\ req'[q].prev = req[q].prev
           /\ req'[q].step \in {"arm", "arming", "spawn"}
  BY <1>1, <1>4 DEF RebuildToCome, RebuildOwed
<1>5. CASE req'[q] = req[q]
  BY <1>1, <1>4, <1>5
<1> QED
  BY <1>1, <1>3, <1>4, <1>5, ReqMoves DEF ReqMove

\* The record whose timer is asked for, after a step that leaves the workflow and it alone.
Wanted(r) ==
    /\ ~lost' /\ UNCHANGED workflow /\ ActiveDateField(workflow) /\ Cardinality(Records) <= ScanLimit
    /\ record'[r] = record[r] /\ Ahead(record[r], workflow.trigger) /\ FireAt(record[r], workflow.trigger) > now'

\* A key that is inserted, and is free of rows under a DELETE, has its row.
LEMMA KeyBrought ==
    ASSUME TInv, Past, NEW r \in Records, Wanted(r), NEW rows, NEW keys \in SUBSET Key, DateKey(r) \in keys,
           pending' = Upsert(rows, keys),
           \A q \in Requests : \A i \in swap'[q].doomed : KeyOf(i) \notin keys
    PROVE  StaysPending(r)'
<1>1. \A j \in fired : KeyOf(j) # DateKey(r)
  <2> SUFFICES ASSUME NEW j \in fired, KeyOf(j) = DateKey(r) PROVE FALSE
    OBVIOUS
  <2>1. j.at <= now /\ j.at \in Nat /\ now \in Nat
    BY TypesOf, TimerBoundAssumption DEF Past, Row
  <2>2. j.at = FireAt(record[r], workflow.trigger)
    BY DEF KeyOf, DateKey
  <2> QED
    BY <2>1, <2>2 DEF Wanted, Ahead
<1>2. PICK i \in pending' : KeyOf(i) = DateKey(r)
  BY <1>1, TypesOf, UpsertBrings
<1>3. DateKey(r)' = DateKey(r)
  BY DEF DateKey, Wanted
<1> QED
  BY <1>2, <1>3 DEF StaysPending

\* A rebuild that is open ends with the record's timer, or counts as lost.
LEMMA SwapGoesOn ==
    ASSUME TInv, Past, DateLocals, [Next]_vars, NEW r \in Records \ TestLeads, Wanted(r), RebuildBrings(r)
    PROVE  RebuildBrings(r)' \/ StaysPending(r)'
<1>1. PICK q \in Requests :
         swap[q].step # "off" /\ ((swap[q].wf = workflow /\ swap[q].step = "insert") => DateKey(r) \in swap[q].found)
  BY DEF RebuildBrings
<1>2. swap \in [Requests -> SwapT] /\ lost \in BOOLEAN
  BY TypesOf
<1>3. DateKey(r)' = DateKey(r) /\ workflow' = workflow /\ ~lost'
  BY DEF DateKey, Wanted
<1>4. CASE swap'[q] = swap[q]
  BY <1>1, <1>3, <1>4 DEF RebuildBrings
<1>5. CASE SwapDelete(q) /\ ~swap[q].wf.active
  BY <1>3, <1>5 DEF SwapDelete, For, Wanted, ActiveDateField
<1>6. CASE SwapInsert(q)
  <2>1. /\ pending' = Upsert(pending \ swap[q].doomed, swap[q].found) /\ swap[q].wf = workflow
        /\ swap[q].step = "insert" /\ swap' = [swap EXCEPT ![q] = NoSwap]
        /\ \A i \in LockedBut(q) : KeyOf(i) \notin swap[q].found
    BY <1>2, <1>3, <1>6 DEF SwapInsert, For
  <2>2. swap[q].found \in SUBSET Key
    BY <1>2 DEF SwapT
  <2>3. swap'[q].doomed = {} /\ \A o \in Requests \ {q} : swap'[o] = swap[o]
    BY <1>2, <2>1 DEF NoSwap
  <2>4. \A o \in Requests : \A i \in swap'[o].doomed : KeyOf(i) \notin swap[q].found
    BY <2>1, <2>3 DEF LockedBut
  <2> QED
    BY <1>1, <2>1, <2>2, <2>4, KeyBrought
<1>7. CASE swap'[q].step \in {"begin", "delete", "scan"}
  BY <1>7 DEF RebuildBrings
<1>8. CASE SwapScan(q) /\ swap'[q].wf = swap[q].wf /\ swap'[q].step = "insert"
  <2> SUFFICES ASSUME swap[q].wf = workflow PROVE DateKey(r) \in swap'[q].found
    BY <1>3, <1>8 DEF RebuildBrings
  <2>1. r \in Scanned
    <3> DEFINE there == {o \in Records : Exists(record[o])}
               older == {o \in there : o < r}
    <3>1. Exists(record[r]) /\ r \in Nat
      BY RecordAssumption, DatesAreInt, TypesOf DEF Wanted, Ahead, Exists, NoDate
    <3>2. older \subseteq Records /\ r \notin older
      BY <3>1
    <3>3. /\ IsFiniteSet(older) /\ Cardinality(older) <= Cardinality(Records)
          /\ Cardinality(older) # Cardinality(Records)
      <4> HIDE DEF older
      <4> QED
        BY <3>2, RecordAssumption, FS_Subset
    <3>4. Cardinality(older) \in Nat /\ Cardinality(Records) \in Nat
      <4> HIDE DEF older
      <4> QED
        BY <3>3, RecordAssumption, FS_CardinalityType
    <3>5. Cardinality(older) < ScanLimit
      <4> HIDE DEF older
      <4> QED
        BY <3>3, <3>4, TimerBoundAssumption DEF Wanted
    <3> QED
      BY <3>1, <3>5 DEF Scanned
  <2> DEFINE F == {[rec |-> o, at |-> FireAt(record[o], swap[q].wf.trigger)] :
                     o \in {o \in Scanned \ TestLeads : Ahead(record[o], swap[q].wf.trigger)}}
  <2>2. swap' = [swap EXCEPT ![q] = [swap[q] EXCEPT !.step = "insert", !.found = F]]
    BY <1>2, <1>8 DEF SwapScan
  <2>3. DateKey(r) \in F
    BY <2>1 DEF DateKey, Wanted
  <2> HIDE DEF F
  <2>4. swap'[q] = [swap[q] EXCEPT !.step = "insert", !.found = F]
    BY <1>2, <2>2
  <2>5. swap'[q].found = F
    BY <1>2, <2>4 DEF SwapT
  <2> QED
    BY <2>3, <2>5
<1> QED
  BY <1>1, <1>3, <1>4, <1>5, <1>6, <1>7, <1>8, SwapMoves DEF SwapMove

\* A goroutine that carries the date the record has ends with its timer, or counts as lost.
LEMMA WriteGoesOn ==
    ASSUME TInv, Past, DateLocals, [Next]_vars, NEW r \in Records \ TestLeads, Wanted(r), WriteBrings(r)
    PROVE  WriteBrings(r)' \/ StaysPending(r)'
<1>1. PICK w \in Writes :
         write[w].step \in {"list", "find", "apply"} /\ write[w].rec = r /\ write[w].date = record[r]
  BY DEF WriteBrings
<1>2. write \in [Writes -> WriteT] /\ lost \in BOOLEAN
  BY TypesOf
<1>3. DateKey(r)' = DateKey(r) /\ workflow' = workflow /\ ~lost' /\ record'[r] = record[r]
  BY DEF DateKey, Wanted
<1>4. CASE /\ write'[w].step \in {"list", "find", "apply"} /\ write'[w].rec = write[w].rec
           /\ write'[w].date = write[w].date
  BY <1>1, <1>3, <1>4 DEF WriteBrings
<1>5. CASE write'[w] = write[w]
  BY <1>1, <1>4, <1>5
<1>6. ~write[w].silenced
  BY <1>1 DEF DateLocals
<1>7. CASE Materialize(w)
  <2> DEFINE others == {i \in write[w].targets : KeyOf(i) \notin write[w].keys}
  <2>1. /\ write[w].step = "apply" /\ write[w].wf = workflow /\ pending' = Upsert(pending \ others, write[w].keys)
        /\ (\A i \in Locked : KeyOf(i) \notin write[w].keys) /\ UNCHANGED swap
    BY <1>2, <1>3, <1>7 DEF Materialize
  <2>2. write[w].keys = {DateKey(r)}
    BY <1>1, <2>1 DEF DateLocals, DateKey, Wanted
  <2>3. write[w].keys \in SUBSET Key
    BY <1>2 DEF WriteT
  <2>4. \A o \in Requests : \A i \in swap'[o].doomed : KeyOf(i) \notin write[w].keys
    BY <2>1 DEF Locked
  <2> HIDE DEF others
  <2> QED
    BY <2>1, <2>2, <2>3, <2>4, KeyBrought
<1> QED
  BY <1>1, <1>3, <1>4, <1>5, <1>6, <1>7, WriteMoves DEF WriteMove, Wanted

\* A timer that lies ahead stays, unless a rebuild takes it.
LEMMA TimerGoesOn ==
    ASSUME TInv, Sorted, Past, DateLocals, [Next]_vars, NEW r \in Records, Wanted(r), StaysPending(r)
    PROVE  RebuildBrings(r)' \/ StaysPending(r)'
<1>1. PICK i \in pending : KeyOf(i) = DateKey(r) /\ \A q \in Requests : i \notin swap[q].doomed
  BY DEF StaysPending
<1>2. DateKey(r)' = DateKey(r) /\ workflow' = workflow /\ ~lost'
  BY DEF DateKey, Wanted
<1>3. i.rec = r /\ i.rec # NoRecord /\ i \in Row /\ ~(i.at <= now)
  <2>1. i.rec = r /\ i.at = FireAt(record[r], workflow.trigger) /\ i \in Row
    BY <1>1, TypesOf DEF KeyOf, DateKey
  <2>2. i.at > now /\ i.at \in Nat /\ now \in Nat
    BY <2>1, TypesOf, TimerBoundAssumption DEF Wanted, Ahead, Row
  <2> QED
    BY <2>1, <2>2, RecordAssumption DEF NoRecord
<1>4. lost \in BOOLEAN /\ IsFiniteSet(Held) /\ arm \in [Arming -> Arm] /\ write \in [Writes -> WriteT]
      /\ swap \in [Requests -> SwapT]
  BY TypesOf
<1>5. i \in pending'
  <2>1. ASSUME NEW p \in Arming, ArmCancel(p) PROVE i \in pending'
    <3>1. i \notin arm[p].targets
      BY <1>3 DEF Sorted
    <3> QED
      BY <1>1, <2>1, <3>1 DEF ArmCancel
  <2>2. ASSUME NEW p \in Arming, ArmInsert(p) PROVE i \in pending'
    <3> DEFINE keys == {[rec |-> NoRecord, at |-> NextFire(arm[p].wf.trigger, arm[p].now)]}
    <3>1. pending' = Upsert(pending, keys) \/ pending' = pending
      BY <2>2 DEF ArmInsert
    <3>2. pending \subseteq Upsert(pending, keys)
      BY DEF Upsert
    <3> QED
      BY <1>1, <3>1, <3>2
  <2>3. CASE MarkFired
    <3>1. i \notin scan.cur
      BY <1>3 DEF Past
    <3> QED
      BY <1>1, <2>3, <3>1 DEF MarkFired
  <2>4. ASSUME NEW q \in Requests, CancelDateTimers(q) PROVE i \in pending'
    BY <1>2, <2>4 DEF CancelDateTimers, For, DateLocals, Wanted
  <2>5. ASSUME NEW q \in Requests, SwapDelete(q) PROVE i \in pending'
    BY <1>1, <1>2, <2>5 DEF SwapDelete, For, Wanted, ActiveDateField
  <2>6. ASSUME NEW q \in Requests, SwapInsert(q) PROVE i \in pending'
    <3>1. pending' = Upsert(pending \ swap[q].doomed, swap[q].found)
      BY <2>6 DEF SwapInsert
    <3> QED
      BY <1>1, <3>1 DEF Upsert
  <2>7. ASSUME NEW w \in Writes, Materialize(w) PROVE i \in pending'
    <3> DEFINE others == {j \in write[w].targets : KeyOf(j) \notin write[w].keys}
    <3>1. /\ write[w].step = "apply" /\ write[w].wf = workflow /\ write[w].date = record[write[w].rec]
          /\ pending' = Upsert(pending \ others, write[w].keys)
      BY <1>2, <1>4, <2>7 DEF Materialize
    <3>2. i \notin others
      <4> SUFFICES ASSUME i \in write[w].targets PROVE KeyOf(i) \in write[w].keys
        OBVIOUS
      <4>1. write[w].rec = r
        BY <1>3 DEF Sorted
      <4>2. Ahead(write[w].date, write[w].wf.trigger)
        BY <3>1, <4>1 DEF Wanted
      <4> QED
        BY <1>1, <3>1, <4>1, <4>2 DEF DateLocals, DateKey
    <3> HIDE DEF others
    <3> QED
      BY <1>1, <3>1, <3>2 DEF Upsert
  <2>8. CASE UNCHANGED pending
    BY <1>1, <2>8
  <2> QED
    BY <2>1, <2>2, <2>3, <2>4, <2>5, <2>6, <2>7, <2>8 DEF Next, ScanStep, ScanBegin, Reconcile, ListDue, NextDue,
       Fire, Rearm, ReadForUpdate, ReadForToggle, SaveWorkflow, SoftDelete, CallArm, FindDateTimers, SpawnRebuild,
       RequestStep, SwapStep, SwapBegin, SwapScan, SwapFails, WriteStep, WriteRecord, ListDateWorkflows,
       FindRecordTimers, Prune, Tick, Crash, vars, tableVars, Arming
<1>6. ASSUME NEW q \in Requests PROVE swap'[q].step = "scan" \/ i \notin swap'[q].doomed
  BY <1>1, SwapMoves DEF SwapMove, NoSwap
<1>7. ASSUME NEW q \in Requests, swap'[q].step = "scan" PROVE RebuildBrings(r)'
  BY <1>7 DEF RebuildBrings
<1> QED
  BY <1>1, <1>2, <1>5, <1>6, <1>7 DEF StaysPending

\* What was lost stays so.
LEMMA LostStays == ASSUME [Next]_vars, lost PROVE lost'
<1>1. ASSUME UNCHANGED lost PROVE lost'
  BY <1>1
<1>2. ASSUME NEW q \in Requests, SaveWorkflow(q) \/ CancelDateTimers(q) \/ SwapDelete(q) \/ SwapInsert(q) PROVE lost'
  BY <1>2 DEF SaveWorkflow, CancelDateTimers, SwapDelete, SwapInsert, For
<1>3. ASSUME NEW p, ArmCancel(p) \/ ArmInsert(p) PROVE lost'
  BY <1>3 DEF ArmCancel, ArmInsert, For
<1>4. ASSUME NEW w \in Writes, ListDateWorkflows(w) \/ Materialize(w) PROVE lost'
  BY <1>4 DEF ListDateWorkflows, Materialize
<1>5. CASE NextDue \/ Crash \/ \E q \in Requests : SwapFails(q)
  BY <1>5 DEF NextDue, Crash, SwapFails
<1> QED
  BY <1>1, <1>2, <1>3, <1>4, <1>5 DEF Next, ScanStep, ScanBegin, Reconcile, ListDue, Fire, MarkFired, Rearm,
     ReadForUpdate, ReadForToggle, SoftDelete, CallArm, FindDateTimers, SpawnRebuild, RequestStep, SwapStep,
     SwapBegin, SwapScan, WriteStep, WriteRecord, FindRecordTimers, Prune, Tick, vars

LEMMA DateNext == ASSUME TInv, Sorted, Past, DateLocals, DateInv, [Next]_vars PROVE DateInv'
<1> SUFFICES ASSUME ~lost', ActiveDateField(workflow'), Cardinality(Records) <= ScanLimit,
                    NEW r \in Records \ TestLeads,
                    record'[r] > NoDate, FireAt(record'[r], workflow'.trigger) > now'
             PROVE  Brought(r)'
  BY DEF DateInv, Ahead
<1>0. req \in [Requests -> ReqT] /\ write \in [Writes -> WriteT] /\ workflow \in Workflow
      /\ record \in [Records -> Dates \cup {NoDate, Deleted, Unborn}]
  BY TypesOf
<1>1. ~lost
  BY LostStays
<1>2. CASE workflow' # workflow
  <2>1. PICK q \in Requests : SaveWorkflow(q) \/ SoftDelete(q)
    BY <1>2 DEF Next, ScanStep, ScanBegin, Reconcile, ListDue, NextDue, Fire, MarkFired, Rearm, ArmCancel, ArmInsert,
       ReadForUpdate, ReadForToggle, CallArm, FindDateTimers, CancelDateTimers, SpawnRebuild, RequestStep, SwapStep,
       SwapBegin, SwapDelete, SwapScan, SwapInsert, SwapFails, WriteStep, WriteRecord, ListDateWorkflows,
       FindRecordTimers, Materialize, Prune, Tick, Crash, vars
  <2>2. CASE SaveWorkflow(q)
    <3>1. /\ req[q].step = "save" /\ workflow' = req[q].wf /\ WorkflowRead(req[q]) = workflow
          /\ req' = [req EXCEPT ![q] = [req[q] EXCEPT !.step = "arm"]]
      BY <1>0, <1>2, <2>2 DEF SaveWorkflow
    <3>2. req'[q] = [req[q] EXCEPT !.step = "arm"]
      BY <1>0, <3>1
    <3>3. /\ req'[q].step = "arm" /\ req'[q].op = req[q].op
          /\ req'[q].wf = req[q].wf /\ req'[q].prev = req[q].prev
      BY <1>0, <3>2 DEF ReqT
    <3>4. RebuildOwed(req[q])
      <4>1. req[q].op \in {"update", "toggle"}
        BY <3>1 DEF DateLocals
      <4>2. CASE req[q].op = "update"
        <5>1. [req[q].wf EXCEPT !.trigger = req[q].prev] = workflow
          BY <3>1, <4>2 DEF WorkflowRead
        <5>2. req[q].wf \in Workflow
          BY <1>0 DEF ReqT
        <5>3. req[q].prev # req[q].wf.trigger
          BY <1>2, <3>1, <5>1, <5>2 DEF Workflow
        <5> QED
          BY <3>1, <4>2, <5>3 DEF RebuildOwed, ActiveDateField
      <4> QED
        BY <3>1, <4>1, <4>2 DEF RebuildOwed, ActiveDateField
    <3>5. RebuildToCome'
      BY <3>1, <3>3, <3>4 DEF RebuildToCome, RebuildOwed
    <3> QED
      BY <3>5 DEF Brought
  <2>3. CASE SoftDelete(q)
    <3>1. workflow'.deleted
      BY <1>0, <2>3 DEF SoftDelete, Workflow
    <3> QED
      BY <3>1 DEF ActiveDateField
  <2> QED
    BY <2>1, <2>2, <2>3
<1>3. CASE workflow' = workflow /\ record'[r] = record[r]
  <2>1. record[r] \in Int /\ workflow.trigger \in DateFields
    BY <1>0, <1>3, DatesAreInt DEF ActiveDateField
  <2>2. Ahead(record[r], workflow.trigger)
    BY <1>3, <2>1, AheadBefore
  <2>3. Wanted(r)
    BY <1>3, <2>2 DEF Wanted
  <2>4. Brought(r)
    BY <1>1, <1>3, <2>2 DEF DateInv
  <2> QED
    BY <1>3, <2>3, <2>4, RebuildGoesOn, SwapGoesOn, WriteGoesOn, TimerGoesOn DEF Brought
<1>4. CASE record'[r] # record[r]
  <2>1. PICK w \in Writes, o \in Records : WriteRecord(w, o)
    BY <1>4 DEF Next, ScanStep, ScanBegin, Reconcile, ListDue, NextDue, Fire, MarkFired, Rearm, ArmCancel, ArmInsert,
       ReadForUpdate, ReadForToggle, SaveWorkflow, SoftDelete, CallArm, FindDateTimers, CancelDateTimers, SpawnRebuild,
       RequestStep, SwapStep, SwapBegin, SwapDelete, SwapScan, SwapInsert, SwapFails, WriteStep, ListDateWorkflows,
       FindRecordTimers, Materialize, Prune, Tick, Crash, vars
  <2>2. PICK d \in Dates \cup {NoDate, Deleted}, s \in BOOLEAN :
           /\ record' = [record EXCEPT ![o] = d]
           /\ write' = [write EXCEPT ![w] = [NoWrite("list") EXCEPT !.rec = o, !.date = d, !.silenced = s]]
    BY <2>1 DEF WriteRecord
  <2>3. o = r /\ record'[r] = d
    BY <1>0, <1>4, <2>2
  <2>4. write'[w] = [NoWrite("list") EXCEPT !.rec = o, !.date = d, !.silenced = s]
    BY <1>0, <2>2
  <2>5. write'[w].step = "list" /\ write'[w].rec = r /\ write'[w].date = record'[r]
    BY <2>3, <2>4 DEF NoWrite
  <2> QED
    BY <2>5 DEF Brought, WriteBrings
<1> QED
  BY <1>2, <1>3, <1>4

LEMMA DateInit == Init => DateLocals /\ DateInv
<1> SUFFICES ASSUME Init PROVE DateLocals /\ DateInv
  OBVIOUS
<1>1. /\ \A w \in Writes : write[w].step = "new"
      /\ \A q \in Requests : req[q].step = "new" /\ swap[q].step = "off" /\ swap[q].doomed = {}
  BY EmptiesIdle DEF Init, NoSwap
<1>2. DateLocals
  BY <1>1 DEF DateLocals
<1>3. ASSUME ActiveDateField(workflow), NEW r \in Records \ TestLeads, Ahead(record[r], workflow.trigger)
      PROVE  StaysPending(r)
  <2>1. ~ActiveSchedule(workflow)
    BY <1>3, TriggerAssumption DEF ActiveSchedule, ActiveDateField
  <2>2. [rec |-> r, at |-> FireAt(record[r], workflow.trigger), gen |-> 0] \in pending
    BY <1>3, <2>1 DEF Init
  <2> QED
    BY <1>1, <2>2 DEF StaysPending, KeyOf, DateKey
<1> QED
  BY <1>2, <1>3 DEF DateInv, Brought

\* At rest every record whose date lies ahead has its timer, unless a goroutine
\* or a rebuild worked from a superseded copy, failed or died, or there are more
\* records than a rebuild scans: writes that re-arm their record and the
\* rebuilds a toggle or an edit starts interleave in any order
\* (MaterializeDateFieldTimer, replaceDateFieldTimers).
THEOREM DatesStayCovered == Spec => []DatesCovered
<1> DEFINE I == Sorted /\ Past /\ DateLocals /\ DateInv
<1>1. TInv /\ I /\ [Next]_vars => I'
  BY SortedNext, PastNext, DateLocalsNext, DateNext
<1>2. Spec => []I
  BY <1>1, ScheduleInit, DateInit, TypesAlways, PTL DEF Spec
<1>3. I => DatesCovered
  <2> SUFFICES ASSUME I, AtRest, ~lost, ActiveDateField(workflow), Cardinality(Records) <= ScanLimit,
                      NEW r \in Records \ TestLeads, Ahead(record[r], workflow.trigger)
               PROVE  [rec |-> r, at |-> FireAt(record[r], workflow.trigger)] \in {KeyOf(i) : i \in pending}
    BY DEF DatesCovered
  <2>1. Brought(r)
    BY DEF DateInv
  <2>2. ~RebuildToCome /\ ~RebuildBrings(r) /\ ~WriteBrings(r)
    BY DEF AtRest, RebuildToCome, RebuildBrings, WriteBrings
  <2> QED
    BY <2>1, <2>2 DEF Brought, StaysPending, DateKey
<1> QED
  BY <1>2, <1>3, PTL
=============================================================================
