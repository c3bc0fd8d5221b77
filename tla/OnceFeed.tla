------------------------------ MODULE OnceFeed ------------------------------
(***************************************************************************)
(* What the sequence feeder promises to those who enroll segments, with     *)
(* every mechanism (ticks, pages, claims, runs, processes, the pruner) left *)
(* out: a contact is enrolled at most once, and only after some enrollment  *)
(* was made; the position of an active enrollment only goes forward and     *)
(* passes nobody it owes a run; its count is covered by the contacts it     *)
(* enrolled; it completes when it owes nothing; what ended has ended.       *)
(*                                                                          *)
(* SequenceFeed implements this specification for any number of feeders, if *)
(* the claim backfill of a boot succeeds (run sequence, theorem             *)
(* FeederImplementsOnceFeed).                                               *)
(***************************************************************************)
EXTENDS Naturals, FiniteSets

CONSTANTS
    Contacts,   \* contacts: numbers, in the order of their ids
    Jobs,       \* the enrollments of segments
    Nobody      \* no enrollment

VARIABLES
    state,      \* [Jobs -> {"none", "active", "completed", "blocked", "canceled"}]
    owed,       \* [Jobs -> contacts that were there from the start and stayed]
    position,   \* [Jobs -> how far the enrollment has come]
    count,      \* [Jobs -> runs the enrollment has reported]
    times,      \* [Contacts -> how often the contact was enrolled]
    by          \* [Contacts -> the enrollment the contact was enrolled for]

vars == <<state, owed, position, count, times, by>>

\* Some contacts were enrolled before, by nobody who is still known.
Init ==
    /\ state = [j \in Jobs |-> "none"]
    /\ owed = [j \in Jobs |-> {}]
    /\ position = [j \in Jobs |-> 0]
    /\ count = [j \in Jobs |-> 0]
    /\ times \in [Contacts -> {0, 1}]
    /\ by = [c \in Contacts |-> Nobody]

Settled(j, cs) == \A c \in owed[j] \cap cs : times[c] = 1

Create(j, cs) ==
    /\ state[j] = "none"
    /\ state' = [state EXCEPT ![j] = "active"]
    /\ owed' = [owed EXCEPT ![j] = cs]
    /\ position' = [position EXCEPT ![j] = 0]
    /\ count' = [count EXCEPT ![j] = 0]
    /\ UNCHANGED <<times, by>>

\* A contact leaves a segment: the enrollments of it owe the contact nothing.
Release(c, js) ==
    /\ owed' = [j \in Jobs |-> IF j \in js THEN owed[j] \ {c} ELSE owed[j]]
    /\ UNCHANGED <<state, position, count, times, by>>

Enroll(c, j) ==
    /\ state[j] # "none"
    /\ times[c] = 0
    /\ times' = [times EXCEPT ![c] = 1]
    /\ by' = [by EXCEPT ![c] = j]
    /\ UNCHANGED <<state, owed, position, count>>

Report(j) ==
    /\ state[j] = "active"
    /\ \E n \in (count[j] + 1)..Cardinality({c \in Contacts : by[c] = j}) :
         count' = [count EXCEPT ![j] = n]
    /\ UNCHANGED <<state, owed, position, times, by>>

Reach(j, x) ==
    /\ state[j] = "active"
    /\ position[j] < x
    /\ Settled(j, {c \in Contacts : c <= x})
    /\ position' = [position EXCEPT ![j] = x]
    /\ UNCHANGED <<state, owed, count, times, by>>

Complete(j) ==
    /\ state[j] = "active"
    /\ Settled(j, Contacts)
    /\ state' = [state EXCEPT ![j] = "completed"]
    /\ UNCHANGED <<owed, position, count, times, by>>

\* The workflow is gone.
Block(j) ==
    /\ state[j] = "active"
    /\ state' = [state EXCEPT ![j] = "blocked"]
    /\ UNCHANGED <<owed, position, count, times, by>>

Cancel(j) ==
    /\ state[j] \in {"active", "blocked"}
    /\ state' = [state EXCEPT ![j] = "canceled"]
    /\ UNCHANGED <<owed, position, count, times, by>>

Next ==
    \/ \E j \in Jobs :
         \/ \E cs \in SUBSET Contacts : Create(j, cs)
         \/ \E c \in Contacts : Enroll(c, j) \/ Reach(j, c)
         \/ Report(j) \/ Complete(j) \/ Block(j) \/ Cancel(j)
    \/ \E c \in Contacts : \E js \in SUBSET Jobs : Release(c, js)

Spec == Init /\ [][Next]_vars
=============================================================================
