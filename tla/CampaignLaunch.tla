--------------------------- MODULE CampaignLaunch ---------------------------
(***************************************************************************)
(* The API's operations on a campaign (campaign_usecase.go): edit, roster   *)
(* preview, launch, pause, resume, cancel, delete. A request that issues    *)
(* several statements takes several steps, and other requests and the       *)
(* workers run in between; the process may die between them.    *)
(***************************************************************************)
EXTENDS CampaignRoster

CONSTANTS
    Requests,       \* request handlers, each serving one call at a time
    MaxEdits,       \* bound: edits of the campaign
    MaxPauses,      \* bound: pauses of the campaign
    MaxFailures,    \* bound: statements that fail, handlers that die
    Removable       \* may the campaign be canceled or deleted?

ASSUME LaunchBounds ==
    /\ MaxEdits \in Nat
    /\ MaxPauses \in Nat
    /\ MaxFailures \in Nat
    /\ Removable \in BOOLEAN

VARIABLES
    at,             \* [Requests -> where the handler is]
    read,           \* [Requests -> Campaign]: the campaign it read first
    edits, pauses, failures, launches, previews

launchVars == <<at, read, edits, pauses, failures, launches, previews>>
boundVars == <<edits, pauses, failures, launches, previews>>

LaunchInit ==
    /\ at = [c \in Requests |-> "idle"]
    /\ read = [c \in Requests |-> campaign]
    /\ edits = 0 /\ pauses = 0 /\ failures = 0 /\ launches = 0 /\ previews = 0

Goto(c, there) == at' = [at EXCEPT ![c] = there]
Fail == failures < MaxFailures /\ failures' = failures + 1

-----------------------------------------------------------------------------
\* Launch

\* Readiness and Get. Readiness wants an audience; that it wants a content, a
\* domain and a profile is left out.
LaunchReads(c) ==
    /\ at[c] = "idle"
    /\ launches < MaxLaunches
    /\ ~campaign.deleted
    /\ campaign.audience # {}
    /\ launches' = launches + 1
    /\ read' = [read EXCEPT ![c] = campaign]
    /\ Goto(c, "launching")
    /\ UNCHANGED <<rosterVars, edits, pauses, failures, previews>>

\* Mutant: the status checked when the campaign was read, not in the UPDATE.
BeginOnStaleRead(c) ==
    /\ at[c] = "launching"
    /\ campaign' = IF read[c].status = "draft"
                   THEN [campaign EXCEPT !.status = "snapshotting"] ELSE campaign
    /\ Goto(c, IF read[c].status = "draft" THEN "launch: clear" ELSE "idle")
    /\ UNCHANGED <<roster, builds, read, boundVars>>

\* One launch claims the campaign; the others are answered 409.
Begin(c) ==
    /\ at[c] = "launching"
    /\ BeginLaunch
    /\ Goto(c, IF CanBegin THEN "launch: clear" ELSE "idle")
    /\ UNCHANGED <<roster, builds, read, boundVars>>

\* materializeRoster, for a launch or for a preview: ClearRoster, then
\* SnapshotRoster for the audience of the campaign read at first.
Clear(c) ==
    /\ \/ at[c] = "launch: clear" /\ Goto(c, "launch: build")
       \/ at[c] = "preview: clear" /\ Goto(c, "preview: build")
    /\ ClearRoster
    /\ UNCHANGED <<campaign, builds, read, boundVars>>

Build(c) ==
    /\ \/ at[c] = "launch: build" /\ Goto(c, "launch: assign")
       \/ at[c] = "preview: build" /\ Goto(c, "idle")
    /\ SnapshotRoster(read[c].audience)
    /\ UNCHANGED <<campaign, read, boundVars>>

\* The test configuration is the one read at first, too.
Assign(c) ==
    /\ at[c] = "launch: assign"
    /\ IF read[c].test
       THEN AssignABTestCells /\ Goto(c, "launch: hold")
       ELSE UNCHANGED roster /\ Goto(c, "launch: finish")
    /\ UNCHANGED <<campaign, builds, read, boundVars>>

Hold(c) ==
    /\ at[c] = "launch: hold"
    /\ HoldRemainder
    /\ Goto(c, "launch: finish")
    /\ UNCHANGED <<campaign, builds, read, boundVars>>

\* A statement of the launch fails and the claim is rolled back; that write may
\* fail as well, and its error is dropped.
Building == {"launch: clear", "launch: build", "launch: assign", "launch: hold"}
LaunchFails(c) ==
    /\ at[c] \in Building
    /\ Fail
    /\ Goto(c, "launch: revert")
    /\ UNCHANGED <<rosterVars, read, edits, pauses, launches, previews>>

Revert(c) ==
    /\ at[c] = "launch: revert"
    /\ Goto(c, "idle")
    /\ \/ RevertLaunch /\ UNCHANGED failures
       \/ Fail /\ UNCHANGED campaign
    /\ UNCHANGED <<roster, builds, read, edits, pauses, launches, previews>>

\* An error here is returned as it is: the campaign stays in snapshotting.
Finish(c) ==
    /\ at[c] = "launch: finish"
    /\ Goto(c, "idle")
    /\ \/ FinishLaunch /\ UNCHANGED failures
       \/ Fail /\ UNCHANGED campaign
    /\ UNCHANGED <<roster, builds, read, edits, pauses, launches, previews>>

-----------------------------------------------------------------------------
\* Snapshot: the status is checked when it is read, the roster rebuilt later.

SnapshotReads(c) ==
    /\ at[c] = "idle"
    /\ previews < MaxPreviews
    /\ ~campaign.deleted
    /\ campaign.status = "draft"
    /\ previews' = previews + 1
    /\ read' = [read EXCEPT ![c] = campaign]
    /\ Goto(c, "preview: clear")
    /\ UNCHANGED <<rosterVars, edits, pauses, failures, launches>>

\* Delete marks the campaign and then reclaims the roster, best effort.
DeleteMarks(c) ==
    /\ Removable
    /\ at[c] = "idle"
    /\ SoftDelete
    /\ Goto(c, "delete: clear")
    /\ UNCHANGED <<roster, builds, read, boundVars>>

DeleteClears(c) ==
    /\ at[c] = "delete: clear"
    /\ Goto(c, "idle")
    /\ \/ ClearRoster /\ UNCHANGED failures
       \/ Fail /\ UNCHANGED roster
    /\ UNCHANGED <<campaign, builds, read, edits, pauses, launches, previews>>

\* The process dies, or a preview's statement fails.
HandlerDies(c) ==
    /\ at[c] # "idle"
    /\ Fail
    /\ Goto(c, "idle")
    /\ UNCHANGED <<rosterVars, read, edits, pauses, launches, previews>>

-----------------------------------------------------------------------------
\* Requests of one statement

Edit ==
    /\ edits < MaxEdits
    /\ edits' = edits + 1
    /\ \E audience \in SUBSET Addresses, test \in BOOLEAN : UpdateCampaign(audience, test)
    /\ UNCHANGED <<roster, builds, at, read, pauses, failures, launches, previews>>

Pause ==
    /\ pauses < MaxPauses
    /\ pauses' = pauses + 1
    /\ CanSet({"sending"})
    /\ SetStatus("paused", {"sending"})
    /\ UNCHANGED <<roster, builds, at, read, edits, failures, launches, previews>>

Resume ==
    /\ CanSet({"paused"})
    /\ SetStatus("sending", {"paused"})
    /\ UNCHANGED <<roster, builds, launchVars>>

Cancel ==
    /\ Removable
    /\ CanSet({"sending", "paused"})
    /\ SetStatus("canceled", {"sending", "paused"})
    /\ UNCHANGED <<roster, builds, launchVars>>

-----------------------------------------------------------------------------
RequestStep(c) ==
    \/ LaunchReads(c) \/ Begin(c) \/ Clear(c) \/ Build(c) \/ Assign(c) \/ Hold(c)
    \/ LaunchFails(c) \/ Revert(c) \/ Finish(c)
    \/ SnapshotReads(c) \/ DeleteMarks(c) \/ DeleteClears(c) \/ HandlerDies(c)

LaunchNext ==
    \/ \E c \in Requests : RequestStep(c)
    \/ Edit \/ Pause \/ Resume \/ Cancel

=============================================================================
