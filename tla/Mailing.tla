------------------------------- MODULE Mailing -------------------------------
(***************************************************************************)
(* What a campaign promises to those it is sent to, with every mechanism    *)
(* (handlers, statements, batches, leases, keys, answers, days, crashes)    *)
(* left out: nobody is mailed twice, nor before the campaign is open; a     *)
(* mail goes only to who was claimed as due while the campaign was sending, *)
(* and was found allowed since; what is held back is due when the winner is *)
(* known, and the winner is chosen once; a campaign that ended has ended.   *)
(*                                                                          *)
(* CampaignLane implements this specification within the limits of its      *)
(* NoDoubleDelivery: a roster that is neither previewed nor edited, no      *)
(* campaign paused for a day over a row to be retried, and no write lost    *)
(* where a day passes. Run campaign_send checks it with one worker and no   *)
(* lost write, theorem LaneImplementsMailing proves it for any number of    *)
(* workers and requests.                                                    *)
(***************************************************************************)
EXTENDS Naturals

CONSTANTS
    Addresses,  \* email addresses
    Variants,   \* variants of an A/B test
    Undecided   \* no variant

VARIABLES
    state,      \* "draft", "snapshotting", "sending", "paused", "sent", "canceled"
    winner,     \* the variant that won the test
    due,        \* addresses on the roster that may be mailed
    held,       \* addresses on the roster that wait for the winner
    claimed,    \* addresses some worker has been given
    checked,    \* addresses some worker has found allowed and is about to mail
    allowed,    \* addresses that may be mailed by law
    times       \* [Addresses -> how often the address was mailed]

vars == <<state, winner, due, held, claimed, checked, allowed, times>>

Init ==
    /\ state = "draft"
    /\ winner = Undecided
    /\ due = {} /\ held = {} /\ claimed = {} /\ checked = {}
    /\ allowed = Addresses
    /\ times = [a \in Addresses |-> 0]

Move(from, to) ==
    /\ state \in from
    /\ state' = to
    /\ UNCHANGED <<winner, due, held, claimed, checked, allowed, times>>

Launch == Move({"draft"}, "snapshotting") \/ Move({"snapshotting"}, "draft")
Open == Move({"snapshotting"}, "sending")
Pause == Move({"sending"}, "paused") \/ Move({"paused"}, "sending")
End == Move({"sending"}, "sent") \/ Move({"sending", "paused"}, "canceled")

\* The roster is made, and the test cells are cut, by the launch alone.
Fill ==
    /\ state = "snapshotting"
    /\ due' \in SUBSET Addresses
    /\ held' \in SUBSET (Addresses \ due')
    /\ UNCHANGED <<state, winner, claimed, checked, allowed, times>>

Decide(v) ==
    /\ state = "sending"
    /\ winner = Undecided
    /\ winner' = v
    /\ due' = due \cup held
    /\ held' = {}
    /\ UNCHANGED <<state, claimed, checked, allowed, times>>

Claim(as) ==
    /\ state = "sending"
    /\ claimed' = claimed \cup as
    /\ UNCHANGED <<state, winner, due, held, checked, allowed, times>>

Check(a) ==
    /\ a \in claimed \cap allowed
    /\ checked' = checked \cup {a}
    /\ UNCHANGED <<state, winner, due, held, claimed, allowed, times>>

\* Another worker may have found the address allowed as well.
Mail(a) ==
    /\ a \in checked
    /\ times[a] = 0
    /\ times' = [times EXCEPT ![a] = 1]
    /\ checked' \in {checked, checked \ {a}}
    /\ UNCHANGED <<state, winner, due, held, claimed, allowed>>

\* Workers return, settle or lose what they have, and rosters are reclaimed.
LetGo ==
    /\ due' \in SUBSET due
    /\ held' \in SUBSET held
    /\ claimed' \in SUBSET claimed
    /\ checked' \in SUBSET checked
    /\ UNCHANGED <<state, winner, allowed, times>>

OptOut(a) ==
    /\ allowed' = allowed \ {a}
    /\ UNCHANGED <<state, winner, due, held, claimed, checked, times>>

Next ==
    \/ Launch \/ Open \/ Pause \/ End
    \/ Fill \/ LetGo
    \/ \E v \in Variants : Decide(v)
    \/ \E as \in SUBSET due : Claim(as)
    \/ \E a \in Addresses : Check(a) \/ Mail(a) \/ OptOut(a)

Spec == Init /\ [][Next]_vars
=============================================================================
