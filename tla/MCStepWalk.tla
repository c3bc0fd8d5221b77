----------------------------- MODULE MCStepWalk -----------------------------
(***************************************************************************)
(* TLC instances of StepWalk: two trees that the engine accepts. The builder  *)
(* of the frontend ends a list with its fork; a definition saved otherwise      *)
(* need not, and the sides then rejoin behind it.                             *)
(***************************************************************************)
EXTENDS StepWalk, TLC

\* Wait for an open and remind who did not; if the record says so wait for a
\* click, else send; split, and let one side pass a day.
Journey == <<"wait", "condition", "action", "condition", "wait", "action", "split", "delay">>
JourneySteps == DOMAIN Journey
JourneyWithin == <<{}, {}, {<<2, FALSE>>}, {}, {<<4, TRUE>>}, {<<4, FALSE>>}, {}, {<<7, TRUE>>}>>
JourneyReads == [f \in {2, 4, 7} |-> IF f = 2 THEN 1 ELSE NoStep]
JourneySplit == [f \in {2, 4, 7} |-> TRUE]

\* If the record says so send; then wait and send.
Optional == <<"condition", "action", "delay", "action">>
OptionalSteps == DOMAIN Optional
OptionalWithin == <<{}, {<<1, TRUE>>}, {}, {}>>
OptionalReads == [f \in {1} |-> NoStep]
OptionalSplit == [f \in {1} |-> TRUE]

OneTick == [s \in Parks |-> 1]
OpenThenClick == [s \in Waits |-> IF s = 1 THEN "opened" ELSE "clicked"]
ByName == [e \in Emissions |-> IF e = "e1" THEN "opened" ELSE "clicked"]
=============================================================================
