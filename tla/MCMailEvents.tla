---------------------------- MODULE MCMailEvents ----------------------------
(***************************************************************************)
(* TLC instance of MailEvents. Any two of the events come: an open and its   *)
(* delivered event, two complaints that only together reach the rate, two     *)
(* soft bounces, an unsubscribe.                                             *)
(***************************************************************************)
EXTENDS MailEvents, TLC

CONSTANTS open, delivered, complaint1, complaint2, soft1, soft2, unsubscribe

Kind == open :> "opened" @@ delivered :> "delivered"
        @@ complaint1 :> "complaint" @@ complaint2 :> "complaint" @@ unsubscribe :> "unsubscribe"
        @@ soft1 :> "soft_bounce" @@ soft2 :> "soft_bounce"
Delivered == open :> delivered
=============================================================================
