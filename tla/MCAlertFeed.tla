---------------------------- MODULE MCAlertFeed ----------------------------
(***************************************************************************)
(* The alert bar with its hub, or the news feed that posts to it, one of   *)
(* them at a time: the feed hands an event to the hub as any client does   *)
(* and hears nothing of it but success or failure.  The other is at rest,  *)
(* the feed in that it is closed.                                          *)
(*                                                                         *)
(* Feed: an item, another a second later, and one that bears no date; a    *)
(* ring of two, answers that list two, two polls at a time.                *)
(***************************************************************************)
EXTENDS MCAlertSystem, NewsFeed

VARIABLE part

MCStamp == <<1, 2, 2>>

FeedAtRest ==
    /\ second = MaxSecond /\ published = 0
    /\ socket = "gone" /\ newsWire = <<>> /\ silent = TRUE
    /\ poll = [p \in NewsPolls |-> NoPoll]
    /\ seenKeys = {} /\ seenQueue = <<>> /\ lastEmitted = 0 /\ fired = <<>>
    /\ stopped = TRUE

MCInit ==
    \/ part = "alerts" /\ Init /\ FeedAtRest
    \/ part = "news" /\ Init /\ NewsInit

FeedIsClosed == stopped /\ UNCHANGED newsVars

MCNext ==
    /\ UNCHANGED part
    /\ \/ part = "alerts" /\ Next /\ UNCHANGED newsVars
       \/ part = "news" /\ (NewsNext \/ FeedIsClosed) /\ UNCHANGED vars

MCSpec == MCInit /\ [][MCNext]_<<part, vars, newsVars>> /\ NewsFairness

(* The types of both.                                                       *)
TypesOK == TypeOK /\ NewsTypeOK
=============================================================================
